------------------------------ MODULE MCForget ------------------------------
(* The dispatcher with a history: the conversations the user was told are  *)
(* gone, and which of them a later message must therefore not resume.      *)
EXTENDS MCDispatch

VARIABLES
  gone,   \* of each channel: the conversations `/clear` or `종료` found there
  since   \* of each message: what was gone when it arrived

history == <<gone, since>>

ForgetInit ==
  /\ DispatchInit
  /\ gone = [c \in Channel |-> {}]
  /\ since = [m \in Msg |-> {}]

Known(c) == {sess[c]} \ {None}

(* No message names a session itself: `@sess-` is a request to go back.    *)
ForgetNext ==
  \/ \E m \in Msg, c \in Channel :
       /\ Arrive(m, c, None)
       /\ since' = [since EXCEPT ![m] = gone[c]]
       /\ UNCHANGED gone
  \/ (\E m \in Msg : MsgStep(m)) /\ UNCHANGED history
  \/ \E c \in Channel :
       /\ Clear(c)
       /\ gone' = [gone EXCEPT ![c] = @ \cup Known(c)]
       /\ UNCHANGED since
  \/ ShutdownBegins /\ UNCHANGED history
  \/ /\ ShutdownEnds
     /\ gone' = [c \in Channel |-> gone[c] \cup Known(c)]
     /\ UNCHANGED since

ForgetSpec == ForgetInit /\ [][ForgetNext]_<<dispatchVars, history>>

(* "다음 메시지부터 새 대화로 시작합니다" (`/clear`, main.py:359) and      *)
(* "다음 메시지는 새 Claude 대화로 시작됩니다" (`종료`, README.md:326): a message *)
(* that comes afterwards resumes no conversation that was ended.           *)
EndedStaysEnded ==
  \A m \in Msg :
    pc[m] \in {"preparing", "relabelling", "running"} => resume[m] \notin since[m]

=============================================================================
