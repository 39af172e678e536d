----------------------------- MODULE SessionMap -----------------------------
(***************************************************************************)
(* What the session store promises its callers: a map from channels to     *)
(* conversations.  A call that changes it takes effect at one moment and   *)
(* whole, or, when it fails, not at all; it changes nothing but what it    *)
(* names; and a restart of the bot changes nothing.                        *)
(***************************************************************************)
CONSTANTS
  Worker,   \* who calls
  Channel,
  Entry,    \* what is remembered of a conversation
  Calls,    \* set, get, clear (one channel's entry) and clearAll
  None

VARIABLES
  sessions,  \* the entry of each channel, or None
  call       \* the call each worker is making, or None

Ask(w, x) ==
  /\ call[w] = None
  /\ call' = [call EXCEPT ![w] = x]
  /\ UNCHANGED sessions

(* The maps a call may leave behind; get drops an entry that is too old.   *)
Outcomes(x) ==
  CASE x.op = "set" ->
         {[sessions EXCEPT ![x.channel] = e] : e \in {f \in Entry : f.session = x.session}}
    [] x.op \in {"get", "clear"} -> {[sessions EXCEPT ![x.channel] = None]}
    [] x.op = "clearAll" -> {[c \in Channel |-> None]}

Succeed(w) ==
  /\ call[w] # None
  /\ sessions' \in Outcomes(call[w])
  /\ call' = [call EXCEPT ![w] = None]

Fail(w) ==
  /\ call[w] # None
  /\ call' = [call EXCEPT ![w] = None]
  /\ UNCHANGED sessions

Restart ==
  /\ call' = [w \in Worker |-> None]
  /\ UNCHANGED sessions

MapInit ==
  /\ sessions \in [Channel -> Entry \cup {None}]
  /\ call = [w \in Worker |-> None]

MapNext ==
  \/ \E w \in Worker : Succeed(w) \/ Fail(w) \/ \E x \in Calls : Ask(w, x)
  \/ Restart

MapSpec == MapInit /\ [][MapNext]_<<sessions, call>>

=============================================================================
