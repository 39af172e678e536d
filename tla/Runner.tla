------------------------------- MODULE Runner -------------------------------
(***************************************************************************)
(* The turns of src/src/runner.py on top of the warm pool, with the job    *)
(* deadline and the stale-session retry src/src/main.py puts around them.  *)
(*                                                                         *)
(* One asyncio loop runs everything, so what happens between two awaits is *)
(* one action; a job's pc names the await it is suspended in.  The parts   *)
(* that share state are the jobs, the idle timers of the pool and the      *)
(* commands that terminate processes.                                      *)
(*                                                                         *)
(*   spawnWarm, spawnCold   create_subprocess_exec                         *)
(*   opening                the prompt is sent, the first event awaited    *)
(*   streaming              the later events of a warm turn                *)
(*   exitWait, stderrWait   _await_warm_exit after an error or EOF         *)
(*   cold                   the lines, then the exit, of a cold turn       *)
(*   failing, closing, parking, coldEnd                                    *)
(*                          a process this turn let go of is being retired *)
(*   over                   the stream has ended, the caller resumes       *)
(*   expired, reaping       the deadline fired: _handle_job_timeout        *)
(***************************************************************************)
EXTENDS WarmPool

CONSTANTS
  Job,         \* jobs that may be running at once
  Shutdown,    \* the reaper of the `종료` command
  Unkillable   \* the processes that may survive SIGKILL and its 5 s wait

ASSUME RunnerAssumption ==
  /\ Job \cap Proc = {}
  /\ Shutdown \notin Job \cup Proc
  /\ None \notin Key \X (Session \cup {None})
  /\ Unkillable \subseteq Proc

Reaper == Job \cup Proc \cup {Shutdown}
Retiring == {"failing", "closing", "parking", "coldEnd"}
PC == Retiring \cup
      {"off", "spawnWarm", "spawnCold", "opening", "streaming", "exitWait",
       "stderrWait", "cold", "over", "expired", "reaping"}

VARIABLES
  pc,        \* the await each job is suspended in
  wp,        \* the process the job's turn is reading, or None
  ask,       \* the <<key, resume>> of the job's current attempt
  stale,     \* the attempt reported that its conversation no longer exists
  deadline,  \* wait_for: "none", "armed", "fired", or "lost" once swallowed
  scope,     \* JobProcessScope of each job
  active,    \* _ACTIVE_CLAUDE_PROCESSES
  asked,     \* live processes whose stdin was closed or that got a signal
  reap,      \* who is waiting for the end of which processes
  loose      \* processes of a stream nobody reads any more, not yet finalised

jobVars == <<pc, wp, ask, stale, deadline>>
procVars == <<scope, active, asked, reap, loose>>
vars == <<poolVars, jobVars, procVars>>

RunnerTypeOK ==
  /\ PoolTypeOK
  /\ pc \in [Job -> PC]
  /\ wp \in [Job -> Proc \cup {None}]
  /\ ask \in [Job -> (Key \X (Session \cup {None})) \cup {None}]
  /\ stale \in [Job -> BOOLEAN]
  /\ deadline \in [Job -> {"none", "armed", "fired", "lost"}]
  /\ scope \in [Job -> SUBSET live]
  /\ active \subseteq live
  /\ asked \subseteq live
  /\ reap \in [Reaper -> SUBSET live]
  /\ loose \subseteq live

Init ==
  /\ PoolInit
  /\ pc = [j \in Job |-> "off"]
  /\ wp = [j \in Job |-> None]
  /\ ask = [j \in Job |-> None]
  /\ stale = [j \in Job |-> FALSE]
  /\ deadline = [j \in Job |-> "none"]
  /\ scope = [j \in Job |-> {}]
  /\ active = {}
  /\ asked = {}
  /\ reap = [r \in Reaper |-> {}]
  /\ loose = {}

Goto(j, label) == pc' = [pc EXCEPT ![j] = label]

-----------------------------------------------------------------------------
(* Terminations: SIGTERM (and a closed stdin) to every target, up to 5 s of *)
(* waiting, SIGKILL to those that are left, up to 5 s again.  The wait ends *)
(* with the last target, or leaves those behind that are Unkillable.       *)
(* Whoever reads scope, active or a list of targets drops exited processes *)
(* first, so ProcessExits takes them out of these sets at once.            *)

BeginReap(r, P) ==
  /\ reap' = [reap EXCEPT ![r] = P \cap live]
  /\ asked' = asked \cup (P \cap live)

ReapUnwaited(r) ==          \* mutant: signals and does not wait
  reap' = [reap EXCEPT ![r] = {}] /\ UNCHANGED <<poolVars, asked, loose>>

ReapOver(r) ==
  /\ reap[r] \subseteq Unkillable
  /\ reap' = [reap EXCEPT ![r] = {}]
  /\ UNCHANGED <<poolVars, asked, loose>>

ProcessExits(p) ==
  /\ Exit(p)
  /\ scope' = [j \in Job |-> scope[j] \ {p}]
  /\ active' = active \ {p}
  /\ asked' = asked \ {p}
  /\ reap' = [r \in Reaper |-> reap[r] \ {p}]
  /\ loose' = loose \ {p}
  /\ UNCHANGED jobVars

(* Job j lets go of the processes P and retires them; it goes on at label, *)
(* at once when they have already exited.                                  *)
Retire(j, P, waiting, label) ==
  /\ wp' = [wp EXCEPT ![j] = None]
  /\ IF P \cap live = {}
     THEN Goto(j, label) /\ UNCHANGED <<asked, reap>>
     ELSE Goto(j, waiting) /\ BeginReap(j, P)

-----------------------------------------------------------------------------
(* A turn starts: a warm process of the conversation if the pool has one,  *)
(* otherwise a spawn.  Retiring a process that died while parked takes no  *)
(* time: nothing is left of it but its pipes.                              *)
Attempt(j, k, s) ==
  /\ ask' = [ask EXCEPT ![j] = <<k, s>>]
  /\ stale' = [stale EXCEPT ![j] = FALSE]
  /\ \/ /\ ~Parks(k, s)
        /\ Goto(j, IF WarmEnabled THEN "spawnWarm" ELSE "spawnCold")
        /\ UNCHANGED <<poolVars, wp, scope>>
     \/ /\ Parks(k, s) /\ AcquireDead(k, s)
        /\ Goto(j, "spawnWarm")
        /\ UNCHANGED <<wp, scope>>
     \/ /\ Parks(k, s) /\ Checkout(k, s)
        /\ wp' = [wp EXCEPT ![j] = idle[<<k, s>>]]
        /\ scope' = [scope EXCEPT ![j] = @ \cup {idle[<<k, s>>]}]
        /\ Goto(j, "opening")
  /\ UNCHANGED <<active, asked, reap, loose>>

Start(j, k, s) ==
  /\ pc[j] = "off"
  /\ deadline' = [deadline EXCEPT ![j] = "armed"]
  /\ Attempt(j, k, s)

(* The CLI no longer knows the conversation: run the job once more, fresh. *)
Retry(j) ==
  /\ pc[j] = "over" /\ stale[j]
  /\ Attempt(j, ask[j][1], None)
  /\ UNCHANGED deadline

JobOverScoped(j) ==         \* mutant: the next job inherits the scope
  /\ Goto(j, "off")
  /\ ask' = [ask EXCEPT ![j] = None]
  /\ stale' = [stale EXCEPT ![j] = FALSE]
  /\ deadline' = [deadline EXCEPT ![j] = "none"]
  /\ UNCHANGED <<active, scope>>

JobOver(j) ==
  /\ Goto(j, "off")
  /\ ask' = [ask EXCEPT ![j] = None]
  /\ stale' = [stale EXCEPT ![j] = FALSE]
  /\ deadline' = [deadline EXCEPT ![j] = "none"]
  /\ scope' = [scope EXCEPT ![j] = {}]
  /\ UNCHANGED active

Finish(j) ==
  /\ pc[j] = "over" /\ ~stale[j]
  /\ JobOver(j)
  /\ UNCHANGED <<poolVars, wp, asked, reap, loose>>

Spawned(j, k) ==
  \E p \in Proc \ {wp[i] : i \in Job} :
    /\ Adopt(p, k)
    /\ active' = active \cup {p}
    /\ wp' = [wp EXCEPT ![j] = p]
    /\ scope' = [scope EXCEPT ![j] = @ \cup {p}]
    /\ UNCHANGED <<ask, stale, deadline, asked, reap, loose>>

SpawnWarm(j) ==
  /\ pc[j] = "spawnWarm"
  /\ Spawned(j, ask[j][1])
  /\ Goto(j, "opening")

(* No event reached the caller yet: the cold path takes over silently.     *)
SpawnWarmFails(j) ==
  /\ pc[j] = "spawnWarm"
  /\ Goto(j, "spawnCold")
  /\ UNCHANGED <<poolVars, wp, ask, stale, deadline, procVars>>

FirstEvent(j) ==
  /\ pc[j] = "opening"
  /\ Goto(j, "streaming")
  /\ UNCHANGED <<poolVars, wp, ask, stale, deadline, procVars>>

(* _abandon_warm_process: forgotten by pool and scope, then retired.       *)
Abandon(j, waiting, label) ==
  /\ Forget(wp[j])
  /\ scope' = [scope EXCEPT ![j] = @ \ {wp[j]}]
  /\ Retire(j, {wp[j]}, waiting, label)
  /\ UNCHANGED <<ask, active, loose>>

OpeningFails(j) ==
  /\ pc[j] = "opening"
  /\ Abandon(j, "failing", "spawnCold")
  /\ UNCHANGED <<stale, deadline>>

(* The error the caller sees may say so only if something was resumed.     *)
MaybeStale(j) == \E b \in {FALSE, ask[j][2] # None} : stale' = [stale EXCEPT ![j] = b]

(* A line breaks the stream limit: an error event, then the finally clause. *)
StreamBreaks(j) ==
  /\ pc[j] = "streaming"
  /\ Abandon(j, "closing", "over")
  /\ UNCHANGED <<stale, deadline>>

(* EOF, or a result with is_error: wait for the exit code and for stderr.  *)
TurnErrs(j) ==
  /\ pc[j] = "streaming"
  /\ Goto(j, "exitWait")
  /\ UNCHANGED <<poolVars, wp, ask, stale, deadline, procVars>>

ExitSeen(j) ==
  /\ pc[j] = "exitWait"
  /\ Goto(j, "stderrWait")
  /\ UNCHANGED <<poolVars, wp, ask, stale, deadline, procVars>>

StderrRead(j) ==
  /\ pc[j] = "stderrWait"
  /\ Abandon(j, "closing", "over")
  /\ MaybeStale(j)
  /\ UNCHANGED deadline

TurnCompletesUnasked(j) ==  \* mutant: a process park refused is left alone
  /\ pc[j] = "streaming"
  /\ \E s \in Session \cup {session[wp[j]]} : Park(wp[j], s)
  /\ LET out == Idle \ Idle' IN
     /\ scope' = [scope EXCEPT ![j] = @ \ out]
     /\ Retire(j, out, "parking", "over")
  /\ UNCHANGED <<ask, stale, deadline, active, loose>>

(* The turn completed: the process is parked, and whatever the pool let go *)
(* of in exchange (the process itself when it is refused) is retired.      *)
TurnCompletes(j) ==
  /\ pc[j] = "streaming"
  /\ \E s \in Session \cup {session[wp[j]]} : Park(wp[j], s)
  /\ LET out == (Idle \ Idle') \cup ({wp[j]} \ Idle') IN
     /\ scope' = [scope EXCEPT ![j] = @ \ out]
     /\ Retire(j, out, "parking", "over")
  /\ UNCHANGED <<ask, stale, deadline, active, loose>>

SpawnCold(j) ==
  /\ pc[j] = "spawnCold"
  /\ Spawned(j, None)
  /\ Goto(j, "cold")

SpawnColdFails(j) ==
  /\ pc[j] = "spawnCold"
  /\ Goto(j, "over")
  /\ UNCHANGED <<poolVars, wp, ask, stale, deadline, procVars>>

(* A cold turn ends with the exit of its process, or with a stream error   *)
(* while it still runs.                                                    *)
ColdEnds(j) ==
  /\ pc[j] = "cold"
  /\ IF wp[j] \in live THEN UNCHANGED stale ELSE MaybeStale(j)
  /\ Retire(j, {wp[j]}, "coldEnd", "over")
  /\ UNCHANGED <<poolVars, ask, deadline, scope, active, loose>>

(* The retirement a job waits for is over and the job goes on.  Whatever   *)
(* became of the process, it is no longer tracked.                         *)
Resumes(j) ==
  CASE deadline[j] = "fired" -> "expired"
    [] deadline[j] # "fired" /\ pc[j] = "failing" -> "spawnCold"
    [] OTHER -> "over"

Retired(j) ==
  /\ pc[j] \in Retiring
  /\ ReapOver(j)
  /\ active' = active \ reap[j]
  /\ scope' = [scope EXCEPT ![j] = @ \ reap[j]]
  /\ Goto(j, Resumes(j))
  /\ UNCHANGED <<wp, ask, stale, deadline>>

(* run_job raises between two events (its log cannot be written): the job  *)
(* is over, and the stream is left open until its finaliser runs.          *)
StreamDropped(j) ==
  /\ pc[j] \in {"streaming", "cold"}
  /\ loose' = loose \cup ({wp[j]} \cap live)
  /\ wp' = [wp EXCEPT ![j] = None]
  /\ JobOver(j)
  /\ UNCHANGED <<poolVars, asked, reap>>

-----------------------------------------------------------------------------
(* The deadline of a job: wait_for cancels the task where it is suspended. *)

(* In a spawn asyncio kills the child (external); while waiting for the    *)
(* first event nobody catches the cancellation and the process stays in the *)
(* scope; an unfinished retirement is left as it is.                       *)
TimeoutDrops(j) ==
  /\ pc[j] \in {"spawnWarm", "spawnCold", "opening"} \cup Retiring
  /\ reap' = [reap EXCEPT ![j] = {}]
  /\ Goto(j, "expired")
  /\ wp' = [wp EXCEPT ![j] = None]
  /\ deadline' = [deadline EXCEPT ![j] = "fired"]
  /\ UNCHANGED <<poolVars, ask, stale, scope, active, asked, loose>>

(* The finally clause of the turn disposes of the process first.           *)
TimeoutUnwinds(j) ==
  /\ \/ /\ pc[j] \in {"streaming", "exitWait"}
        /\ Abandon(j, "closing", "expired")
     \/ /\ pc[j] = "cold"
        /\ Retire(j, {wp[j]}, "coldEnd", "expired")
        /\ UNCHANGED <<poolVars, ask, scope, active, loose>>
  /\ deadline' = [deadline EXCEPT ![j] = "fired"]
  /\ UNCHANGED stale

(* wait_stderr_drained swallows the cancellation: the turn goes on, and the *)
(* deadline will not fire again.                                           *)
TimeoutSwallowed(j) ==
  /\ pc[j] = "stderrWait"
  /\ Abandon(j, "closing", "over")
  /\ MaybeStale(j)
  /\ deadline' = [deadline EXCEPT ![j] = "lost"]

TimeoutMissed(j) ==         \* mutant: a stream cannot be cancelled
  deadline[j] = "armed" /\ (TimeoutDrops(j) \/ TimeoutSwallowed(j))

Timeout(j) ==
  /\ deadline[j] = "armed"
  /\ TimeoutDrops(j) \/ TimeoutUnwinds(j) \/ TimeoutSwallowed(j)

(* terminate_job_processes: the live processes of the scope leave the pool *)
(* and are terminated; a survivor stays tracked.                           *)
HandleTimeout(j) ==
  /\ pc[j] = "expired"
  /\ Discard(scope[j])
  /\ BeginReap(j, scope[j])
  /\ Goto(j, "reaping")
  /\ UNCHANGED <<wp, ask, stale, deadline, scope, active, loose>>

TimeoutHandled(j) ==
  /\ pc[j] = "reaping"
  /\ ReapOver(j)
  /\ JobOver(j)
  /\ UNCHANGED wp

-----------------------------------------------------------------------------
(* Outside the jobs.                                                       *)

(* The idle timer fires and its task retires the process.                  *)
IdleTimeout(p) ==
  /\ Expire(p)
  /\ BeginReap(p, {p})
  /\ UNCHANGED <<jobVars, scope, active, loose>>

(* asyncio closes a stream nobody refers to any more (external), and its   *)
(* finally clause retires the process.                                     *)
Finalised(p) ==
  /\ p \in loose
  /\ loose' = loose \ {p}
  /\ BeginReap(p, {p})
  /\ UNCHANGED <<poolVars, jobVars, scope, active>>

BackgroundRetired(p) ==
  /\ reap[p] # {}
  /\ ReapOver(p)
  /\ active' = active \ reap[p]
  /\ UNCHANGED <<jobVars, scope>>

TerminateAllTimed ==        \* mutant: empties the dict behind the pool's back
  /\ reap[Shutdown] = {}
  /\ idle' = Without(idle, Slot)
  /\ BeginReap(Shutdown, active)
  /\ UNCHANGED <<older, slot, timer, session, key, live, jobVars, scope, active, loose>>

(* `종료`: empty the pool, terminate every tracked process.                *)
TerminateAll ==
  /\ reap[Shutdown] = {}
  /\ Reset
  /\ BeginReap(Shutdown, active)
  /\ UNCHANGED <<jobVars, scope, active, loose>>

TerminateAllGivesUp ==
  /\ reap[Shutdown] # {}
  /\ ReapOver(Shutdown)
  /\ UNCHANGED <<jobVars, scope, active>>

ReleaseUntracked(s) ==      \* mutant: stops tracking what is still exiting
  /\ \E x \in SameConversation(s) : idle[x] # None
  /\ Pop(SameConversation(s))
  /\ asked' = asked \cup ((Idle \ Idle') \cap live)
  /\ active' = active \ (Idle \ Idle')
  /\ UNCHANGED <<jobVars, scope, reap, loose>>

(* `/clear`: the conversation's parked process leaves the pool and is asked *)
(* to exit; nobody waits for it.                                           *)
Release(s) ==
  /\ \E x \in SameConversation(s) : idle[x] # None
  /\ Pop(SameConversation(s))
  /\ asked' = asked \cup ((Idle \ Idle') \cap live)
  /\ UNCHANGED <<jobVars, scope, active, reap, loose>>

-----------------------------------------------------------------------------
JobStep(j) ==
  \/ SpawnWarm(j) \/ SpawnWarmFails(j) \/ FirstEvent(j) \/ OpeningFails(j)
  \/ StreamBreaks(j) \/ TurnErrs(j) \/ ExitSeen(j) \/ StderrRead(j)
  \/ TurnCompletes(j) \/ SpawnCold(j) \/ SpawnColdFails(j) \/ ColdEnds(j)
  \/ Retired(j) \/ Retry(j) \/ Finish(j) \/ StreamDropped(j)
  \/ Timeout(j) \/ HandleTimeout(j) \/ TimeoutHandled(j)

Next ==
  \/ \E j \in Job : JobStep(j)
  \/ \E j \in Job, k \in Key, s \in Session \cup {None} : Start(j, k, s)
  \/ \E p \in Proc : IdleTimeout(p) \/ Finalised(p) \/ BackgroundRetired(p) \/ ProcessExits(p)
  \/ TerminateAll \/ TerminateAllGivesUp
  \/ \E s \in Session : Release(s)

Spec == Init /\ [][Next]_vars

(* Fairness: the timers fire, a job whose wait is over or whose process has *)
(* exited runs on, and SIGKILL ends every process somebody is still waiting *)
(* for, except the unkillable ones.  Nothing is assumed of the CLI: a spawn, *)
(* an event or an answer may never come.                                   *)
Fairness ==
  /\ \A j \in Job : WF_vars(Timeout(j))
  /\ \A j \in Job : WF_vars(Retired(j) \/ Retry(j) \/ Finish(j))
  /\ \A j \in Job : WF_vars(HandleTimeout(j) \/ TimeoutHandled(j))
  /\ \A j \in Job : WF_vars(wp[j] \notin live /\ (OpeningFails(j) \/ TurnErrs(j) \/ ColdEnds(j)))
  /\ \A p \in Proc : WF_vars(IdleTimeout(p)) /\ WF_vars(Finalised(p))
  /\ \A p \in Proc \ Unkillable : WF_vars(ProcessExits(p) /\ \E r \in Reaper : p \in reap[r])

LiveSpec == Spec /\ Fairness

-----------------------------------------------------------------------------
(* Safety.                                                                 *)
Held(j) == {wp[j]} \ {None}
InUse == UNION {Held(j) : j \in Job}

(* Whatever is alive can be reached by `종료`, through every early return, *)
(* cancellation and half-finished retirement (_ACTIVE_CLAUDE_PROCESSES;    *)
(* runner.py:234-238); only what survives SIGKILL may be lost.             *)
TrackedWhileAlive == live \ Unkillable \subseteq active

(* No process is left running unattended: one that is neither parked nor   *)
(* read by a turn nor waiting for a timeout handler or a finaliser was     *)
(* told to exit.                                                           *)
NoneLeftBehind ==
  \A p \in live : \/ p \in Idle \cup InUse \cup asked \cup loose
                  \/ \E j \in Job : pc[j] = "expired" /\ p \in scope[j]

(* A turn reads a process that was spawned for its key and holds the very  *)
(* conversation it resumes, or that is fresh (acquire, _start_warm_turn).  *)
RightContext ==
  \A j \in Job : \A p \in Held(j) :
    IF pc[j] = "cold" THEN key[p] = None
    ELSE key[p] = ask[j][1] /\ session[p] \in {None, ask[j][2]}

(* A process serves one turn at a time, none while it is parked, and is    *)
(* neither handed out nor parked while a retirement is disposing of it: two *)
(* owners would read each other's answers (acquire/park).                  *)
RetiredStaysOut ==
  \A r \in Reaper :
    r \in Proc \/ (r \in Job /\ pc[r] \in Retiring) =>
      reap[r] \cap (Idle \cup InUse) = {}
ExclusiveUse ==
  /\ \A i, j \in Job : i # j => Held(i) \cap Held(j) = {}
  /\ InUse \cap Idle = {}
  /\ RetiredStaysOut

(* A job's scope, all that its timeout may touch, is the one live process  *)
(* of its current attempt (JobProcessScope).                               *)
ScopeIsOneProcess ==
  \A j \in Job : /\ Held(j) \cap live \subseteq scope[j]
                 /\ \A p, q \in scope[j] : p = q
                 /\ pc[j] \in {"off", "spawnWarm", "spawnCold"} => scope[j] = {}

(* The warm attempt is dead before the cold one starts, unless SIGKILL     *)
(* could not end it: the same prompt does not run twice side by side       *)
(* (_start_warm_turn's contract).                                          *)
FallbackIsClean ==
  [][\A j \in Job : pc[j] # "spawnCold" /\ pc'[j] = "spawnCold" =>
       (Held(j) \cup scope[j] \cup reap[j]) \cap live' \subseteq Unkillable]_vars

-----------------------------------------------------------------------------
(* Liveness.                                                               *)

(* With a deadline every job ends, whatever the CLI does, unless the       *)
(* cancellation fell into the wait for stderr (wait_for, main.py:520-531). *)
JobsEndUnlessDeadlineLost ==
  \A j \in Job : pc[j] # "off" ~> pc[j] = "off" \/ deadline[j] = "lost"

(* A parked process is used, displaced or retired within its idle time.    *)
ParkedLeaves == \A p \in Proc : p \in Idle ~> p \notin Idle

(* A process retired in the background, because its time was up or its     *)
(* stream was dropped, is gone for good if it can be killed at all: nothing *)
(* cancels that retirement.                                                *)
ExpiredDies == \A p \in Proc \ Unkillable : p \in reap[p] ~> p \notin live

-----------------------------------------------------------------------------
(* What the repository says of the program and the code does not keep.     *)

(* "reaps exactly those": a job's timeout terminates no process another job *)
(* is using (JobProcessScope, runner.py:132-137; main.py:608-611).         *)
TimeoutSparesOthers ==
  \A i, j \in Job : i # j /\ pc[i] = "reaping" => reap[i] \cap Held(j) = {}

=============================================================================
