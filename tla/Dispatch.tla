------------------------------ MODULE Dispatch ------------------------------
(***************************************************************************)
(* From a Discord message to its answer (src/src/main.py): the ack, the    *)
(* concurrency gate, the session a turn resumes and the session it leaves  *)
(* behind, and the `/clear` and `종료` commands.                           *)
(*                                                                         *)
(* Handlers run on one event loop and interleave at their awaits; pc names *)
(* the await a message is suspended in.  The runner is taken for what it   *)
(* reports (a session, an error, a timeout), the store for the map that    *)
(* SessionStore implements; a write that fails is not modelled here.       *)
(***************************************************************************)
EXTENDS Naturals, Sequences, FiniteSets

CONSTANTS
  Msg,      \* messages that become jobs
  Channel,
  Session,  \* session ids: the CLI never hands one out twice
  None,
  Limit     \* MAX_CONCURRENT_JOBS

ASSUME DispatchAssumption ==
  /\ Limit \in Nat \ {0}
  /\ None \notin Channel \cup Session

VARIABLES
  pc, chan, explicit,  \* of each message: await, channel, `@sess-` id or None
  queued,    \* gate.locked() as _dispatch_job read it
  shown,     \* what the ack message says
  resume,    \* the session the turn resumes
  got,       \* the session its answer named
  holders,   \* who has a slot of _job_gate, resumed or not
  waiters,   \* the FIFO of the semaphore
  pending,   \* _jobs_pending
  sess,      \* the session store
  used,      \* the ids handed out so far
  stopping   \* a `종료` is waiting for processes to die

dispatchVars == <<pc, chan, explicit, queued, shown, resume, got,
                  holders, waiters, pending, sess, used, stopping>>

InGate == {"preparing", "relabelling", "running", "settling", "delivering", "excusing"}
PC == {"new", "allocating", "acking", "waiting", "woken", "done"} \cup InGate

DispatchTypeOK ==
  /\ pc \in [Msg -> PC]
  /\ chan \in [Msg -> Channel \cup {None}]
  /\ explicit \in [Msg -> Session \cup {None}]
  /\ queued \in [Msg -> BOOLEAN]
  /\ shown \in [Msg -> {"nothing", "queued", "working"}]
  /\ resume \in [Msg -> Session \cup {None}]
  /\ got \in [Msg -> Session \cup {None}]
  /\ holders \subseteq Msg
  /\ waiters \in Seq(Msg)
  /\ pending \in Nat
  /\ sess \in [Channel -> Session \cup {None}]
  /\ used \subseteq Session
  /\ stopping \in BOOLEAN

DispatchInit ==
  /\ pc = [m \in Msg |-> "new"]
  /\ chan = [m \in Msg |-> None]
  /\ explicit = [m \in Msg |-> None]
  /\ queued = [m \in Msg |-> FALSE]
  /\ shown = [m \in Msg |-> "nothing"]
  /\ resume = [m \in Msg |-> None]
  /\ got = [m \in Msg |-> None]
  /\ holders = {}
  /\ waiters = <<>>
  /\ pending = 0
  /\ sess = [c \in Channel |-> None]
  /\ used = {}
  /\ stopping = FALSE

Goto(m, label) == pc' = [pc EXCEPT ![m] = label]
Remember(c, s) == sess' = [sess EXCEPT ![c] = s]

gateVars == <<holders, waiters, pending>>
turnVars == <<resume, got, sess, used>>
headVars == <<chan, explicit, queued>>

-----------------------------------------------------------------------------
Woken == {m \in Msg : pc[m] = "woken"}

LockedLate ==               \* mutant: one too many
  Cardinality(holders) > Limit \/ waiters # <<>> \/ Woken # {}

(* The gate: asyncio.Semaphore (external).  A release hands the slot to    *)
(* the first waiter, which runs on when the loop gets to it; until it has, *)
(* whoever arrives queues up behind it even though a slot is free, ...     *)
Locked == Cardinality(holders) = Limit \/ waiters # <<>> \/ Woken # {}

(* ... and is let in by it, as far as the free slots go.                   *)
Admits ==
  LET free == Limit - Cardinality(holders)
  IN IF free < Len(waiters) THEN free ELSE Len(waiters)
LetIn == {waiters[i] : i \in 1 .. Admits}

WakeUp(m) ==
  /\ holders' = holders \cup LetIn
  /\ waiters' = SubSeq(waiters, Admits + 1, Len(waiters))
  /\ pc' = [x \in Msg |-> IF x = m THEN "preparing"
                         ELSE IF x \in LetIn THEN "woken" ELSE pc[x]]

(* Leaving the `async with` and the finally clause of _dispatch_job,       *)
(* normally or by an exception.                                            *)
Leave(m) ==
  LET left == holders \ {m} IN
  /\ pending' = IF pending = 0 THEN 0 ELSE pending - 1
  /\ IF m \in holders /\ waiters # <<>>
     THEN /\ holders' = left \cup {Head(waiters)}
          /\ waiters' = Tail(waiters)
          /\ pc' = [pc EXCEPT ![m] = "done", ![Head(waiters)] = "woken"]
     ELSE /\ holders' = left
          /\ UNCHANGED waiters
          /\ Goto(m, "done")

-----------------------------------------------------------------------------
(* on_message: an authorised message that is no command.                   *)
Arrive(m, c, s) ==
  /\ pc[m] = "new"
  /\ Goto(m, "allocating")
  /\ chan' = [chan EXCEPT ![m] = c]
  /\ explicit' = [explicit EXCEPT ![m] = s]
  /\ UNCHANGED <<queued, shown, gateVars, turnVars, stopping>>

(* The job directory is there, or could not be made.                       *)
Allocated(m) ==
  /\ pc[m] = "allocating"
  /\ Goto(m, "acking")
  /\ queued' = [queued EXCEPT ![m] = Locked]
  /\ pending' = pending + 1
  /\ UNCHANGED <<chan, explicit, shown, holders, waiters, turnVars, stopping>>

AllocationCounted(m) ==     \* mutant: the finally clause covers it as well
  /\ pc[m] = "allocating"
  /\ Goto(m, "done")
  /\ pending' = pending - 1
  /\ UNCHANGED <<headVars, shown, holders, waiters, turnVars, stopping>>

AllocationFails(m) ==
  /\ pc[m] = "allocating"
  /\ Goto(m, "done")
  /\ UNCHANGED <<headVars, shown, gateVars, turnVars, stopping>>

(* _resolve_resume_and_workdir, once the slot is held.                     *)
Resolve(m) ==
  resume' = [resume EXCEPT ![m] = IF explicit[m] # None THEN explicit[m]
                                  ELSE sess[chan[m]]]

AckSent(m) ==
  /\ pc[m] = "acking"
  /\ shown' = [shown EXCEPT ![m] = IF queued[m] THEN "queued" ELSE "working"]
  /\ IF Locked
     THEN /\ waiters' = Append(waiters, m)
          /\ Goto(m, "waiting")
          /\ UNCHANGED <<holders, resume>>
     ELSE /\ holders' = holders \cup {m}
          /\ Goto(m, "preparing")
          /\ Resolve(m)
          /\ UNCHANGED waiters
  /\ UNCHANGED <<headVars, pending, got, sess, used, stopping>>

AckFailsUncounted(m) ==     \* mutant: the ack is sent before the try
  /\ pc[m] = "acking"
  /\ Goto(m, "done")
  /\ UNCHANGED <<headVars, shown, gateVars, turnVars, stopping>>

AckFails(m) ==
  /\ pc[m] = "acking"
  /\ Leave(m)
  /\ UNCHANGED <<headVars, shown, turnVars, stopping>>

AdmittedAsQueued(m) ==      \* mutant: resolved before the slot was held
  /\ pc[m] = "woken"
  /\ WakeUp(m)
  /\ UNCHANGED <<headVars, shown, pending, turnVars, stopping>>

Admitted(m) ==
  /\ pc[m] = "woken"
  /\ WakeUp(m)
  /\ Resolve(m)
  /\ UNCHANGED <<headVars, shown, pending, got, sess, used, stopping>>

-----------------------------------------------------------------------------
(* _prepare_queued_job: prompt.md and job.json are written in a thread.    *)
Prepared(m) ==
  /\ pc[m] = "preparing"
  /\ Goto(m, IF queued[m] THEN "relabelling" ELSE "running")
  /\ UNCHANGED <<headVars, shown, gateVars, turnVars, stopping>>

(* The remembered working directory is gone: the channel forgets its       *)
(* session and the job is prepared afresh.                                 *)
WorkdirGone(m) ==
  /\ pc[m] = "preparing"
  /\ resume[m] # None /\ explicit[m] = None
  /\ Remember(chan[m], None)
  /\ resume' = [resume EXCEPT ![m] = None]
  /\ UNCHANGED <<pc, headVars, shown, gateVars, got, used, stopping>>

(* Any other bad directory: the user is told why and the job ends.         *)
Refused(m) ==
  /\ pc[m] = "preparing"
  /\ Goto(m, "excusing")
  /\ UNCHANGED <<headVars, shown, gateVars, turnVars, stopping>>

(* The ack of a job that waited now says it is running.                    *)
Relabelled(m) ==
  /\ pc[m] = "relabelling"
  /\ shown' = [shown EXCEPT ![m] = "working"]
  /\ Goto(m, "running")
  /\ UNCHANGED <<headVars, gateVars, turnVars, stopping>>

-----------------------------------------------------------------------------
(* _execute_job.                                                           *)

RunIsStaleAnyway(m) ==      \* mutant: recovers an explicit session as well
  /\ pc[m] = "running"
  /\ resume[m] # None
  /\ Remember(chan[m], None)
  /\ resume' = [resume EXCEPT ![m] = None]
  /\ UNCHANGED <<pc, headVars, shown, gateVars, got, used, stopping>>

(* _run_job_with_session_recovery: the CLI does not know the session.      *)
RunIsStale(m) ==
  /\ pc[m] = "running"
  /\ resume[m] # None /\ explicit[m] = None
  /\ Remember(chan[m], None)
  /\ resume' = [resume EXCEPT ![m] = None]
  /\ UNCHANGED <<pc, headVars, shown, gateVars, got, used, stopping>>

(* The run ends with an answer or an error, of the resumed conversation or *)
(* of a new one, or without having named any; the spinner is stopped first. *)
RunEnds(m) ==
  /\ pc[m] = "running"
  /\ \E s \in {resume[m], None} \cup (Session \ used) :
       /\ got' = [got EXCEPT ![m] = s]
       /\ used' = used \cup ({s} \ {None})
  /\ Goto(m, "settling")
  /\ UNCHANGED <<headVars, shown, gateVars, resume, sess, stopping>>

(* A timeout or an exception: the session is left as it is.                *)
RunAborts(m) ==
  /\ pc[m] = "running"
  /\ Goto(m, "excusing")
  /\ UNCHANGED <<headVars, shown, gateVars, turnVars, stopping>>

(* set_session, then the final edit and send_outputs.                      *)
Settled(m) ==
  /\ pc[m] = "settling"
  /\ IF got[m] # None THEN Remember(chan[m], got[m]) ELSE UNCHANGED sess
  /\ Goto(m, "delivering")
  /\ UNCHANGED <<headVars, shown, gateVars, resume, got, used, stopping>>

DeliveredUnreleased(m) ==   \* mutant: the slot is not given back
  /\ pc[m] \in {"delivering", "excusing"}
  /\ Goto(m, "done")
  /\ pending' = pending - 1
  /\ UNCHANGED <<headVars, shown, holders, waiters, turnVars, stopping>>

(* Everything is sent, or Discord refused it and the exception ends the    *)
(* handler: both leave the gate.                                           *)
Delivered(m) ==
  /\ pc[m] \in {"delivering", "excusing"}
  /\ Leave(m)
  /\ UNCHANGED <<headVars, shown, turnVars, stopping>>

-----------------------------------------------------------------------------
(* `/clear`: no await between reading the session and forgetting it.       *)
Clear(c) ==
  /\ Remember(c, None)
  /\ UNCHANGED <<pc, headVars, shown, resume, got, gateVars, used, stopping>>

(* `종료`: terminate_active_claude_processes is awaited, ...               *)
ShutdownBegins ==
  /\ ~stopping
  /\ stopping' = TRUE
  /\ UNCHANGED <<pc, headVars, shown, gateVars, turnVars>>

(* ... and only then are the sessions cleared.                             *)
ShutdownEnds ==
  /\ stopping
  /\ stopping' = FALSE
  /\ sess' = [c \in Channel |-> None]
  /\ UNCHANGED <<pc, headVars, shown, gateVars, resume, got, used>>

-----------------------------------------------------------------------------
MsgStep(m) ==
  \/ Allocated(m) \/ AllocationFails(m) \/ AckSent(m) \/ AckFails(m)
  \/ Admitted(m) \/ Prepared(m) \/ WorkdirGone(m) \/ Refused(m)
  \/ Relabelled(m) \/ RunIsStale(m) \/ RunEnds(m) \/ RunAborts(m)
  \/ Settled(m) \/ Delivered(m)

DispatchNext ==
  \/ \E m \in Msg, c \in Channel, s \in Session \cup {None} :
       (s = None \/ s \in used) /\ Arrive(m, c, s)
  \/ \E m \in Msg : MsgStep(m)
  \/ \E c \in Channel : Clear(c)
  \/ ShutdownBegins \/ ShutdownEnds

DispatchSpec == DispatchInit /\ [][DispatchNext]_dispatchVars

(* Discord calls and threads return, and every run ends: its deadline, or  *)
(* the CLI, sees to that.                                                  *)
DispatchLive == DispatchSpec /\ \A m \in Msg : WF_dispatchVars(MsgStep(m))

-----------------------------------------------------------------------------
(* Never more jobs behind the gate than it has slots, whichever way jobs   *)
(* leave it; and while a job waits no slot is idle, unless a job that was  *)
(* just woken will see to it (_job_gate).                                  *)
GateExact ==
  /\ Cardinality(holders) <= Limit
  /\ waiters # <<>> => Cardinality(holders) = Limit \/ Woken # {}
  /\ holders = {m \in Msg : pc[m] \in InGate \cup {"woken"}}

(* The backlog a queued user is told counts exactly the jobs acknowledged  *)
(* or about to be and not yet finished (_jobs_pending).                    *)
PendingExact ==
  pending = Cardinality({m \in Msg : pc[m] \notin {"new", "allocating", "done"}})

(* With one slot, turns of a channel chain: while a turn runs, no other one *)
(* has moved the channel on to a conversation that it does not see         *)
(* (main.py:398-403).                                                      *)
TurnsChain ==
  Limit = 1 =>
    \A m \in Msg : pc[m] \in InGate \ {"delivering", "excusing"} /\ explicit[m] = None =>
      sess[chan[m]] \in {resume[m], None}

(* With one slot, what recovery from a stale session or a vanished working *)
(* directory forgets is the very session that is stale.                    *)
RecoveryDropsItsOwn ==
  [][Limit = 1 =>
       \A m \in Msg : resume[m] # None /\ resume'[m] = None =>
         sess[chan[m]] \in {resume[m], None}]_dispatchVars

(* Every message that got a job comes to its end, and lets the next one in. *)
EveryJobFinishes == \A m \in Msg : pc[m] # "new" ~> pc[m] = "done"

=============================================================================
