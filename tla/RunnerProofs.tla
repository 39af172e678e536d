---------------------------- MODULE RunnerProofs ----------------------------
(***************************************************************************)
(* Proofs about the runner, for any number of processes, jobs, keys and    *)
(* sessions: it uses the pool only as the pool is specified, so that every *)
(* theorem of WarmPoolProofs holds of it, and a process serves one turn,   *)
(* of its own conversation, and is tracked and seen to until it is gone.   *)
(*                                                                         *)
(* The first two support each other.  That a turn may park its process     *)
(* needs that the process is not parked already and has a key; that no two *)
(* turns get hold of one process needs the pool's invariant.  Everything   *)
(* about the end of a process (CleanInv) rests on both: a process leaves   *)
(* the pool and the turns only into the hands of somebody who ends it, and *)
(* a job's scope follows its one process until then.                       *)
(*                                                                         *)
(* The liveness theorems follow a job through its stations: where it waits, *)
(* whether its deadline is armed or has fired (LifeInv), and whether it    *)
(* still has a conversation to resume.                                     *)
(***************************************************************************)
EXTENDS Runner, WarmPoolProofs

Warm == {"opening", "streaming", "exitWait", "stderrWait"}
Reading == Warm \cup {"cold"}

(* What a job holds: a process exactly while its turn reads one, which is  *)
(* not parked and, when warm, has the key and the conversation asked for.  *)
HoldsWell(j) ==
  /\ wp[j] # None <=> pc[j] \in Reading
  /\ wp[j] \notin Idle
  /\ pc[j] # "off" => ask[j] # None
  /\ pc[j] = "cold" => key[wp[j]] = None
  /\ pc[j] \in Warm => key[wp[j]] = ask[j][1] /\ session[wp[j]] \in {None, ask[j][2]}

HoldInv ==
  /\ \A j \in Job : HoldsWell(j)
  /\ \A i, j \in Job : i # j /\ wp[i] = wp[j] => wp[i] = None

RunnerInv == PoolInv /\ RunnerTypeOK /\ HoldInv

(* A step that only takes processes out of the pool.                       *)
Shrinks == Idle' \subseteq Idle /\ UNCHANGED <<key, session>>

-----------------------------------------------------------------------------
(* What a turn holds can be parked.                                        *)
LEMMA HeldFacts ==
  ASSUME RunnerInv, NEW j \in Job
  PROVE  /\ pc[j] \in Reading => wp[j] \in Proc \ Idle
         /\ pc[j] \notin Reading => wp[j] = None
         /\ pc[j] # "off" => ask[j][1] \in Key /\ ask[j][2] \in Session \cup {None}
         /\ pc[j] \in Warm => key[wp[j]] \in Key /\ key[wp[j]] # None
         /\ scope[j] \in SUBSET Proc
<1>1. HoldsWell(j) /\ pc[j] \in PC /\ wp[j] \in Proc \cup {None}
  BY DEF RunnerInv, HoldInv, RunnerTypeOK
<1>2. pc[j] # "off" => ask[j] \in Key \X (Session \cup {None})
  BY <1>1 DEF HoldsWell, RunnerInv, RunnerTypeOK
<1>3. pc[j] \in Warm => pc[j] # "off"
  BY DEF Warm
<1>4. scope[j] \in SUBSET Proc
  BY DEF RunnerInv, RunnerTypeOK, PoolTypeOK
<1>5. None \notin Key
  BY PoolAssumption
<1> QED
  BY <1>1, <1>2, <1>3, <1>4, <1>5 DEF HoldsWell

(* Popping the slots of a conversation discards the processes in them.     *)
LEMMA ReleaseDiscards ==
  ASSUME PoolInv, NEW s \in Session, Pop(SameConversation(s))
  PROVE  \E targets \in SUBSET Proc : Discard(targets)
<1> DEFINE same == SameConversation(s)
           targets == {idle[x] : x \in same} \ {None}
           slots == {x \in Slot : idle[x] \in targets}
           gone == {idle[x] : x \in slots}
<1>1. targets \in SUBSET Proc
  BY DEF PoolInv, PoolTypeOK, SameConversation
<1>2. \A x \in Slot : x \in slots <=> x \in same /\ idle[x] # None
  BY <1>1 DEF PoolInv, SlotsAgree, SameConversation
<1>3. \A p \in Proc : p \in {idle[x] : x \in same} <=> p \in gone
  <2>1. None \notin Proc
    BY PoolAssumption
  <2> QED
    BY <2>1, <1>2 DEF SameConversation
<1>4. Without(idle, same) = Without(idle, slots)
  BY <1>2 DEF Without
<1>5. {o \in older : o[1] \notin {idle[x] : x \in same} /\ o[2] \notin {idle[x] : x \in same}}
        = {o \in older : o[1] \notin gone /\ o[2] \notin gone}
  BY <1>3 DEF PoolInv, PoolTypeOK
<1>6. [p \in Proc |-> IF p \in {idle[x] : x \in same} THEN None ELSE slot[p]]
        = [p \in Proc |-> IF p \in gone THEN None ELSE slot[p]]
  BY <1>3
<1>7. timer \ {idle[x] : x \in same} = timer \ gone
  BY <1>3 DEF PoolInv, PoolTypeOK
<1>8. Pop(slots)
  BY <1>4, <1>5, <1>6, <1>7 DEF Pop
<1> QED
  BY <1>1, <1>8 DEF Discard

(* Every action that touches the pool is one of the pool's operations.     *)
LEMMA StepsUsePool ==
  ASSUME RunnerInv, Next
  PROVE  PoolNext \/ UNCHANGED poolVars
<1> DEFINE Ok == PoolNext \/ UNCHANGED poolVars
<1>1. ASSUME NEW j \in Job, NEW k \in Key, NEW s \in Session \cup {None}, Attempt(j, k, s)
      PROVE  Ok
  <2>1. ASSUME s \in Session, Checkout(k, s) \/ AcquireDead(k, s) PROVE Ok
    BY <2>1 DEF PoolNext
  <2>2. Parks(k, s) => s \in Session
    BY DEF Parks
  <2> QED
    BY <1>1, <2>1, <2>2 DEF Attempt
<1>2. ASSUME NEW j \in Job, NEW k \in Key \cup {None}, Spawned(j, k) PROVE Ok
  BY <1>2 DEF Spawned, PoolNext
<1>3. ASSUME NEW j \in Job, pc[j] \in Reading, Forget(wp[j]) PROVE Ok
  <2>1. wp[j] \in Proc
    BY <1>3, HeldFacts
  <2> QED
    BY <1>3, <2>1 DEF PoolNext
<1>4. ASSUME NEW j \in Job, JobStep(j) PROVE Ok
  <2>1. CASE SpawnWarm(j)
    <3>1. ask[j][1] \in Key
      BY <2>1, HeldFacts DEF SpawnWarm
    <3> QED
      BY <2>1, <3>1, <1>2 DEF SpawnWarm
  <2>2. CASE SpawnCold(j)
    BY <2>2, <1>2 DEF SpawnCold
  <2>3. CASE OpeningFails(j) \/ StreamBreaks(j) \/ StderrRead(j)
    BY <2>3, <1>3 DEF OpeningFails, StreamBreaks, StderrRead, Abandon, Reading, Warm
  <2>4. CASE TurnCompletes(j)
    <3>1. pc[j] = "streaming" /\ pc[j] \in Warm
      BY <2>4 DEF TurnCompletes, Warm
    <3>2. wp[j] \in Proc \ Idle /\ key[wp[j]] # None
      BY <3>1, HeldFacts DEF Reading
    <3>3. session[wp[j]] \in Session \cup {None}
      BY <3>2 DEF RunnerInv, PoolInv, PoolTypeOK
    <3>4. PICK s \in Session \cup {session[wp[j]]} : Park(wp[j], s)
      BY <2>4 DEF TurnCompletes
    <3> QED
      BY <3>2, <3>3, <3>4 DEF PoolNext
  <2>5. CASE Retry(j)
    <3>1. ask[j][1] \in Key
      BY <2>5, HeldFacts DEF Retry
    <3> QED
      BY <2>5, <3>1, <1>1 DEF Retry
  <2>6. CASE Timeout(j)
    <3>1. CASE TimeoutDrops(j)
      BY <3>1 DEF TimeoutDrops
    <3>2. CASE TimeoutUnwinds(j)
      BY <3>2, <1>3 DEF TimeoutUnwinds, Abandon, Reading, Warm
    <3>3. CASE TimeoutSwallowed(j)
      BY <3>3, <1>3 DEF TimeoutSwallowed, Abandon, Reading, Warm
    <3> QED
      BY <2>6, <3>1, <3>2, <3>3 DEF Timeout
  <2>7. CASE HandleTimeout(j)
    BY <2>7, HeldFacts DEF HandleTimeout, PoolNext
  <2>8. CASE \/ SpawnWarmFails(j) \/ FirstEvent(j) \/ TurnErrs(j) \/ ExitSeen(j)
             \/ SpawnColdFails(j) \/ ColdEnds(j) \/ Retired(j) \/ Finish(j)
             \/ StreamDropped(j) \/ TimeoutHandled(j)
    BY <2>8 DEF SpawnWarmFails, FirstEvent, TurnErrs, ExitSeen, SpawnColdFails,
                ColdEnds, Retired, Finish, StreamDropped, TimeoutHandled, ReapOver
  <2> QED
    BY <1>4, <2>1, <2>2, <2>3, <2>4, <2>5, <2>6, <2>7, <2>8 DEF JobStep
<1>5. ASSUME NEW j \in Job, NEW k \in Key, NEW s \in Session \cup {None}, Start(j, k, s)
      PROVE  Ok
  BY <1>5, <1>1 DEF Start
<1>6. ASSUME NEW p \in Proc,
             IdleTimeout(p) \/ Finalised(p) \/ BackgroundRetired(p) \/ ProcessExits(p)
      PROVE  Ok
  BY <1>6 DEF IdleTimeout, Finalised, BackgroundRetired, ProcessExits, ReapOver, PoolNext
<1>7. ASSUME TerminateAll \/ TerminateAllGivesUp PROVE Ok
  BY <1>7 DEF TerminateAll, TerminateAllGivesUp, ReapOver, PoolNext
<1>8. ASSUME NEW s \in Session, Release(s) PROVE Ok
  BY <1>8, ReleaseDiscards DEF Release, RunnerInv, PoolNext
<1> QED
  BY <1>4, <1>5, <1>6, <1>7, <1>8 DEF Next

-----------------------------------------------------------------------------
(* Every action leaves the runner's state well typed.                      *)
LEMMA TypeStep ==
  ASSUME RunnerInv, PoolInv', Next
  PROVE  RunnerTypeOK'
<1> DEFINE JobsOk == /\ pc' \in [Job -> PC]
                     /\ wp' \in [Job -> Proc \cup {None}]
                     /\ ask' \in [Job -> (Key \X (Session \cup {None})) \cup {None}]
                     /\ stale' \in [Job -> BOOLEAN]
                     /\ deadline' \in [Job -> {"none", "armed", "fired", "lost"}]
           ProcsOk == /\ scope' \in [Job -> SUBSET live']
                      /\ active' \subseteq live'
                      /\ asked' \subseteq live'
                      /\ reap' \in [Reaper -> SUBSET live']
                      /\ loose' \subseteq live'
           Ok == JobsOk /\ ProcsOk
<1>0. /\ pc \in [Job -> PC]
      /\ wp \in [Job -> Proc \cup {None}]
      /\ ask \in [Job -> (Key \X (Session \cup {None})) \cup {None}]
      /\ stale \in [Job -> BOOLEAN]
      /\ deadline \in [Job -> {"none", "armed", "fired", "lost"}]
      /\ scope \in [Job -> SUBSET live]
      /\ active \subseteq live
      /\ asked \subseteq live
      /\ reap \in [Reaper -> SUBSET live]
      /\ loose \subseteq live
      /\ live \subseteq Proc
  BY DEF RunnerInv, RunnerTypeOK, PoolTypeOK
<1> USE <1>0 DEF PC, Retiring, Goto
<1>1. ASSUME NEW j \in Job, NEW k \in Key, NEW s \in Session \cup {None}, Attempt(j, k, s),
             deadline' \in [Job -> {"none", "armed", "fired", "lost"}]
      PROVE  Ok
  <2>1. live' = live
    BY <1>1 DEF Attempt, Checkout, AcquireDead, Pop, poolVars
  <2>2. JobsOk /\ UNCHANGED <<active, asked, reap, loose>>
    BY <1>1 DEF Attempt, Checkout
  <2>3. scope' \in [Job -> SUBSET live]
    BY <1>1 DEF Attempt, Checkout
  <2> QED
    BY <2>1, <2>2, <2>3
<1>2. ASSUME NEW j \in Job, NEW k \in Key \cup {None}, Spawned(j, k),
             pc' \in [Job -> PC]
      PROVE  Ok
  <2>1. PICK p \in Proc \ {wp[i] : i \in Job} :
           /\ live' = live \cup {p}
           /\ active' = active \cup {p}
           /\ wp' = [wp EXCEPT ![j] = p]
           /\ scope' = [scope EXCEPT ![j] = @ \cup {p}]
           /\ UNCHANGED <<ask, stale, deadline, asked, reap, loose>>
    BY <1>2 DEF Spawned, Adopt
  <2>2. JobsOk
    BY <1>2, <2>1
  <2>3. scope' \in [Job -> SUBSET live']
    BY <2>1
  <2>4. reap' \in [Reaper -> SUBSET live']
    BY <2>1
  <2> QED
    BY <2>1, <2>2, <2>3, <2>4
<1>3. ASSUME NEW r \in Reaper, NEW P, BeginReap(r, P)
      PROVE  reap' \in [Reaper -> SUBSET live] /\ asked' \subseteq live
  BY <1>3 DEF BeginReap
<1>4. ASSUME NEW j \in Job, NEW P, NEW a \in PC, NEW b \in PC, Retire(j, P, a, b)
      PROVE  /\ pc' \in [Job -> PC]
             /\ wp' \in [Job -> Proc \cup {None}]
             /\ reap' \in [Reaper -> SUBSET live] /\ asked' \subseteq live
  BY <1>4, <1>3 DEF Retire, Reaper
<1>5. ASSUME NEW j \in Job, NEW a \in PC, NEW b \in PC, Abandon(j, a, b)
      PROVE  /\ pc' \in [Job -> PC]
             /\ wp' \in [Job -> Proc \cup {None}]
             /\ ask' = ask
             /\ ProcsOk
  BY <1>5, <1>4 DEF Abandon, Forget
<1>6. ASSUME NEW j \in Job, MaybeStale(j) PROVE stale' \in [Job -> BOOLEAN]
  BY <1>6 DEF MaybeStale
<1>7. ASSUME NEW r \in Reaper, ReapOver(r)
      PROVE  reap' \in [Reaper -> SUBSET live] /\ UNCHANGED <<poolVars, asked, loose>>
  BY <1>7 DEF ReapOver
<1>8. ASSUME NEW j \in Job, JobOver(j)
      PROVE  /\ pc' \in [Job -> PC]
             /\ ask' \in [Job -> (Key \X (Session \cup {None})) \cup {None}]
             /\ stale' \in [Job -> BOOLEAN]
             /\ deadline' \in [Job -> {"none", "armed", "fired", "lost"}]
             /\ scope' \in [Job -> SUBSET live] /\ active' = active
  BY <1>8 DEF JobOver
<1>9. ASSUME NEW j \in Job, JobStep(j) PROVE Ok
  <2> USE <1>9
  <2>1. CASE SpawnWarm(j)
    <3>1. ask[j][1] \in Key
      BY <2>1, HeldFacts DEF SpawnWarm
    <3> QED
      BY <2>1, <3>1, <1>2 DEF SpawnWarm
  <2>2. CASE SpawnCold(j)
    BY <2>2, <1>2 DEF SpawnCold
  <2>3. CASE OpeningFails(j)
    BY <2>3, <1>5 DEF OpeningFails
  <2>4. CASE StreamBreaks(j)
    BY <2>4, <1>5 DEF StreamBreaks
  <2>5. CASE StderrRead(j)
    BY <2>5, <1>5, <1>6 DEF StderrRead
  <2>6. CASE TurnCompletes(j)
    <3>1. live' = live
      BY <2>6 DEF TurnCompletes, Park, ParkRefused, ParkFits, ParkEvicts, Settle
    <3>2. scope' \in [Job -> SUBSET live]
      BY <2>6 DEF TurnCompletes
    <3> QED
      BY <2>6, <1>4, <3>1, <3>2 DEF TurnCompletes
  <2>7. CASE ColdEnds(j)
    <3>1. stale' \in [Job -> BOOLEAN]
      BY <2>7, <1>6 DEF ColdEnds
    <3> QED
      BY <2>7, <3>1, <1>4 DEF ColdEnds, poolVars
  <2>8. CASE Retry(j)
    <3>1. ask[j][1] \in Key
      BY <2>8, HeldFacts DEF Retry
    <3> QED
      BY <2>8, <3>1, <1>1 DEF Retry
  <2>9. CASE Retired(j)
    BY <2>9, <1>7 DEF Retired, Resumes, Reaper, poolVars
  <2>10. CASE Finish(j)
    BY <2>10, <1>8 DEF Finish, poolVars
  <2>11. CASE StreamDropped(j)
    BY <2>11, <1>8 DEF StreamDropped, poolVars
  <2>12. CASE TimeoutDrops(j)
    BY <2>12 DEF TimeoutDrops, poolVars
  <2>13. CASE TimeoutUnwinds(j)
    <3>1. CASE pc[j] \in {"streaming", "exitWait"} /\ Abandon(j, "closing", "expired")
      BY <2>13, <3>1, <1>5 DEF TimeoutUnwinds
    <3>2. CASE /\ Retire(j, {wp[j]}, "coldEnd", "expired")
               /\ UNCHANGED <<poolVars, ask, scope, active, loose>>
      BY <2>13, <3>2, <1>4 DEF TimeoutUnwinds, poolVars
    <3> QED
      BY <2>13, <3>1, <3>2 DEF TimeoutUnwinds
  <2>14. CASE TimeoutSwallowed(j)
    BY <2>14, <1>5, <1>6 DEF TimeoutSwallowed
  <2>15. CASE HandleTimeout(j)
    BY <2>15, <1>3 DEF HandleTimeout, Discard, Pop, Reaper
  <2>16. CASE TimeoutHandled(j)
    BY <2>16, <1>7, <1>8 DEF TimeoutHandled, Reaper, poolVars
  <2>17. CASE SpawnWarmFails(j) \/ FirstEvent(j) \/ TurnErrs(j) \/ ExitSeen(j) \/ SpawnColdFails(j)
    BY <2>17 DEF SpawnWarmFails, FirstEvent, TurnErrs, ExitSeen, SpawnColdFails, poolVars, procVars
  <2> QED
    BY <2>1, <2>2, <2>3, <2>4, <2>5, <2>6, <2>7, <2>8, <2>9, <2>10, <2>11, <2>12, <2>13,
       <2>14, <2>15, <2>16, <2>17 DEF JobStep, Timeout
<1>10. ASSUME NEW j \in Job, NEW k \in Key, NEW s \in Session \cup {None}, Start(j, k, s)
       PROVE  Ok
  BY <1>10, <1>1 DEF Start
<1>11. ASSUME NEW p \in Proc, IdleTimeout(p) PROVE Ok
  BY <1>11, <1>3 DEF IdleTimeout, Expire, Pop, Reaper, jobVars
<1>12. ASSUME NEW p \in Proc, Finalised(p) PROVE Ok
  BY <1>12, <1>3 DEF Finalised, Reaper, jobVars, poolVars
<1>13. ASSUME NEW p \in Proc, BackgroundRetired(p) PROVE Ok
  BY <1>13, <1>7 DEF BackgroundRetired, Reaper, jobVars, poolVars
<1>14. ASSUME NEW p \in Proc, ProcessExits(p) PROVE Ok
  BY <1>14 DEF ProcessExits, Exit, jobVars
<1>15. ASSUME TerminateAll \/ TerminateAllGivesUp PROVE Ok
  BY <1>15, <1>3, <1>7 DEF TerminateAll, TerminateAllGivesUp, Reset, Pop, Reaper, jobVars, poolVars
<1>16. ASSUME NEW s \in Session, Release(s) PROVE Ok
  BY <1>16 DEF Release, Pop, jobVars
<1>17. Ok
  BY <1>9, <1>10, <1>11, <1>12, <1>13, <1>14, <1>15, <1>16 DEF Next
<1> QED
  BY <1>17 DEF RunnerTypeOK, PoolInv

-----------------------------------------------------------------------------
(* When one job moves and what the others hold is left alone, holding well *)
(* is a matter of that job.                                                *)
Undisturbed(j) ==
  \A i \in Job \ {j} :
    /\ pc'[i] = pc[i] /\ wp'[i] = wp[i] /\ ask'[i] = ask[i]
    /\ wp[i] # None => /\ wp[i] \notin Idle' /\ wp'[j] # wp[i]
                       /\ key'[wp[i]] = key[wp[i]] /\ session'[wp[i]] = session[wp[i]]

LEMMA OneJobMoves ==
  ASSUME RunnerInv, NEW j \in Job, Undisturbed(j), HoldsWell(j)'
  PROVE  HoldInv'
<1>0. None \notin Idle'
  BY DEF Idle, Values
<1>1. ASSUME NEW i \in Job \ {j} PROVE HoldsWell(i)'
  BY <1>0 DEF Undisturbed, RunnerInv, HoldInv, HoldsWell, Reading
<1>2. ASSUME NEW i \in Job, NEW k \in Job, i # k, wp'[i] = wp'[k] PROVE wp'[i] = None
  BY <1>2 DEF Undisturbed, RunnerInv, HoldInv
<1> QED
  BY <1>1, <1>2 DEF HoldInv

(* A pool that only shrinks disturbs nobody: a job may let go of its       *)
(* process, ...                                                            *)
LEMMA LettingGo ==
  ASSUME RunnerInv, Shrinks, NEW j \in Job, NEW label \in PC \ Reading,
         pc[j] # "off" \/ label = "off",
         Goto(j, label),
         wp' = [wp EXCEPT ![j] = None] \/ (pc[j] \notin Reading /\ wp' = wp),
         \/ ask' = ask
         \/ label = "off" /\ ask' = [ask EXCEPT ![j] = None]
  PROVE  HoldInv'
<1>1. None \notin Idle' /\ (pc[j] \notin Reading => wp[j] = None)
  BY HeldFacts DEF Idle, Values
<1>2. pc'[j] = label /\ wp'[j] = None /\ (label # "off" => ask'[j] = ask[j])
  BY <1>1 DEF Goto, RunnerInv, RunnerTypeOK
<1>3. HoldsWell(j)'
  BY <1>1, <1>2 DEF HoldsWell, Reading, Warm, RunnerInv, HoldInv
<1>4. Undisturbed(j)
  BY <1>2 DEF Undisturbed, Goto, Shrinks, RunnerInv, HoldInv, HoldsWell, RunnerTypeOK
<1> QED
  BY <1>3, <1>4, OneJobMoves

(* ... or go on reading it, ...                                            *)
LEMMA GoingOn ==
  ASSUME RunnerInv, NEW j \in Job, pc[j] \in Warm, NEW label \in Warm, Goto(j, label),
         UNCHANGED <<poolVars, wp, ask>>
  PROVE  HoldInv'
<1>1. Idle' = Idle /\ UNCHANGED <<key, session>>
  BY DEF poolVars, Idle, Values
<1>2. pc'[j] = label /\ label \in Reading /\ pc[j] \in Reading /\ pc[j] # "off" /\ label # "cold"
  BY DEF Goto, RunnerInv, RunnerTypeOK, Reading, Warm
<1>3. HoldsWell(j)'
  BY <1>1, <1>2 DEF HoldsWell, RunnerInv, HoldInv
<1>4. Undisturbed(j)
  BY <1>1 DEF Undisturbed, Goto, RunnerInv, HoldInv, HoldsWell, RunnerTypeOK
<1> QED
  BY <1>3, <1>4, OneJobMoves

(* ... and what happens outside the jobs only takes processes out.         *)
LEMMA Outside ==
  ASSUME RunnerInv, Shrinks, UNCHANGED jobVars
  PROVE  HoldInv'
<1>1. UNCHANGED <<pc, wp, ask>>
  BY DEF jobVars
<1> QED
  BY <1>1 DEF Shrinks, RunnerInv, HoldInv, HoldsWell

(* A spawn hands the job a process nobody else has.                        *)
LEMMA SpawnHolds ==
  ASSUME RunnerInv, NEW j \in Job, NEW k \in Key \cup {None}, Spawned(j, k),
         pc[j] # "off", NEW label \in Reading, Goto(j, label),
         IF label = "cold" THEN k = None ELSE k = ask[j][1]
  PROVE  HoldInv'
<1>1. PICK p \in Proc \ {wp[i] : i \in Job} :
         /\ Adopt(p, k)
         /\ wp' = [wp EXCEPT ![j] = p]
         /\ ask' = ask
  BY DEF Spawned
<1>2. /\ Idle' = Idle /\ p \notin Idle /\ p # None
      /\ key' = [key EXCEPT ![p] = k] /\ session' = [session EXCEPT ![p] = None]
  BY <1>1, PoolAssumption DEF Adopt, Idle, Values
<1>3. key'[p] = k /\ session'[p] = None
  BY <1>2 DEF RunnerInv, PoolInv, PoolTypeOK
<1>4. pc'[j] = label /\ wp'[j] = p /\ ask'[j] = ask[j] /\ ask[j] # None
  BY <1>1 DEF Goto, RunnerInv, HoldInv, HoldsWell, RunnerTypeOK
<1>5. HoldsWell(j)'
  BY <1>2, <1>3, <1>4 DEF HoldsWell, Reading, Warm
<1>6. Undisturbed(j)
  <2> SUFFICES ASSUME NEW i \in Job \ {j}
               PROVE  /\ pc'[i] = pc[i] /\ wp'[i] = wp[i] /\ ask'[i] = ask[i]
                      /\ wp[i] # None => /\ wp[i] \notin Idle' /\ wp'[j] # wp[i]
                                         /\ key'[wp[i]] = key[wp[i]]
                                         /\ session'[wp[i]] = session[wp[i]]
    BY DEF Undisturbed
  <2>1. wp[i] # p /\ wp[i] \notin Idle /\ wp[i] \in Proc \cup {None}
    BY <1>1 DEF RunnerInv, HoldInv, HoldsWell, RunnerTypeOK
  <2> QED
    BY <1>1, <1>2, <1>4, <2>1 DEF Goto, RunnerInv, RunnerTypeOK, PoolInv, PoolTypeOK
<1> QED
  BY <1>5, <1>6, OneJobMoves

(* A turn starts without a process, or with the one parked for it.         *)
LEMMA AttemptHolds ==
  ASSUME RunnerInv, NEW j \in Job, NEW k \in Key, NEW s \in Session \cup {None},
         pc[j] \in {"off", "over"}, Attempt(j, k, s)
  PROVE  HoldInv'
<1>0. wp[j] = None /\ None \notin Idle' /\ None \notin Idle
  BY HeldFacts DEF Reading, Warm, Idle, Values
<1>1. ask' = [ask EXCEPT ![j] = <<k, s>>] /\ ask'[j] = <<k, s>> /\ <<k, s>> # None
  <2>1. ask' = [ask EXCEPT ![j] = <<k, s>>]
    BY DEF Attempt
  <2>2. ask'[j] = <<k, s>>
    BY <2>1 DEF RunnerInv, RunnerTypeOK
  <2>3. <<k, s>> # None
    BY RunnerAssumption
  <2> QED
    BY <2>1, <2>2, <2>3
<1>2. CASE ~(Parks(k, s) /\ Checkout(k, s))
  <2>1. wp' = wp /\ pc'[j] \in {"spawnWarm", "spawnCold"} /\ UNCHANGED <<key, session>>
    BY <1>2 DEF Attempt, AcquireDead, Pop, poolVars, Goto, RunnerInv, RunnerTypeOK
  <2>2. Idle' \subseteq Idle
    <3>1. {<<k, s>>} \in SUBSET Slot \/ ~Parks(k, s)
      BY DEF Parks, Slot
    <3> QED
      BY <1>2, <3>1, PopShrinks DEF Attempt, AcquireDead, poolVars, Idle, Values
  <2>3. HoldsWell(j)'
    BY <1>0, <1>1, <2>1 DEF HoldsWell, Reading, Warm
  <2>4. Undisturbed(j)
    <3>1. \A i \in Job \ {j} : pc'[i] = pc[i] /\ ask'[i] = ask[i]
      BY <1>1 DEF Attempt, Goto, RunnerInv, RunnerTypeOK
    <3> QED
      BY <1>0, <2>1, <2>2, <3>1 DEF Undisturbed, RunnerInv, HoldInv, HoldsWell
  <2> QED
    BY <2>3, <2>4, OneJobMoves
<1>3. CASE Parks(k, s) /\ Checkout(k, s)
  <2> DEFINE x == <<k, s>>
             p == idle[x]
  <2>1. x \in Slot /\ p \in live /\ p \in Proc /\ p # None /\ p \in Idle /\ slot[p] = x
    <3>1. p \in live /\ live \subseteq Proc
      BY <1>3 DEF Checkout, RunnerInv, PoolInv, PoolTypeOK
    <3>2. x \in Slot
      BY <1>3 DEF Parks, Slot
    <3>3. p # None
      BY <3>1, PoolAssumption
    <3> QED
      BY <3>1, <3>2, <3>3 DEF Idle, Values, RunnerInv, PoolInv, SlotsAgree
  <2>2. Pop({x}) /\ UNCHANGED <<key, session>> /\ idle' = Without(idle, {x})
    BY <1>3 DEF Checkout, Pop
  <2>3. Idle' \subseteq Idle /\ p \notin Idle'
    <3>1. \A y \in Slot : idle'[y] # p
      BY <2>1, <2>2 DEF Without, RunnerInv, PoolInv, SlotsAgree
    <3> QED
      BY <3>1, <2>1, <2>2, PopShrinks DEF Idle, Values
  <2>4. key[p] = k /\ session[p] = s
    BY <2>1 DEF RunnerInv, PoolInv, SlotTellsTheTruth
  <2>5. /\ wp' = [wp EXCEPT ![j] = p] /\ Goto(j, "opening")
    BY <1>3, <2>1 DEF Attempt, AcquireDead
  <2>6. wp'[j] = p /\ pc'[j] = "opening"
    BY <2>5 DEF Goto, RunnerInv, RunnerTypeOK
  <2>7. HoldsWell(j)'
    BY <1>1, <2>1, <2>2, <2>3, <2>4, <2>6 DEF HoldsWell, Reading, Warm
  <2>8. Undisturbed(j)
    <3>1. \A i \in Job \ {j} : pc'[i] = pc[i] /\ ask'[i] = ask[i] /\ wp'[i] = wp[i]
      BY <1>1, <2>5 DEF Goto, RunnerInv, RunnerTypeOK
    <3>2. \A i \in Job : wp[i] # p
      BY <2>1 DEF RunnerInv, HoldInv, HoldsWell
    <3> QED
      BY <2>2, <2>3, <2>6, <3>1, <3>2 DEF Undisturbed, RunnerInv, HoldInv, HoldsWell
  <2> QED
    BY <2>7, <2>8, OneJobMoves
<1> QED
  BY <1>2, <1>3

(* A turn that completed parks its process, or leaves it out, and lets go. *)
LEMMA ParkHolds ==
  ASSUME RunnerInv, NEW j \in Job, TurnCompletes(j)
  PROVE  HoldInv'
<1> DEFINE p == wp[j]
<1>0. pc[j] = "streaming" /\ pc[j] # "off" /\ p \in Proc \ Idle /\ None \notin Idle'
  BY HeldFacts DEF TurnCompletes, Reading, Warm, Idle, Values
<1>1. PICK s \in Session \cup {session[p]} : Park(p, s)
  BY DEF TurnCompletes
<1>2. /\ session' = [session EXCEPT ![p] = s] /\ key' = key
      /\ Idle' \subseteq Idle \cup {p}
  <2>1. session' = [session EXCEPT ![p] = s] /\ key' = key
    BY <1>1 DEF Park, ParkRefused, ParkFits, ParkEvicts, Settle
  <2>2. \A x \in Slot : Parked(p, s)[x] \in {idle[x], p, None}
    BY DEF Parked, Without
  <2>3. \/ idle' = idle
        \/ idle' = Parked(p, s)
        \/ \E q \in Idle : idle' = Without(Parked(p, s), {slot[q]})
    BY <1>1 DEF Park, ParkRefused, ParkFits, ParkEvicts, Settle
  <2>4. \A x \in Slot : idle'[x] \in {idle[x], p, None}
    BY <2>2, <2>3 DEF Without
  <2>5. Idle' \subseteq Idle \cup {p}
    BY <2>4 DEF Idle, Values
  <2> QED
    BY <2>1, <2>5
<1>3. /\ ask' = ask /\ wp' = [wp EXCEPT ![j] = None]
      /\ Goto(j, "over") \/ Goto(j, "parking")
  BY DEF TurnCompletes, Retire
<1>4. wp'[j] = None /\ pc'[j] \in {"over", "parking"} /\ ask'[j] # None
  BY <1>0, <1>3 DEF Goto, RunnerInv, RunnerTypeOK, HoldInv, HoldsWell
<1>5. HoldsWell(j)'
  BY <1>0, <1>4 DEF HoldsWell, Reading, Warm
<1>6. Undisturbed(j)
  <2> SUFFICES ASSUME NEW i \in Job \ {j}
               PROVE  /\ pc'[i] = pc[i] /\ wp'[i] = wp[i] /\ ask'[i] = ask[i]
                      /\ wp[i] # None => /\ wp[i] \notin Idle' /\ wp'[j] # wp[i]
                                         /\ key'[wp[i]] = key[wp[i]]
                                         /\ session'[wp[i]] = session[wp[i]]
    BY DEF Undisturbed
  <2>1. /\ pc'[i] = pc[i] /\ wp'[i] = wp[i] /\ ask'[i] = ask[i]
    BY <1>3 DEF Goto, RunnerInv, RunnerTypeOK
  <2>2. ASSUME wp[i] # None PROVE wp[i] # p /\ wp[i] \notin Idle
    BY <2>2 DEF RunnerInv, HoldInv, HoldsWell
  <2>3. session \in [Proc -> Session \cup {None}] /\ wp[i] \in Proc \cup {None}
    BY DEF RunnerInv, RunnerTypeOK, PoolInv, PoolTypeOK
  <2> QED
    BY <1>2, <1>4, <2>1, <2>2, <2>3
<1> QED
  BY <1>5, <1>6, OneJobMoves

(* Every action leaves what the jobs hold in order.                        *)
LEMMA HoldStep ==
  ASSUME RunnerInv, Next
  PROVE  HoldInv'
<1>1. ASSUME UNCHANGED <<idle, key, session>> PROVE Shrinks
  BY <1>1 DEF Shrinks, Idle, Values
<1>2. ASSUME NEW S \in SUBSET Slot, Pop(S) PROVE Shrinks
  BY <1>2, PopShrinks DEF Shrinks, Pop
<1>3. ASSUME NEW p, Forget(p) PROVE Shrinks
  BY <1>3 DEF Shrinks, Forget, Without, Idle, Values
<1>4. ASSUME UNCHANGED poolVars PROVE Shrinks
  BY <1>1, <1>4 DEF poolVars
<1>5. ASSUME NEW j \in Job, NEW a \in PC \ Reading, NEW b \in PC \ Reading, a # "off", b # "off",
             pc[j] # "off", Abandon(j, a, b)
      PROVE  HoldInv'
  BY <1>3, <1>5, LettingGo DEF Abandon, Retire
<1>6. ASSUME NEW j \in Job, NEW a \in PC \ Reading, NEW b \in PC \ Reading, a # "off", b # "off",
             pc[j] # "off", Retire(j, {wp[j]}, a, b), UNCHANGED poolVars, ask' = ask
      PROVE  HoldInv'
  BY <1>4, <1>6, LettingGo DEF Retire
<1>7. ASSUME NEW j \in Job, pc[j] \notin Reading, NEW label \in PC \ Reading,
             pc[j] # "off", Goto(j, label), Shrinks, wp' = wp, ask' = ask
      PROVE  HoldInv'
  BY <1>7, LettingGo
<1>8. ASSUME NEW j \in Job, JobOver(j), Shrinks,
             wp' = [wp EXCEPT ![j] = None] \/ (pc[j] \notin Reading /\ wp' = wp)
      PROVE  HoldInv'
  BY <1>8, LettingGo DEF JobOver, Reading, Warm, PC
<1>9. ASSUME NEW j \in Job, JobStep(j) PROVE HoldInv'
  <2> USE <1>9 DEF PC, Reading, Warm, Retiring
  <2>1. CASE SpawnWarm(j)
    <3>1. ask[j][1] \in Key
      BY <2>1, HeldFacts DEF SpawnWarm
    <3> QED
      BY <2>1, <3>1, SpawnHolds DEF SpawnWarm
  <2>2. CASE SpawnCold(j)
    BY <2>2, SpawnHolds DEF SpawnCold
  <2>3. CASE OpeningFails(j)
    BY <2>3, <1>5 DEF OpeningFails
  <2>4. CASE StreamBreaks(j)
    BY <2>4, <1>5 DEF StreamBreaks
  <2>5. CASE StderrRead(j)
    BY <2>5, <1>5 DEF StderrRead
  <2>6. CASE TurnCompletes(j)
    BY <2>6, ParkHolds
  <2>7. CASE ColdEnds(j)
    BY <2>7, <1>6 DEF ColdEnds
  <2>8. CASE Retry(j)
    <3>1. ask[j][1] \in Key
      BY <2>8, HeldFacts DEF Retry
    <3> QED
      BY <2>8, <3>1, AttemptHolds DEF Retry
  <2>9. CASE Retired(j)
    <3>1. Resumes(j) \in {"expired", "spawnCold", "over"}
      BY Zenon DEF Resumes
    <3> QED
      BY <2>9, <3>1, <1>4, <1>7 DEF Retired, ReapOver
  <2>10. CASE Finish(j)
    BY <2>10, <1>4, <1>8 DEF Finish
  <2>11. CASE StreamDropped(j)
    BY <2>11, <1>4, <1>8 DEF StreamDropped
  <2>12. CASE TimeoutDrops(j)
    BY <2>12, <1>4, LettingGo DEF TimeoutDrops
  <2>13. CASE TimeoutUnwinds(j)
    BY <2>13, <1>5, <1>6 DEF TimeoutUnwinds
  <2>14. CASE TimeoutSwallowed(j)
    BY <2>14, <1>5 DEF TimeoutSwallowed
  <2>15. CASE HandleTimeout(j)
    <3>1. Shrinks
      BY <2>15, <1>2 DEF HandleTimeout, Discard
    <3> QED
      BY <2>15, <3>1, <1>7 DEF HandleTimeout
  <2>16. CASE TimeoutHandled(j)
    BY <2>16, <1>4, <1>8 DEF TimeoutHandled, ReapOver
  <2>17. CASE FirstEvent(j) \/ TurnErrs(j) \/ ExitSeen(j)
    BY <2>17, GoingOn DEF FirstEvent, TurnErrs, ExitSeen
  <2>18. CASE SpawnWarmFails(j) \/ SpawnColdFails(j)
    BY <2>18, <1>4, <1>7 DEF SpawnWarmFails, SpawnColdFails
  <2> QED
    BY <2>1, <2>2, <2>3, <2>4, <2>5, <2>6, <2>7, <2>8, <2>9, <2>10, <2>11, <2>12, <2>13,
       <2>14, <2>15, <2>16, <2>17, <2>18 DEF JobStep, Timeout
<1>10. ASSUME NEW j \in Job, NEW k \in Key, NEW s \in Session \cup {None}, Start(j, k, s)
       PROVE  HoldInv'
  BY <1>10, AttemptHolds DEF Start
<1>11. ASSUME NEW p \in Proc, IdleTimeout(p) PROVE HoldInv'
  <2>1. OwnSlot(p) \in SUBSET Slot
    BY DEF OwnSlot
  <2> QED
    BY <1>11, <2>1, <1>2, Outside DEF IdleTimeout, Expire
<1>12. ASSUME NEW p \in Proc, Finalised(p) \/ BackgroundRetired(p) PROVE HoldInv'
  BY <1>12, <1>4, Outside DEF Finalised, BackgroundRetired, ReapOver
<1>13. ASSUME NEW p \in Proc, ProcessExits(p) PROVE HoldInv'
  BY <1>13, <1>1, Outside DEF ProcessExits, Exit
<1>14. ASSUME TerminateAll \/ TerminateAllGivesUp PROVE HoldInv'
  BY <1>14, <1>2, <1>4, Outside DEF TerminateAll, TerminateAllGivesUp, Reset, ReapOver
<1>15. ASSUME NEW s \in Session, Release(s) PROVE HoldInv'
  BY <1>15, <1>2, Outside DEF Release, SameConversation
<1> QED
  BY <1>9, <1>10, <1>11, <1>12, <1>13, <1>14, <1>15 DEF Next

-----------------------------------------------------------------------------
LEMMA RunnerInitInv ==
  Init => RunnerInv
<1> SUFFICES ASSUME Init PROVE RunnerInv
  OBVIOUS
<1>1. PoolInv /\ Idle = {}
  BY PoolInitInv DEF Init, PoolInit, Idle, Values
<1>2. RunnerTypeOK
  BY <1>1 DEF Init, PoolInit, RunnerTypeOK, PoolInv, PC
<1>3. HoldInv
  BY <1>1 DEF Init, HoldInv, HoldsWell, Reading, Warm
<1> QED
  BY <1>1, <1>2, <1>3 DEF RunnerInv

LEMMA RunnerNextInv ==
  RunnerInv /\ [Next]_vars => RunnerInv' /\ [PoolNext]_poolVars
<1> SUFFICES ASSUME RunnerInv, [Next]_vars PROVE RunnerInv' /\ [PoolNext]_poolVars
  OBVIOUS
<1>1. CASE Next
  <2>1. [PoolNext]_poolVars
    BY <1>1, StepsUsePool
  <2>2. PoolInv'
    BY <2>1, PoolNextInv DEF RunnerInv
  <2> QED
    BY <1>1, <2>1, <2>2, TypeStep, HoldStep DEF RunnerInv
<1>2. CASE UNCHANGED vars
  <2>1. UNCHANGED poolVars /\ UNCHANGED jobVars /\ UNCHANGED procVars
    BY <1>2 DEF vars
  <2>2. PoolInv'
    BY <2>1, PoolNextInv DEF RunnerInv
  <2>3. Shrinks
    BY <2>1 DEF Shrinks, poolVars, Idle, Values
  <2>4. HoldInv'
    BY <2>1, <2>3, Outside
  <2>5. RunnerTypeOK'
    BY <2>1, <2>2 DEF RunnerInv, RunnerTypeOK, PoolInv, poolVars, jobVars, procVars
  <2> QED
    BY <2>1, <2>2, <2>4, <2>5 DEF RunnerInv
<1> QED
  BY <1>1, <1>2

(* The inductive invariant holds whatever jobs, timers and commands do.    *)
THEOREM RunnerInvariance == Spec => []RunnerInv
<1>1. RunnerInv /\ [Next]_vars => RunnerInv'
  BY RunnerNextInv
<1> QED
  BY RunnerInitInv, <1>1, PTL DEF Spec

(* The runner keeps to the pool's operations and their preconditions: no   *)
(* turn parks a process that is parked already, a spawn never reuses one.  *)
(* So every theorem about PoolSpec is one about the runner.                *)
THEOREM RunnerUsesPool == Spec => PoolSpec
<1>1. Init => PoolInit
  BY DEF Init
<1>2. RunnerInv /\ [Next]_vars => [PoolNext]_poolVars
  BY RunnerNextInv
<1> QED
  BY <1>1, <1>2, RunnerInvariance, PTL DEF Spec, PoolSpec

(* The runner's state always has the shape runner.py gives it: above all,  *)
(* whatever it tracks, scopes or waits for is a process that is alive.     *)
THEOREM RunnerTypeInvariance == Spec => []RunnerTypeOK
<1>1. RunnerInv => RunnerTypeOK
  BY DEF RunnerInv
<1> QED
  BY RunnerInvariance, <1>1, PTL

(* A turn reads a process spawned for its key that holds its conversation. *)
THEOREM TurnReadsItsOwn == Spec => []RightContext
<1>1. RunnerInv => RightContext
  BY DEF RunnerInv, HoldInv, HoldsWell, RightContext, Held, Reading
<1> QED
  BY RunnerInvariance, <1>1, PTL

(* `종료` reaches all that are alive and can be killed: no path of a turn  *)
(* drops such a process from the table before it is gone.                  *)
THEOREM NothingEscapes == Spec => []TrackedWhileAlive
<1>1. Init => TrackedWhileAlive
  BY DEF Init, PoolInit, TrackedWhileAlive
<1>2. TrackedWhileAlive /\ [Next]_vars => TrackedWhileAlive'
  <2> SUFFICES ASSUME live \ Unkillable \subseteq active, [Next]_vars
               PROVE  live' \ Unkillable \subseteq active'
    BY DEF TrackedWhileAlive
  <2> DEFINE Ok == live' \ Unkillable \subseteq active'
  <2>1. ASSUME live' = live, active' = active PROVE Ok
    BY <2>1
  <2>2. ASSUME NEW S, Pop(S) PROVE live' = live
    BY <2>2 DEF Pop
  <2>3. ASSUME NEW j, NEW k, NEW s, Attempt(j, k, s) PROVE Ok
    BY <2>1, <2>2, <2>3 DEF Attempt, Checkout, AcquireDead, poolVars
  <2>4. ASSUME NEW j, NEW k, Spawned(j, k) PROVE Ok
    BY <2>4 DEF Spawned, Adopt
  <2>5. ASSUME NEW j, NEW a, NEW b, Abandon(j, a, b) PROVE Ok
    BY <2>1, <2>5 DEF Abandon, Forget
  <2>6. ASSUME NEW r, ReapOver(r), active' = active \ reap[r] \/ active' = active PROVE Ok
    BY <2>6 DEF ReapOver, poolVars
  <2>7. ASSUME NEW j \in Job, JobStep(j) PROVE Ok
    <3>1. CASE TurnCompletes(j)
      BY <3>1, <2>1 DEF TurnCompletes, Park, ParkRefused, ParkFits, ParkEvicts, Settle
    <3>2. CASE SpawnWarm(j) \/ SpawnCold(j) \/ Retry(j)
      BY <3>2, <2>3, <2>4 DEF SpawnWarm, SpawnCold, Retry
    <3>3. CASE OpeningFails(j) \/ StreamBreaks(j) \/ StderrRead(j)
      BY <3>3, <2>5 DEF OpeningFails, StreamBreaks, StderrRead
    <3>4. CASE Timeout(j)
      BY <3>4, <2>1, <2>5 DEF Timeout, TimeoutDrops, TimeoutUnwinds, TimeoutSwallowed, poolVars
    <3>5. CASE Retired(j) \/ TimeoutHandled(j)
      BY <3>5, <2>6 DEF Retired, TimeoutHandled, JobOver
    <3>6. CASE HandleTimeout(j)
      BY <3>6, <2>1, <2>2 DEF HandleTimeout, Discard
    <3>7. CASE ColdEnds(j) \/ Finish(j) \/ StreamDropped(j)
      BY <3>7, <2>1 DEF ColdEnds, Finish, StreamDropped, JobOver, poolVars
    <3>8. CASE SpawnWarmFails(j) \/ FirstEvent(j) \/ TurnErrs(j) \/ ExitSeen(j) \/ SpawnColdFails(j)
      BY <3>8, <2>1 DEF SpawnWarmFails, FirstEvent, TurnErrs, ExitSeen, SpawnColdFails,
                        poolVars, procVars
    <3> QED
      BY <2>7, <3>1, <3>2, <3>3, <3>4, <3>5, <3>6, <3>7, <3>8 DEF JobStep
  <2>8. ASSUME NEW j, NEW k, NEW s, Start(j, k, s) PROVE Ok
    BY <2>3, <2>8 DEF Start
  <2>9. ASSUME NEW p, IdleTimeout(p) \/ Finalised(p) \/ BackgroundRetired(p) \/ ProcessExits(p)
        PROVE  Ok
    BY <2>1, <2>2, <2>6, <2>9 DEF IdleTimeout, Expire, Finalised, BackgroundRetired,
                                  ProcessExits, Exit, poolVars
  <2>10. ASSUME TerminateAll \/ TerminateAllGivesUp PROVE Ok
    BY <2>1, <2>2, <2>6, <2>10 DEF TerminateAll, TerminateAllGivesUp, Reset
  <2>11. ASSUME NEW s, Release(s) PROVE Ok
    BY <2>1, <2>2, <2>11 DEF Release
  <2>12. CASE UNCHANGED vars
    BY <2>1, <2>12 DEF vars, poolVars, procVars
  <2> QED
    BY <2>7, <2>8, <2>9, <2>10, <2>11, <2>12 DEF Next
<1> QED
  BY <1>1, <1>2, PTL DEF Spec

-----------------------------------------------------------------------------
(* What becomes of the processes nobody owns any more: parked or in use is *)
(* what the pool or a turn owns.                                           *)
Owned == Idle \cup InUse
Retires(r) == r \in Proc \/ (r \in Job /\ pc[r] \in Retiring)
Expired(p) == \E j \in Job : pc[j] = "expired" /\ p \in scope[j]

(* What is disposed of is not owned, and all that is owned and alive is in *)
(* the table of the shutdown command.                                      *)
DisposalInv ==
  /\ \A r \in Reaper : Retires(r) => reap[r] \cap Owned = {}
  /\ loose \cap Owned = {}
  /\ live \cap Owned \subseteq active

(* The scope of a job, along its turn.                                     *)
ScopeWell(j) ==
  /\ Held(j) \cap live \subseteq scope[j]
  /\ pc[j] \in {"off", "spawnWarm", "spawnCold", "failing", "closing"} => scope[j] = {}
  /\ pc[j] \in Reading => scope[j] \subseteq {wp[j]}
  /\ pc[j] = "coldEnd" => scope[j] \subseteq reap[j]
  /\ \A p, q \in scope[j] : p = q
  /\ pc[j] \in Warm \cup {"spawnWarm", "parking"} => ~stale[j]
  /\ pc[j] = "over" /\ stale[j] => scope[j] = {}
  /\ pc[j] \notin Retiring \cup {"reaping"} => reap[j] = {}

CleanInv ==
  /\ RunnerInv
  /\ \A j \in Job : ScopeWell(j)
  /\ DisposalInv
  /\ NoneLeftBehind

LEMMA InUseFacts ==
  /\ \A p : p \in InUse <=> p # None /\ \E j \in Job : wp[j] = p
  /\ \A p : p \in InUse' <=> p # None /\ \E j \in Job : wp'[j] = p
BY DEF InUse, Held

(* Leaving the pool takes out exactly what was named.                      *)
LEMMA PopTakes ==
  ASSUME PoolInv, NEW S \in SUBSET Slot, Pop(S)
  PROVE  Idle' = Idle \ {idle[x] : x \in S}
<1>1. \A x, y \in Slot : idle[x] = idle[y] /\ idle[x] # None => x = y
  BY DEF PoolInv, PoolTypeOK, SlotsAgree
<1>2. \A x \in Slot : idle'[x] = IF x \in S THEN None ELSE idle[x]
  BY DEF Pop, Without
<1> QED
  BY <1>1, <1>2 DEF Idle, Values

LEMMA ForgetTakes ==
  ASSUME PoolInv, NEW p \in Proc, Forget(p)
  PROVE  Idle' = Idle \ {p}
<1>1. \A x \in Slot : idle[x] = p <=> slot[p] = x
  BY DEF PoolInv, SlotsAgree
<1>2. \A x \in Slot : idle'[x] = IF idle[x] = p THEN None ELSE idle[x]
  BY <1>1 DEF Forget, Without, OwnSlot
<1> QED
  BY <1>2 DEF Idle, Values

(* A step that gives up the processes P, and sees to it that they go.      *)
LEMMA GivingUp ==
  ASSUME CleanInv, NEW P, P \cap Owned' = {}, Owned' \cap live \subseteq Owned,
         Owned \cap live' \subseteq Owned' \cup P,
         live' \subseteq live \cup (Owned' \cap active'),
         active \cap Owned' \cap live' \subseteq active',
         \A r \in Reaper : Retires(r)' =>
           \/ Retires(r) /\ reap'[r] \subseteq reap[r]
           \/ reap'[r] \subseteq P,
         loose' \subseteq loose \cup P,
         (asked \cup loose) \cap live' \subseteq asked' \cup loose',
         \A p \in live' : p \in P \/ Expired(p) => p \in asked' \cup loose' \/ Expired(p)'
  PROVE  DisposalInv' /\ NoneLeftBehind'
<1>1. loose \subseteq live /\ \A r \in Reaper : reap[r] \subseteq live
  BY DEF CleanInv, RunnerInv, RunnerTypeOK
<1>2. \A r \in Reaper : Retires(r)' => reap'[r] \cap Owned' = {}
  BY <1>1 DEF CleanInv, DisposalInv
<1>3. loose' \cap Owned' = {}
  BY <1>1 DEF CleanInv, DisposalInv
<1>4. live' \cap Owned' \subseteq active'
  BY DEF CleanInv, DisposalInv
<1>5. \A p \in live : p \in Owned \cup asked \cup loose \/ Expired(p)
  BY DEF CleanInv, NoneLeftBehind, Expired, Owned
<1>6. \A p \in live' : p \in Owned' \cup asked' \cup loose' \/ Expired(p)'
  BY <1>5
<1>7. NoneLeftBehind'
  BY <1>6 DEF NoneLeftBehind, Expired, Owned
<1> QED
  BY <1>2, <1>3, <1>4, <1>7 DEF DisposalInv

LEMMA GivingUpNothing ==
  ASSUME CleanInv, Owned' \cap live \subseteq Owned, Owned \cap live' \subseteq Owned',
         live' \subseteq live \cup (Owned' \cap active'),
         active \cap Owned' \cap live' \subseteq active',
         \A r \in Reaper : Retires(r)' =>
           (Retires(r) /\ reap'[r] \subseteq reap[r]) \/ reap'[r] = {},
         loose' \subseteq loose,
         (asked \cup loose) \cap live' \subseteq asked' \cup loose',
         \A p \in live' : Expired(p) => p \in asked' \cup loose' \/ Expired(p)'
  PROVE  DisposalInv' /\ NoneLeftBehind'
<1> DEFINE P == {}
<1>1. P \cap Owned' = {} /\ Owned \cap live' \subseteq Owned' \cup P /\ loose' \subseteq loose \cup P
  OBVIOUS
<1>2. \A r \in Reaper : Retires(r)' =>
        (Retires(r) /\ reap'[r] \subseteq reap[r]) \/ reap'[r] \subseteq P
  OBVIOUS
<1>3. \A p \in live' : p \in P \/ Expired(p) => p \in asked' \cup loose' \/ Expired(p)'
  OBVIOUS
<1> HIDE DEF P
<1> QED
  BY <1>1, <1>2, <1>3, GivingUp

(* Only job j's part of the state can upset its scope.                     *)
Steady(j) ==
  \A i \in Job \ {j} :
    /\ pc'[i] = pc[i] /\ wp'[i] = wp[i] /\ scope'[i] = scope[i]
    /\ stale'[i] = stale[i] /\ reap'[i] = reap[i]
    /\ wp[i] \in live' => wp[i] \in live

LEMMA OneScopeMoves ==
  ASSUME CleanInv, NEW j \in Job, Steady(j), ScopeWell(j)'
  PROVE  \A i \in Job : ScopeWell(i)'
<1> SUFFICES ASSUME NEW i \in Job \ {j} PROVE ScopeWell(i)'
  OBVIOUS
<1>1. /\ pc'[i] = pc[i] /\ wp'[i] = wp[i] /\ scope'[i] = scope[i]
      /\ stale'[i] = stale[i] /\ reap'[i] = reap[i]
      /\ wp[i] \in live' => wp[i] \in live
  BY DEF Steady
<1>2. ScopeWell(i)
  BY DEF CleanInv
<1> QED
  BY <1>1, <1>2 DEF ScopeWell, Held

CleanNext == (\A i \in Job : ScopeWell(i)') /\ DisposalInv' /\ NoneLeftBehind'

(* Job j lets go of its process and sees to its end.                       *)
LEMMA LetGoClean ==
  ASSUME CleanInv, NEW j \in Job, pc[j] \in Reading,
         NEW a \in {"failing", "closing", "coldEnd"}, NEW b \in {"spawnCold", "over", "expired"},
         Retire(j, {wp[j]}, a, b), Idle' = Idle, UNCHANGED <<live, active, loose>>,
         \A i \in Job \ {j} : stale'[i] = stale[i],
         \/ a # "coldEnd" /\ scope' = [scope EXCEPT ![j] = @ \ {wp[j]}]
         \/ a = "coldEnd" /\ b # "spawnCold" /\ scope' = scope
  PROVE  CleanNext
<1>0. /\ pc \in [Job -> PC] /\ wp \in [Job -> Proc \cup {None}] /\ scope \in [Job -> SUBSET live]
      /\ reap \in [Reaper -> SUBSET live] /\ asked \subseteq live /\ loose \subseteq live
      /\ j \in Reaper /\ ScopeWell(j) /\ None \notin live
  BY PoolAssumption DEF CleanInv, RunnerInv, RunnerTypeOK, PoolTypeOK, Reaper
<1>1. wp[j] \in Proc \ Idle /\ wp[j] # None /\ wp'[j] = None /\ \A i \in Job \ {j} : wp[i] # wp[j]
  BY <1>0, HeldFacts, PoolAssumption DEF Retire, CleanInv, RunnerInv, HoldInv
<1>2. /\ \A i \in Job \ {j} : pc'[i] = pc[i] /\ wp'[i] = wp[i] /\ scope'[i] = scope[i]
      /\ \A r \in Reaper \ {j} : reap'[r] = reap[r]
  BY <1>0 DEF Retire, BeginReap, Goto, Reaper
<1>3. /\ wp[j] \in live => pc'[j] = a /\ reap'[j] = {wp[j]} /\ asked' = asked \cup {wp[j]}
      /\ wp[j] \notin live => pc'[j] = b /\ reap'[j] = {} /\ asked' = asked
  <2>1. pc[j] \notin Retiring \cup {"reaping"}
    BY DEF Reading, Warm, Retiring
  <2>2. reap[j] = {}
    BY <1>0, <2>1 DEF ScopeWell
  <2> QED
    BY <1>0, <2>2 DEF Retire, BeginReap, Goto
<1>4. scope'[j] \subseteq scope[j] /\ scope[j] \subseteq {wp[j]} /\ (a # "coldEnd" => scope'[j] = {})
  BY <1>0 DEF ScopeWell
<1>5. ScopeWell(j)'
  BY <1>0, <1>1, <1>3, <1>4 DEF ScopeWell, Held, Reading, Warm, Retiring
<1>6. Steady(j)
  BY <1>2 DEF Steady, Reaper
<1>7. Owned' = Owned \ {wp[j]}
  BY <1>1, <1>2, InUseFacts DEF Owned
<1>8. \A r \in Reaper : Retires(r)' =>
           \/ Retires(r) /\ reap'[r] \subseteq reap[r]
           \/ reap'[r] \subseteq {wp[j]}
  BY <1>2, <1>3 DEF Retires
<1>9. \A p \in live : Expired(p) => Expired(p)'
  BY <1>2 DEF Expired, Reading, Warm
<1>10. DisposalInv' /\ NoneLeftBehind'
  BY <1>3, <1>7, <1>8, <1>9, GivingUp
<1> QED
  BY <1>5, <1>6, <1>10, OneScopeMoves DEF CleanNext

(* Job j goes from one await to the next, without its process changing.    *)
LEMMA GoesOnClean ==
  ASSUME CleanInv, NEW j \in Job, UNCHANGED <<poolVars, wp, stale, procVars>>,
         NEW label \in PC, Goto(j, label),
         \/ pc[j] \in Warm /\ label \in Warm
         \/ pc[j] = "spawnWarm" /\ label = "spawnCold"
         \/ pc[j] = "spawnCold" /\ label = "over"
  PROVE  CleanNext
<1>0. /\ pc \in [Job -> PC] /\ ScopeWell(j)
  BY DEF CleanInv, RunnerInv, RunnerTypeOK
<1>1. pc'[j] = label /\ \A i \in Job \ {j} : pc'[i] = pc[i]
  BY <1>0 DEF Goto
<1>2. UNCHANGED <<idle, live, scope, active, asked, reap, loose>>
  BY DEF poolVars, procVars
<1>3. ScopeWell(j)'
  BY <1>0, <1>1, <1>2 DEF ScopeWell, Held, Reading, Warm, Retiring
<1>4. Steady(j)
  BY <1>1, <1>2 DEF Steady
<1>5. Owned' = Owned
  BY <1>2 DEF Owned, InUse, Held, Idle, Values
<1>6. \A r \in Reaper : Retires(r)' => Retires(r) /\ reap'[r] \subseteq reap[r]
  BY <1>1, <1>2 DEF Retires, Retiring, Warm
<1>7. \A p \in live : Expired(p) => Expired(p)'
  BY <1>1, <1>2 DEF Expired, Warm
<1>8. DisposalInv' /\ NoneLeftBehind'
  <2>1. live \cap Owned \subseteq active
    BY DEF CleanInv, DisposalInv
  <2> QED
    BY <1>2, <1>5, <1>6, <1>7, <2>1, GivingUpNothing
<1> QED
  BY <1>3, <1>4, <1>8, OneScopeMoves DEF CleanNext

(* A spawn gives job j a process nobody had.                               *)
LEMMA SpawnClean ==
  ASSUME CleanInv, NEW j \in Job, NEW k \in Key \cup {None}, Spawned(j, k),
         NEW label \in Reading, Goto(j, label),
         \/ pc[j] = "spawnWarm" /\ label = "opening"
         \/ pc[j] = "spawnCold" /\ label = "cold"
  PROVE  CleanNext
<1>0. /\ pc \in [Job -> PC] /\ wp \in [Job -> Proc \cup {None}] /\ scope \in [Job -> SUBSET live]
      /\ ScopeWell(j) /\ wp[j] = None /\ None \notin Proc
  BY HeldFacts, PoolAssumption DEF CleanInv, RunnerInv, RunnerTypeOK, Reading, Warm
<1>1. PICK p \in Proc \ {wp[i] : i \in Job} :
         /\ p \notin live \cup Idle /\ live' = live \cup {p} /\ active' = active \cup {p}
         /\ wp' = [wp EXCEPT ![j] = p] /\ scope' = [scope EXCEPT ![j] = @ \cup {p}]
         /\ UNCHANGED <<idle, stale, asked, reap, loose>>
  BY DEF Spawned, Adopt
<1>2. /\ wp'[j] = p /\ scope'[j] = {p} /\ pc'[j] = label
      /\ \A i \in Job \ {j} : pc'[i] = pc[i] /\ wp'[i] = wp[i] /\ scope'[i] = scope[i] /\ wp[i] # p
  BY <1>0, <1>1 DEF Goto, ScopeWell
<1>3. ScopeWell(j)'
  BY <1>0, <1>1, <1>2 DEF ScopeWell, Held, Reading, Warm, Retiring
<1>4. Steady(j)
  BY <1>1, <1>2 DEF Steady
<1>5. Owned' = Owned \cup {p}
  BY <1>0, <1>1, <1>2, InUseFacts DEF Owned, Idle, Values
<1>6. \A r \in Reaper : Retires(r)' => Retires(r) /\ reap'[r] \subseteq reap[r]
  BY <1>1, <1>2 DEF Retires, Retiring, Reading, Warm
<1>7. \A q \in live : Expired(q) => Expired(q)'
  BY <1>2 DEF Expired
<1>8. \A q \in live' : Expired(q) => Expired(q)'
  BY <1>0, <1>1, <1>2, <1>7 DEF Expired
<1>9. DisposalInv' /\ NoneLeftBehind'
  BY <1>1, <1>5, <1>6, <1>8, GivingUpNothing
<1> QED
  BY <1>3, <1>4, <1>9, OneScopeMoves DEF CleanNext

(* An attempt begins, with nothing left over of the one before.            *)
LEMMA AttemptClean ==
  ASSUME CleanInv, NEW j \in Job, NEW k \in Key, NEW s \in Session \cup {None},
         pc[j] = "off" \/ (pc[j] = "over" /\ stale[j]), Attempt(j, k, s)
  PROVE  CleanNext
<1> DEFINE x == <<k, s>>
<1>0. /\ pc \in [Job -> PC] /\ wp \in [Job -> Proc \cup {None}] /\ scope \in [Job -> SUBSET live]
      /\ stale \in [Job -> BOOLEAN] /\ live \subseteq Proc
      /\ ScopeWell(j) /\ wp[j] = None /\ None \notin Proc /\ scope[j] = {} /\ reap[j] = {}
  BY HeldFacts, PoolAssumption DEF CleanInv, RunnerInv, RunnerTypeOK, PoolTypeOK, Reading, Warm,
                                   ScopeWell, Retiring
<1>1. /\ ~stale'[j] /\ \A i \in Job \ {j} : stale'[i] = stale[i] /\ pc'[i] = pc[i]
      /\ UNCHANGED <<active, asked, reap, loose, live>>
  BY <1>0 DEF Attempt, Goto, Checkout, AcquireDead, Pop, poolVars
<1>2. \A r \in Reaper : Retires(r)' => Retires(r) /\ reap'[r] \subseteq reap[r]
  <2>1. pc'[j] \in {"spawnWarm", "spawnCold", "opening"}
    BY <1>0 DEF Attempt, Goto
  <2> QED
    BY <1>1, <2>1 DEF Retires, Retiring
<1>3. CASE ~(Parks(k, s) /\ Checkout(k, s))
  <2>1. UNCHANGED <<wp, scope>> /\ pc'[j] \in {"spawnWarm", "spawnCold"}
    BY <1>0, <1>3 DEF Attempt, Goto
  <2>2. ScopeWell(j)'
    BY <1>0, <1>1, <2>1 DEF ScopeWell, Held, Reading, Warm, Retiring
  <2>3. Steady(j)
    BY <1>1, <2>1 DEF Steady
  <2>4. Idle' \subseteq Idle /\ Idle \cap live \subseteq Idle'
    <3>1. CASE UNCHANGED poolVars
      BY <3>1 DEF poolVars, Idle, Values
    <3>2. CASE Parks(k, s) /\ AcquireDead(k, s)
      <4>1. {x} \in SUBSET Slot /\ Pop({x}) /\ idle[x] \notin live
        BY <3>2 DEF Parks, AcquireDead, Slot
      <4> QED
        BY <4>1, PopTakes DEF CleanInv, RunnerInv
    <3> QED
      BY <1>3, <3>1, <3>2 DEF Attempt
  <2>5. Owned' \subseteq Owned /\ Owned \cap live \subseteq Owned'
    BY <2>1, <2>4, InUseFacts DEF Owned
  <2>6. \A p \in live : Expired(p) => Expired(p)'
    BY <1>0, <1>1, <2>1 DEF Expired
  <2>7. DisposalInv' /\ NoneLeftBehind'
    <3>1. live \cap Owned \subseteq active
      BY DEF CleanInv, DisposalInv
    <3> QED
      BY <1>1, <1>2, <2>5, <2>6, <3>1, GivingUpNothing
  <2> QED
    BY <2>2, <2>3, <2>7, OneScopeMoves DEF CleanNext
<1>4. CASE Parks(k, s) /\ Checkout(k, s)
  <2> DEFINE p == idle[x]
  <2>1. /\ x \in Slot /\ p \in live /\ p # None /\ p \in Idle /\ Pop({x}) /\ {x} \in SUBSET Slot
    BY <1>0, <1>4 DEF Parks, Checkout, Slot, Idle, Values
  <2>2. /\ wp' = [wp EXCEPT ![j] = p] /\ scope' = [scope EXCEPT ![j] = @ \cup {p}]
        /\ Goto(j, "opening")
    BY <1>4, <2>1 DEF Attempt, AcquireDead
  <2> HIDE DEF p
  <2>3. /\ wp'[j] = p /\ scope'[j] = {p} /\ pc'[j] = "opening"
        /\ \A i \in Job \ {j} : wp'[i] = wp[i] /\ scope'[i] = scope[i]
    BY <1>0, <2>2 DEF Goto
  <2>4. Idle' = Idle \ {p}
    BY <2>1, PopTakes DEF p, CleanInv, RunnerInv
  <2>5. ScopeWell(j)'
    BY <1>0, <1>1, <2>1, <2>3 DEF ScopeWell, Held, Reading, Warm, Retiring
  <2>6. Steady(j)
    BY <1>1, <2>3 DEF Steady
  <2>7. Owned' = Owned
    BY <1>0, <2>1, <2>3, <2>4, InUseFacts DEF Owned
  <2>8. \A q \in live : Expired(q) => Expired(q)'
    BY <1>0, <1>1, <2>3 DEF Expired
  <2>9. DisposalInv' /\ NoneLeftBehind'
    <3>1. live \cap Owned \subseteq active
      BY DEF CleanInv, DisposalInv
    <3> QED
      BY <1>1, <1>2, <2>7, <2>8, <3>1, GivingUpNothing
  <2> QED
    BY <2>5, <2>6, <2>9, OneScopeMoves DEF CleanNext
<1> QED
  BY <1>3, <1>4

(* A turn that completed parks its process; what that pushed out, or the   *)
(* process itself when the pool refuses it, is retired.                    *)
LEMMA ParkClean ==
  ASSUME CleanInv, HoldInv', NEW j \in Job, TurnCompletes(j)
  PROVE  CleanNext
<1> DEFINE p == wp[j]
           out == (Idle \ Idle') \cup ({p} \ Idle')
<1>0. /\ pc \in [Job -> PC] /\ wp \in [Job -> Proc \cup {None}] /\ scope \in [Job -> SUBSET live]
      /\ reap \in [Reaper -> SUBSET live] /\ asked \subseteq live /\ live \subseteq Proc
      /\ j \in Reaper /\ ScopeWell(j) /\ None \notin Proc
      /\ pc[j] = "streaming" /\ p \in Proc \ Idle /\ reap[j] = {} /\ ~stale[j]
  BY HeldFacts, PoolAssumption DEF CleanInv, RunnerInv, RunnerTypeOK, PoolTypeOK, Reaper,
                                   TurnCompletes, Reading, Warm, ScopeWell, Retiring
<1>1. Idle' \subseteq Idle \cup {p} /\ live' = live
  <2>1. PICK s \in Session \cup {session[p]} : Park(p, s)
    BY DEF TurnCompletes
  <2>2. \A x \in Slot : Parked(p, s)[x] \in {idle[x], p, None}
    BY DEF Parked, Without
  <2>3. /\ live' = live
        /\ \/ idle' = idle
           \/ idle' = Parked(p, s)
           \/ \E q \in Idle : idle' = Without(Parked(p, s), {slot[q]})
    BY <2>1 DEF Park, ParkRefused, ParkFits, ParkEvicts, Settle
  <2>4. \A x \in Slot : idle'[x] \in {idle[x], p, None}
    BY <2>2, <2>3 DEF Without
  <2> QED
    BY <2>3, <2>4 DEF Idle, Values
<1>2. /\ scope' = [scope EXCEPT ![j] = @ \ out] /\ wp' = [wp EXCEPT ![j] = None]
      /\ IF out \cap live = {}
         THEN Goto(j, "over") /\ UNCHANGED <<asked, reap>>
         ELSE Goto(j, "parking") /\ BeginReap(j, out)
      /\ UNCHANGED <<ask, stale, deadline, active, loose>>
  BY DEF TurnCompletes, Retire
<1> HIDE DEF out
<1>3. /\ wp'[j] = None /\ scope'[j] \subseteq scope[j]
      /\ \A i \in Job \ {j} : pc'[i] = pc[i] /\ wp'[i] = wp[i] /\ scope'[i] = scope[i]
      /\ \A r \in Reaper \ {j} : reap'[r] = reap[r]
  BY <1>0, <1>2 DEF Goto, BeginReap, Reaper
<1>4. \/ out \cap live = {} /\ pc'[j] = "over" /\ reap'[j] = {} /\ asked' = asked
      \/ pc'[j] = "parking" /\ reap'[j] = out \cap live /\ asked' = asked \cup (out \cap live)
  BY <1>0, <1>2 DEF Goto, BeginReap
<1>5. ScopeWell(j)'
  <2>1. \A q, r \in scope'[j] : q = r
    BY <1>0, <1>3 DEF ScopeWell
  <2>2. ~stale'[j]
    BY <1>0, <1>2
  <2> QED
    BY <1>3, <1>4, <2>1, <2>2 DEF ScopeWell, Held, Reading, Warm, Retiring
<1>6. Steady(j)
  BY <1>1, <1>2, <1>3 DEF Steady, Reaper
<1>7. /\ out \cap Owned' = {}
      /\ Owned' \subseteq Owned /\ Owned \subseteq Owned' \cup out
  <2>1. \A i \in Job \ {j} : wp[i] # None => wp[i] # p /\ wp[i] \notin Idle
    BY DEF CleanInv, RunnerInv, HoldInv, HoldsWell
  <2>2. out \cap Idle' = {} /\ out \subseteq Idle \cup {p} /\ Idle \cup {p} \subseteq Idle' \cup out
    BY DEF out
  <2>3. p \in InUse /\ \A q \in InUse : q = p \/ q \in InUse'
    BY <1>0, <1>3, InUseFacts
  <2>4. \A q \in InUse' : q \in InUse /\ q # p /\ q \notin Idle
    BY <1>3, <2>1, InUseFacts
  <2> QED
    BY <1>1, <2>2, <2>3, <2>4 DEF Owned
<1>8. \A r \in Reaper : Retires(r)' =>
           \/ Retires(r) /\ reap'[r] \subseteq reap[r]
           \/ reap'[r] \subseteq out
  BY <1>3, <1>4 DEF Retires
<1>9. \A q \in live : Expired(q) => Expired(q)'
  BY <1>0, <1>3 DEF Expired
<1>10. /\ \A q \in live : q \in out => q \in asked'
       /\ asked \subseteq asked' /\ UNCHANGED <<active, loose>>
  BY <1>2, <1>4
<1>11. DisposalInv' /\ NoneLeftBehind'
  <2>1. live \cap Owned \subseteq active
    BY DEF CleanInv, DisposalInv
  <2> QED
    BY <1>1, <1>7, <1>8, <1>9, <1>10, <2>1, GivingUp
<1> QED
  BY <1>5, <1>6, <1>11, OneScopeMoves DEF CleanNext

(* The retirement a job waits for is over.                                 *)
LEMMA RetiredClean ==
  ASSUME CleanInv, NEW j \in Job, Retired(j)
  PROVE  CleanNext
<1>0. /\ pc \in [Job -> PC] /\ wp \in [Job -> Proc \cup {None}] /\ scope \in [Job -> SUBSET live]
      /\ reap \in [Reaper -> SUBSET live]
      /\ j \in Reaper /\ ScopeWell(j) /\ wp[j] = None /\ pc[j] \in Retiring
  BY HeldFacts DEF CleanInv, RunnerInv, RunnerTypeOK, Reaper, Retired, Reading, Warm, Retiring
<1>1. /\ reap' = [reap EXCEPT ![j] = {}] /\ active' = active \ reap[j]
      /\ scope' = [scope EXCEPT ![j] = @ \ reap[j]]
      /\ UNCHANGED <<idle, live, asked, loose, wp, stale>>
  BY DEF Retired, ReapOver, poolVars
<1>2. /\ pc' = [pc EXCEPT ![j] = Resumes(j)]
      /\ Resumes(j) \in {"expired", "spawnCold", "over"}
      /\ Resumes(j) = "spawnCold" => pc[j] = "failing"
      /\ Resumes(j) = "over" => pc[j] # "failing"
  <2>1. pc' = [pc EXCEPT ![j] = Resumes(j)]
    BY DEF Retired, Goto
  <2> QED
    BY <2>1, Zenon DEF Resumes
<1>3. /\ pc'[j] = Resumes(j) /\ reap'[j] = {} /\ scope'[j] = scope[j] \ reap[j]
      /\ \A i \in Job \ {j} : pc'[i] = pc[i] /\ scope'[i] = scope[i]
      /\ \A r \in Reaper \ {j} : reap'[r] = reap[r]
  BY <1>0, <1>1, <1>2
<1>4. ScopeWell(j)'
  <2>1. pc[j] \in {"closing", "coldEnd", "failing"} => scope'[j] = {}
    BY <1>0, <1>3 DEF ScopeWell
  <2>2. pc[j] = "parking" => ~stale'[j]
    BY <1>0, <1>1 DEF ScopeWell
  <2>3. \A p, q \in scope'[j] : p = q
    BY <1>0, <1>3 DEF ScopeWell
  <2> QED
    BY <1>0, <1>1, <1>2, <1>3, <2>1, <2>2, <2>3 DEF ScopeWell, Held, Reading, Warm, Retiring
<1>5. Steady(j)
  BY <1>1, <1>3 DEF Steady, Reaper
<1>6. Owned' = Owned
  BY <1>1 DEF Owned, InUse, Held, Idle, Values
<1>7. \A r \in Reaper : Retires(r)' => (Retires(r) /\ reap'[r] \subseteq reap[r]) \/ reap'[r] = {}
  BY <1>3 DEF Retires
<1>8. \A p \in live : Expired(p) => Expired(p)'
  BY <1>0, <1>3 DEF Expired, Retiring
<1>9. live \cap Owned \subseteq active /\ reap[j] \cap Owned = {}
  BY <1>0 DEF CleanInv, DisposalInv, Retires
<1>10. DisposalInv' /\ NoneLeftBehind'
  BY <1>1, <1>6, <1>7, <1>8, <1>9, GivingUpNothing
<1> QED
  BY <1>4, <1>5, <1>10, OneScopeMoves DEF CleanNext

(* A job is over: its handler returned, a timeout was dealt with, or it    *)
(* left an open stream behind.                                             *)
LEMMA OverClean ==
  ASSUME CleanInv, NEW j \in Job, Finish(j) \/ TimeoutHandled(j) \/ StreamDropped(j)
  PROVE  CleanNext
<1>0. /\ pc \in [Job -> PC] /\ wp \in [Job -> Proc \cup {None}] /\ scope \in [Job -> SUBSET live]
      /\ reap \in [Reaper -> SUBSET live] /\ stale \in [Job -> BOOLEAN] /\ live \subseteq Proc
      /\ j \in Reaper /\ ScopeWell(j) /\ None \notin Proc
      /\ pc[j] \notin Reading => wp[j] = None
      /\ pc[j] \in Reading => wp[j] \in Proc \ Idle
  BY HeldFacts, PoolAssumption DEF CleanInv, RunnerInv, RunnerTypeOK, PoolTypeOK, Reaper
<1>1. /\ pc'[j] = "off" /\ scope'[j] = {}
      /\ \A i \in Job \ {j} : pc'[i] = pc[i] /\ scope'[i] = scope[i] /\ stale'[i] = stale[i]
      /\ UNCHANGED <<idle, live, active, asked>>
  BY <1>0 DEF Finish, TimeoutHandled, StreamDropped, JobOver, Goto, ReapOver, poolVars
<1>2. /\ wp'[j] = None /\ \A i \in Job \ {j} : wp'[i] = wp[i]
      /\ reap'[j] = {} /\ \A r \in Reaper \ {j} : reap'[r] = reap[r]
      /\ loose' = loose \cup ({wp[j]} \cap live)
      /\ pc[j] # "expired"
  <2>1. CASE Finish(j) \/ TimeoutHandled(j)
    <3>1. wp[j] = None /\ wp' = wp /\ loose' = loose /\ None \notin live /\ pc[j] # "expired"
      BY <1>0, <2>1 DEF Finish, TimeoutHandled, ReapOver, Reading, Warm
    <3>2. reap'[j] = {} /\ \A r \in Reaper \ {j} : reap'[r] = reap[r]
      BY <1>0, <2>1 DEF Finish, TimeoutHandled, ReapOver, ScopeWell, Retiring
    <3> QED
      BY <3>1, <3>2
  <2>2. CASE StreamDropped(j)
    BY <1>0, <2>2 DEF StreamDropped, ScopeWell, Retiring
  <2> QED
    BY <2>1, <2>2
<1>3. ScopeWell(j)'
  BY <1>0, <1>1, <1>2 DEF ScopeWell, Held, Reading, Warm, Retiring
<1>4. Steady(j)
  BY <1>1, <1>2 DEF Steady, Reaper
<1> DEFINE P == {wp[j]} \cap live
<1>5. P \cap Owned' = {} /\ Owned' \subseteq Owned /\ Owned \cap live \subseteq Owned' \cup P
  <2>1. \A i \in Job \ {j} : wp[i] # None => wp[i] # wp[j]
    BY DEF CleanInv, RunnerInv, HoldInv
  <2>2. Idle' = Idle
    BY <1>1 DEF Idle, Values
  <2> QED
    BY <1>0, <1>2, <2>1, <2>2, InUseFacts DEF Owned
<1>6. \A r \in Reaper : Retires(r)' => Retires(r) /\ reap'[r] \subseteq reap[r]
  BY <1>1, <1>2 DEF Retires, Retiring
<1>7. \A p \in live : Expired(p) => Expired(p)'
  BY <1>1, <1>2 DEF Expired
<1>8. /\ loose' \subseteq loose \cup P /\ P \subseteq loose' /\ loose \subseteq loose'
  BY <1>2
<1> HIDE DEF P
<1>9. DisposalInv' /\ NoneLeftBehind'
  <2>1. live \cap Owned \subseteq active
    BY DEF CleanInv, DisposalInv
  <2> QED
    BY <1>1, <1>5, <1>6, <1>7, <1>8, <2>1, GivingUp
<1> QED
  BY <1>3, <1>4, <1>9, OneScopeMoves DEF CleanNext

(* The deadline cancels the job where nothing catches it: a process whose  *)
(* first event it awaited is left to the timeout handler, in its scope.    *)
LEMMA DropClean ==
  ASSUME CleanInv, NEW j \in Job, TimeoutDrops(j)
  PROVE  CleanNext
<1>0. /\ pc \in [Job -> PC] /\ wp \in [Job -> Proc \cup {None}] /\ reap \in [Reaper -> SUBSET live]
      /\ j \in Reaper /\ ScopeWell(j) /\ None \notin Proc
      /\ pc[j] \notin Reading => wp[j] = None
      /\ wp[j] # None => wp[j] \notin Idle
  BY HeldFacts, PoolAssumption DEF CleanInv, RunnerInv, RunnerTypeOK, Reaper
<1>1. /\ pc'[j] = "expired" /\ wp'[j] = None /\ reap'[j] = {} /\ pc[j] # "expired"
      /\ \A i \in Job \ {j} : pc'[i] = pc[i] /\ wp'[i] = wp[i]
      /\ \A r \in Reaper \ {j} : reap'[r] = reap[r]
      /\ UNCHANGED <<idle, live, stale, scope, active, asked, loose>>
  BY <1>0 DEF TimeoutDrops, Goto, poolVars, Retiring
<1>2. ScopeWell(j)'
  BY <1>0, <1>1 DEF ScopeWell, Held, Reading, Warm, Retiring
<1>3. Steady(j)
  BY <1>1 DEF Steady, Reaper
<1> DEFINE P == {wp[j]} \cap live
<1>4. P \cap Owned' = {} /\ Owned' \subseteq Owned /\ Owned \cap live \subseteq Owned' \cup P
  <2>1. \A i \in Job \ {j} : wp[i] # None => wp[i] # wp[j]
    BY DEF CleanInv, RunnerInv, HoldInv
  <2>2. Idle' = Idle
    BY <1>1 DEF Idle, Values
  <2>3. None \notin live
    BY <1>0 DEF CleanInv, RunnerInv, RunnerTypeOK, PoolTypeOK
  <2> QED
    BY <1>0, <1>1, <2>1, <2>2, <2>3, InUseFacts DEF Owned
<1>5. \A r \in Reaper : Retires(r)' => Retires(r) /\ reap'[r] \subseteq reap[r]
  BY <1>1 DEF Retires, Retiring
<1>6. \A p \in live : p \in P \/ Expired(p) => Expired(p)'
  <2>1. P \subseteq scope[j]
    <3>1. None \notin live
      BY <1>0 DEF CleanInv, RunnerInv, RunnerTypeOK, PoolTypeOK
    <3> QED
      BY <1>0, <3>1 DEF ScopeWell, Held
  <2> QED
    BY <1>1, <2>1 DEF Expired
<1> HIDE DEF P
<1>7. DisposalInv' /\ NoneLeftBehind'
  <2>1. live \cap Owned \subseteq active
    BY DEF CleanInv, DisposalInv
  <2> QED
    BY <1>1, <1>4, <1>5, <1>6, <2>1, GivingUp
<1> QED
  BY <1>2, <1>3, <1>7, OneScopeMoves DEF CleanNext

(* The timeout handler takes the scope out of the pool and terminates it.  *)
LEMMA HandleClean ==
  ASSUME CleanInv, NEW j \in Job, HandleTimeout(j)
  PROVE  CleanNext
<1>0. /\ pc \in [Job -> PC] /\ reap \in [Reaper -> SUBSET live] /\ scope \in [Job -> SUBSET live]
      /\ j \in Reaper /\ ScopeWell(j) /\ wp[j] = None /\ pc[j] = "expired"
  BY HeldFacts DEF CleanInv, RunnerInv, RunnerTypeOK, Reaper, HandleTimeout, Reading, Warm
<1>1. /\ pc'[j] = "reaping" /\ asked' = asked \cup scope[j]
      /\ \A i \in Job \ {j} : pc'[i] = pc[i]
      /\ \A r \in Reaper \ {j} : reap'[r] = reap[r]
      /\ UNCHANGED <<live, wp, stale, scope, active, loose>>
  BY <1>0 DEF HandleTimeout, Goto, BeginReap, Discard, Pop
<1>2. ScopeWell(j)'
  BY <1>0, <1>1 DEF ScopeWell, Held, Reading, Warm, Retiring
<1>3. Steady(j)
  BY <1>1 DEF Steady, Reaper
<1>4. Idle' \subseteq Idle /\ Idle \subseteq Idle' \cup scope[j]
  <2> DEFINE S == {x \in Slot : idle[x] \in scope[j]}
  <2>1. S \in SUBSET Slot /\ Pop(S)
    BY DEF HandleTimeout, Discard
  <2>2. \A p \in {idle[x] : x \in S} : p \in scope[j]
    OBVIOUS
  <2> HIDE DEF S
  <2> QED
    BY <2>1, <2>2, PopTakes DEF CleanInv, RunnerInv
<1> DEFINE P == Idle \ Idle'
<1>5. P \cap Owned' = {} /\ Owned' \subseteq Owned /\ Owned \subseteq Owned' \cup P
  <2>1. \A i \in Job : wp[i] # None => wp[i] \notin Idle
    BY DEF CleanInv, RunnerInv, HoldInv, HoldsWell
  <2> QED
    BY <1>1, <1>4, <2>1, InUseFacts DEF Owned
<1>6. \A r \in Reaper : Retires(r)' => Retires(r) /\ reap'[r] \subseteq reap[r]
  BY <1>1, RunnerAssumption DEF Retires, Retiring, Reaper
<1>7. \A p \in live : p \in P \/ Expired(p) => p \in asked' \/ Expired(p)'
  BY <1>1, <1>4 DEF Expired
<1> HIDE DEF P
<1>8. DisposalInv' /\ NoneLeftBehind'
  <2>1. live \cap Owned \subseteq active
    BY DEF CleanInv, DisposalInv
  <2> QED
    BY <1>1, <1>5, <1>6, <1>7, <2>1, GivingUp
<1> QED
  BY <1>2, <1>3, <1>8, OneScopeMoves DEF CleanNext

(* Timers, finalisers and commands: they may take the processes P out of   *)
(* the pool, and then ask them to go.                                      *)
LEMMA OutsideClean ==
  ASSUME CleanInv, UNCHANGED <<jobVars, scope, live>>, NEW P, P \cap InUse = {},
         Idle' = Idle \ P,
         \A i \in Job : reap'[i] = reap[i],
         \A r \in Proc : reap'[r] \subseteq reap[r] \/ reap'[r] \subseteq P,
         active \cap Owned' \subseteq active',
         loose' \subseteq loose, asked \cup (P \cap live) \subseteq asked',
         loose \subseteq loose' \cup asked'
  PROVE  CleanNext
<1>1. UNCHANGED <<pc, wp, stale, scope, live>>
  BY DEF jobVars
<1>2. \A i \in Job : ScopeWell(i)'
  BY <1>1 DEF CleanInv, ScopeWell, Held
<1>3. Owned' = Owned \ P
  BY <1>1 DEF Owned, InUse, Held
<1>4. \A r \in Reaper : Retires(r)' =>
           \/ Retires(r) /\ reap'[r] \subseteq reap[r]
           \/ reap'[r] \subseteq P
  BY <1>1 DEF Retires
<1>5. \A p \in live' : p \in P \/ Expired(p) => p \in asked' \cup loose' \/ Expired(p)'
  BY <1>1 DEF Expired
<1>6. P \cap Owned' = {} /\ Owned' \subseteq Owned /\ Owned \subseteq Owned' \cup P
  BY <1>3
<1>7. DisposalInv' /\ NoneLeftBehind'
  BY <1>1, <1>4, <1>5, <1>6, GivingUp
<1> QED
  BY <1>2, <1>7 DEF CleanNext

(* A process exits, at any time, and nobody is told.                       *)
LEMMA ExitClean ==
  ASSUME CleanInv, NEW p \in Proc, ProcessExits(p)
  PROVE  CleanNext
<1>0. /\ scope \in [Job -> SUBSET live] /\ reap \in [Reaper -> SUBSET live]
  BY DEF CleanInv, RunnerInv, RunnerTypeOK
<1>1. /\ live' = live \ {p} /\ active' = active \ {p} /\ asked' = asked \ {p}
      /\ loose' = loose \ {p}
      /\ scope' = [j \in Job |-> scope[j] \ {p}] /\ reap' = [r \in Reaper |-> reap[r] \ {p}]
      /\ UNCHANGED <<idle, pc, wp, stale>>
  BY DEF ProcessExits, Exit, jobVars
<1>2. ASSUME NEW i \in Job PROVE ScopeWell(i)'
  <2>1. ScopeWell(i) /\ i \in Reaper
    BY DEF CleanInv, Reaper
  <2>2. scope'[i] = scope[i] \ {p} /\ reap'[i] = reap[i] \ {p}
    BY <1>1, <2>1
  <2> QED
    BY <1>1, <2>1, <2>2 DEF ScopeWell, Held
<1>3. Owned' = Owned
  BY <1>1 DEF Owned, InUse, Held, Idle, Values
<1>4. \A r \in Reaper : Retires(r)' => Retires(r) /\ reap'[r] \subseteq reap[r]
  BY <1>1 DEF Retires
<1>5. \A q \in live' : Expired(q) => Expired(q)'
  BY <1>0, <1>1 DEF Expired
<1>6. DisposalInv' /\ NoneLeftBehind'
  BY <1>1, <1>3, <1>4, <1>5, GivingUpNothing
<1> QED
  BY <1>2, <1>6 DEF CleanNext

-----------------------------------------------------------------------------
LEMMA CleanStep ==
  ASSUME CleanInv, RunnerInv', Next
  PROVE  CleanNext
<1>0. /\ live \cap Owned \subseteq active /\ loose \cap Owned = {}
      /\ \A r \in Reaper : Retires(r) => reap[r] \cap Owned = {}
      /\ reap \in [Reaper -> SUBSET live] /\ active \subseteq live /\ asked \subseteq live
      /\ live \subseteq Proc /\ Idle \subseteq Proc /\ Idle \cap InUse = {} /\ Idle \subseteq Owned
  <2>1. PoolTypeOK
    BY DEF CleanInv, RunnerInv, PoolInv
  <2>2. Idle \subseteq Proc /\ live \subseteq Proc
    BY <2>1 DEF PoolTypeOK, Idle, Values
  <2>3. Idle \cap InUse = {}
    BY InUseFacts DEF CleanInv, RunnerInv, HoldInv, HoldsWell
  <2> QED
    BY <2>2, <2>3 DEF CleanInv, DisposalInv, RunnerInv, RunnerTypeOK, Owned
<1>1. ASSUME NEW j \in Job, pc[j] \in Reading, Forget(wp[j])
      PROVE  Idle' = Idle /\ live' = live
  <2>1. wp[j] \in Proc \ Idle
    BY <1>1, HeldFacts DEF CleanInv
  <2> QED
    BY <1>1, <2>1, ForgetTakes DEF CleanInv, RunnerInv, Forget
<1>2. ASSUME NEW j \in Job, NEW a \in {"failing", "closing"},
             NEW b \in {"spawnCold", "over", "expired"}, pc[j] \in Reading, Abandon(j, a, b),
             \A i \in Job \ {j} : stale'[i] = stale[i]
      PROVE  CleanNext
  BY <1>1, <1>2, LetGoClean DEF Abandon
<1>3. ASSUME NEW j \in Job, MaybeStale(j) PROVE \A i \in Job \ {j} : stale'[i] = stale[i]
  BY <1>3 DEF MaybeStale, CleanInv, RunnerInv, RunnerTypeOK
<1>4. ASSUME NEW j \in Job, JobStep(j) PROVE CleanNext
  <2> USE <1>4 DEF PC, Reading, Warm, Retiring
  <2>1. CASE SpawnWarm(j)
    <3>1. ask[j][1] \in Key
      BY <2>1, HeldFacts DEF SpawnWarm, CleanInv
    <3> QED
      BY <2>1, <3>1, SpawnClean DEF SpawnWarm
  <2>2. CASE SpawnCold(j)
    BY <2>2, SpawnClean DEF SpawnCold
  <2>3. CASE OpeningFails(j) \/ StreamBreaks(j)
    BY <2>3, <1>2 DEF OpeningFails, StreamBreaks
  <2>4. CASE StderrRead(j) \/ TimeoutSwallowed(j)
    BY <2>4, <1>2, <1>3 DEF StderrRead, TimeoutSwallowed
  <2>5. CASE TurnCompletes(j)
    BY <2>5, ParkClean DEF RunnerInv
  <2>6. CASE ColdEnds(j)
    <3>1. \A i \in Job \ {j} : stale'[i] = stale[i]
      BY <2>6, <1>3 DEF ColdEnds
    <3>2. Idle' = Idle /\ live' = live
      BY <2>6 DEF ColdEnds, poolVars, Idle, Values
    <3> QED
      BY <2>6, <3>1, <3>2, LetGoClean DEF ColdEnds
  <2>7. CASE Retry(j)
    <3>1. ask[j][1] \in Key
      BY <2>7, HeldFacts DEF Retry, CleanInv
    <3> QED
      BY <2>7, <3>1, AttemptClean DEF Retry
  <2>8. CASE Retired(j)
    BY <2>8, RetiredClean
  <2>9. CASE Finish(j) \/ TimeoutHandled(j) \/ StreamDropped(j)
    BY <2>9, OverClean
  <2>10. CASE TimeoutDrops(j)
    BY <2>10, DropClean
  <2>11. CASE TimeoutUnwinds(j)
    <3>1. CASE pc[j] \in {"streaming", "exitWait"} /\ Abandon(j, "closing", "expired")
      BY <2>11, <3>1, <1>2 DEF TimeoutUnwinds
    <3>2. CASE /\ pc[j] = "cold" /\ Retire(j, {wp[j]}, "coldEnd", "expired")
               /\ UNCHANGED <<poolVars, ask, scope, active, loose>>
      <4>1. Idle' = Idle /\ live' = live
        BY <3>2 DEF poolVars, Idle, Values
      <4> QED
        BY <2>11, <3>2, <4>1, LetGoClean DEF TimeoutUnwinds
    <3> QED
      BY <2>11, <3>1, <3>2 DEF TimeoutUnwinds
  <2>12. CASE HandleTimeout(j)
    BY <2>12, HandleClean
  <2>13. CASE FirstEvent(j) \/ TurnErrs(j) \/ ExitSeen(j)
    BY <2>13, GoesOnClean DEF FirstEvent, TurnErrs, ExitSeen
  <2>14. CASE SpawnWarmFails(j) \/ SpawnColdFails(j)
    BY <2>14, GoesOnClean DEF SpawnWarmFails, SpawnColdFails
  <2> QED
    BY <2>1, <2>2, <2>3, <2>4, <2>5, <2>6, <2>7, <2>8, <2>9, <2>10, <2>11, <2>12, <2>13, <2>14
    DEF JobStep, Timeout
<1>5. ASSUME NEW j \in Job, NEW k \in Key, NEW s \in Session \cup {None}, Start(j, k, s)
      PROVE  CleanNext
  BY <1>5, AttemptClean DEF Start
<1>6. ASSUME NEW r \in Reaper \ Job, NEW Q, BeginReap(r, Q)
      PROVE  /\ \A i \in Job : reap'[i] = reap[i]
             /\ \A q \in Reaper \ {r} : reap'[q] = reap[q]
             /\ reap'[r] = Q \cap live /\ asked' = asked \cup (Q \cap live)
  BY <1>0, <1>6 DEF BeginReap, Reaper
<1>7. ASSUME NEW r \in Reaper \ Job, ReapOver(r)
      PROVE  /\ \A i \in Job : reap'[i] = reap[i]
             /\ \A q \in Reaper : reap'[q] \subseteq reap[q]
             /\ UNCHANGED <<live, asked, loose>> /\ Idle' = Idle
  BY <1>0, <1>7 DEF ReapOver, Reaper, poolVars, Idle, Values
<1>8. Shutdown \in Reaper \ (Job \cup Proc) /\ \A p \in Proc : p \in Reaper \ Job
  BY RunnerAssumption DEF Reaper
<1>9. ASSUME NEW p \in Proc, IdleTimeout(p) PROVE CleanNext
  <2>1. OwnSlot(p) \in SUBSET Slot /\ {idle[x] : x \in OwnSlot(p)} = {p} /\ p \in Idle
    BY <1>9, PoolAssumption DEF IdleTimeout, Expire, OwnSlot, Idle, Values
  <2>2. Idle' = Idle \ {p} /\ live' = live
    BY <1>9, <2>1, PopTakes DEF IdleTimeout, Expire, Pop, CleanInv, RunnerInv
  <2>3. {p} \cap InUse = {}
    BY <2>1, <1>0
  <2>4. BeginReap(p, {p}) /\ UNCHANGED <<jobVars, scope, active, loose>>
    BY <1>9 DEF IdleTimeout
  <2>5. Owned' \subseteq Owned
    BY <2>2, <2>4 DEF Owned, InUse, Held, jobVars
  <2>6. \A r \in Proc : reap'[r] \subseteq reap[r] \/ reap'[r] \subseteq {p}
    BY <2>4, <1>6, <1>8
  <2> QED
    BY <1>6, <1>8, <2>2, <2>3, <2>4, <2>5, <2>6, OutsideClean
<1>10. ASSUME NEW p \in Proc, Finalised(p) PROVE CleanNext
  <2>1. /\ p \in loose /\ loose' = loose \ {p} /\ BeginReap(p, {p})
        /\ UNCHANGED <<jobVars, scope, active, live, idle>>
    BY <1>10 DEF Finalised, poolVars
  <2>2. p \notin Owned /\ Idle' = Idle \ {p} /\ {p} \cap InUse = {} /\ p \in live
    BY <1>0, <2>1 DEF Owned, Idle, Values, CleanInv, RunnerInv, RunnerTypeOK
  <2>3. \A r \in Proc : reap'[r] \subseteq reap[r] \/ reap'[r] \subseteq {p}
    BY <2>1, <1>6, <1>8
  <2>4. p \in asked' /\ asked \subseteq asked'
    BY <1>6, <1>8, <2>1, <2>2
  <2> QED
    BY <1>6, <1>8, <2>1, <2>2, <2>3, <2>4, OutsideClean
<1>11. ASSUME NEW p \in Proc, BackgroundRetired(p) PROVE CleanNext
  <2>1. ReapOver(p) /\ active' = active \ reap[p] /\ UNCHANGED <<jobVars, scope>>
    BY <1>11 DEF BackgroundRetired
  <2>2. UNCHANGED <<live, asked, loose>> /\ Idle' = Idle
    BY <2>1, <1>7, <1>8
  <2>3. Owned' = Owned /\ reap[p] \cap Owned = {}
    BY <1>0, <1>8, <2>1, <2>2 DEF Owned, InUse, Held, jobVars, Retires
  <2>4. \A i \in Job : reap'[i] = reap[i]
    BY <2>1, <1>7, <1>8
  <2>5. \A r \in Proc : reap'[r] \subseteq reap[r]
    BY <2>1, <1>7, <1>8
  <2> DEFINE P == {}
  <2>6. /\ P \cap InUse = {} /\ Idle' = Idle \ P /\ asked \cup (P \cap live) \subseteq asked'
        /\ active \cap Owned' \subseteq active'
    BY <2>1, <2>2, <2>3
  <2> HIDE DEF P
  <2> QED
    BY <2>1, <2>2, <2>4, <2>5, <2>6, OutsideClean
<1>12. ASSUME NEW p \in Proc, ProcessExits(p) PROVE CleanNext
  BY <1>12, ExitClean
<1>13. CASE TerminateAll
  <2>1. Pop(Slot) /\ BeginReap(Shutdown, active) /\ UNCHANGED <<jobVars, scope, active, loose>>
    BY <1>13 DEF TerminateAll, Reset
  <2>2. Idle' = Idle \ Idle /\ live' = live
    <3>1. \A p \in Idle : p \in {idle[x] : x \in Slot}
      BY DEF Idle, Values
    <3>2. Idle' = Idle \ {idle[x] : x \in Slot} /\ live' = live
      BY <2>1, PopTakes DEF Pop, CleanInv, RunnerInv
    <3> QED
      BY <3>1, <3>2
  <2>3. asked \cup (Idle \cap live) \subseteq asked'
    BY <1>0, <1>6, <1>8, <2>1
  <2>4. \A r \in Job \cup Proc : reap'[r] = reap[r]
    BY <1>6, <1>8, <2>1 DEF Reaper
  <2> QED
    BY <1>0, <2>1, <2>2, <2>3, <2>4, OutsideClean
<1>14. CASE TerminateAllGivesUp
  <2>1. ReapOver(Shutdown) /\ UNCHANGED <<jobVars, scope, active>>
    BY <1>14 DEF TerminateAllGivesUp
  <2>2. UNCHANGED <<live, asked, loose>> /\ Idle' = Idle
    BY <2>1, <1>7, <1>8
  <2>3. /\ \A i \in Job : reap'[i] = reap[i]
        /\ \A r \in Proc : reap'[r] \subseteq reap[r]
    BY <2>1, <1>7, <1>8
  <2> DEFINE P == {}
  <2>4. /\ P \cap InUse = {} /\ Idle' = Idle \ P /\ asked \cup (P \cap live) \subseteq asked'
    BY <2>2
  <2> HIDE DEF P
  <2> QED
    BY <2>1, <2>2, <2>3, <2>4, OutsideClean
<1>15. ASSUME NEW s \in Session, Release(s) PROVE CleanNext
  <2>1. /\ Pop(SameConversation(s)) /\ SameConversation(s) \in SUBSET Slot
        /\ asked' = asked \cup ((Idle \ Idle') \cap live)
        /\ UNCHANGED <<jobVars, scope, active, reap, loose>>
    BY <1>15 DEF Release, SameConversation
  <2>2. Idle' \subseteq Idle /\ live' = live
    BY <2>1, PopTakes DEF Pop, CleanInv, RunnerInv
  <2> DEFINE P == Idle \ Idle'
  <2>3. /\ P \cap InUse = {} /\ Idle' = Idle \ P /\ asked \cup (P \cap live) \subseteq asked'
    BY <1>0, <2>1, <2>2
  <2> HIDE DEF P
  <2> QED
    BY <2>1, <2>2, <2>3, OutsideClean
<1> QED
  BY <1>4, <1>5, <1>9, <1>10, <1>11, <1>12, <1>13, <1>14, <1>15 DEF Next

LEMMA CleanInitInv ==
  Init => CleanInv
<1> SUFFICES ASSUME Init PROVE CleanInv
  OBVIOUS
<1>1. RunnerInv
  BY RunnerInitInv
<1>2. \A j \in Job : ScopeWell(j)
  BY DEF Init, PoolInit, ScopeWell, Held, Reading, Warm, Reaper
<1>3. DisposalInv /\ NoneLeftBehind
  BY DEF Init, PoolInit, DisposalInv, NoneLeftBehind, Reaper
<1> QED
  BY <1>1, <1>2, <1>3 DEF CleanInv

LEMMA CleanNextInv ==
  CleanInv /\ [Next]_vars => CleanInv'
<1> SUFFICES ASSUME CleanInv, [Next]_vars PROVE CleanInv'
  OBVIOUS
<1>1. RunnerInv'
  BY RunnerNextInv DEF CleanInv
<1>2. CASE Next
  BY <1>1, <1>2, CleanStep DEF CleanInv, CleanNext
<1>3. CASE UNCHANGED vars
  <2>1. UNCHANGED <<idle, live, pc, wp, stale, scope, active, asked, reap, loose>>
    BY <1>3 DEF vars, poolVars, jobVars, procVars
  <2>2. \A j \in Job : ScopeWell(j)'
    BY <2>1 DEF CleanInv, ScopeWell, Held
  <2>3. DisposalInv' /\ NoneLeftBehind'
    BY <2>1 DEF CleanInv, DisposalInv, NoneLeftBehind, Retires, Owned, InUse, Held, Idle, Values
  <2> QED
    BY <1>1, <2>2, <2>3 DEF CleanInv
<1> QED
  BY <1>2, <1>3

(* The whole inductive invariant: what RunnerInv says, the scope of every  *)
(* job, and what becomes of the processes nobody owns.                     *)
THEOREM CleanInvariance == Spec => []CleanInv
BY CleanInitInv, CleanNextInv, PTL DEF Spec

(* A process serves one turn at a time, none while it is parked, and is    *)
(* neither parked nor in use while it is being disposed of.                *)
THEOREM OneOwner == Spec => []ExclusiveUse
<1>1. CleanInv => ExclusiveUse
  BY DEF CleanInv, RunnerInv, HoldInv, HoldsWell, DisposalInv, ExclusiveUse, RetiredStaysOut,
         Retires, Owned, Held, InUse
<1> QED
  BY CleanInvariance, <1>1, PTL

(* All a timeout may touch is the one live process of the current attempt. *)
THEOREM OneProcessInScope == Spec => []ScopeIsOneProcess
<1>1. CleanInv => ScopeIsOneProcess
  BY DEF CleanInv, ScopeWell, ScopeIsOneProcess
<1> QED
  BY CleanInvariance, <1>1, PTL

(* No path of a turn, a timer or a command leaves a process running that   *)
(* nobody reads, waits for or has told to exit.                            *)
THEOREM NobodyLeftBehind == Spec => []NoneLeftBehind
<1>1. CleanInv => NoneLeftBehind
  BY DEF CleanInv
<1> QED
  BY CleanInvariance, <1>1, PTL

(* A job gets to the cold spawn from the start of an attempt, from a warm  *)
(* spawn that failed, or once a warm attempt that failed is retired.       *)
LEMMA ColdComesFrom ==
  ASSUME CleanInv, Next, NEW j \in Job, pc[j] # "spawnCold", pc'[j] = "spawnCold"
  PROVE  \/ pc[j] \in {"off", "spawnWarm"} \/ (pc[j] = "over" /\ stale[j])
         \/ pc[j] = "opening" /\ wp[j] \notin live /\ live' = live
         \/ pc[j] = "failing" /\ reap[j] \subseteq Unkillable
<1> DEFINE Ok == \/ pc[j] \in {"off", "spawnWarm"} \/ (pc[j] = "over" /\ stale[j])
                 \/ pc[j] = "opening" /\ wp[j] \notin live /\ live' = live
                 \/ pc[j] = "failing" /\ reap[j] \subseteq Unkillable
<1>0. pc \in [Job -> PC]
  BY DEF CleanInv, RunnerInv, RunnerTypeOK
<1>1. ASSUME NEW i \in Job, NEW label, Goto(i, label) PROVE i = j /\ label = "spawnCold"
  BY <1>0, <1>1 DEF Goto
<1>2. ASSUME NEW i \in Job, NEW P, NEW a, NEW b, Retire(i, P, a, b), a # "spawnCold"
      PROVE  i = j /\ b = "spawnCold" /\ P \cap live = {}
  BY <1>1, <1>2 DEF Retire
<1>3. ASSUME NEW i \in Job, JobStep(i) PROVE Ok
  <2>1. CASE OpeningFails(i)
    BY <2>1, <1>2 DEF OpeningFails, Abandon, Forget
  <2>2. CASE Retired(i)
    <3>1. i = j /\ Resumes(i) = "spawnCold" /\ reap[i] \subseteq Unkillable
      BY <2>2, <1>1 DEF Retired, ReapOver
    <3>2. pc[i] = "failing"
      BY <3>1, Zenon DEF Resumes
    <3> QED
      BY <3>1, <3>2
  <2>3. CASE SpawnWarmFails(i) \/ Retry(i)
    BY <2>3, <1>1 DEF SpawnWarmFails, Retry, Attempt
  <2>4. CASE StreamBreaks(i) \/ StderrRead(i) \/ TurnCompletes(i) \/ ColdEnds(i)
    BY <2>4, <1>2 DEF StreamBreaks, StderrRead, TurnCompletes, ColdEnds, Abandon
  <2>5. CASE Timeout(i)
    BY <2>5, <1>1, <1>2 DEF Timeout, TimeoutDrops, TimeoutUnwinds, TimeoutSwallowed, Abandon
  <2>6. CASE \/ SpawnWarm(i) \/ FirstEvent(i) \/ TurnErrs(i) \/ ExitSeen(i) \/ SpawnCold(i)
             \/ SpawnColdFails(i) \/ Finish(i) \/ StreamDropped(i) \/ HandleTimeout(i)
             \/ TimeoutHandled(i)
    BY <2>6, <1>1 DEF SpawnWarm, FirstEvent, TurnErrs, ExitSeen, SpawnCold, SpawnColdFails,
                      Finish, StreamDropped, HandleTimeout, TimeoutHandled, JobOver
  <2> QED
    BY <1>3, <2>1, <2>2, <2>3, <2>4, <2>5, <2>6 DEF JobStep
<1>4. ASSUME NEW i \in Job, NEW k \in Key, NEW s \in Session \cup {None}, Start(i, k, s)
      PROVE  Ok
  BY <1>4, <1>1 DEF Start, Attempt
<1>5. pc' # pc
  OBVIOUS
<1> QED
  BY <1>3, <1>4, <1>5 DEF Next, IdleTimeout, Finalised, BackgroundRetired, ProcessExits,
                          TerminateAll, TerminateAllGivesUp, Release, jobVars

(* The cold attempt starts only once the warm one is dead, or will not die. *)
THEOREM FallbackStartsClean == Spec => FallbackIsClean
<1> DEFINE Clean(j) ==
      pc[j] # "spawnCold" /\ pc'[j] = "spawnCold" =>
        (Held(j) \cup scope[j] \cup reap[j]) \cap live' \subseteq Unkillable
<1>1. ASSUME CleanInv, Next, NEW j \in Job PROVE Clean(j)
  <2> SUFFICES ASSUME pc[j] # "spawnCold", pc'[j] = "spawnCold" PROVE Clean(j)
    OBVIOUS
  <2>0. /\ ScopeWell(j) /\ None \notin live /\ scope[j] \subseteq live /\ wp[j] \in Proc \cup {None}
        /\ pc[j] \notin Reading => wp[j] = None
    BY <1>1, HeldFacts, PoolAssumption DEF CleanInv, RunnerInv, RunnerTypeOK, PoolTypeOK
  <2>1. \/ pc[j] \in {"off", "spawnWarm"} \/ (pc[j] = "over" /\ stale[j])
        \/ pc[j] = "opening" /\ wp[j] \notin live /\ live' = live
        \/ pc[j] = "failing" /\ reap[j] \subseteq Unkillable
    BY <1>1, ColdComesFrom
  <2> QED
    BY <2>0, <2>1 DEF ScopeWell, Held, Reading, Warm, Retiring
<1>2. CleanInv /\ [Next]_vars =>
        [\A j \in Job : pc[j] # "spawnCold" /\ pc'[j] = "spawnCold" =>
           (Held(j) \cup scope[j] \cup reap[j]) \cap live' \subseteq Unkillable]_vars
  BY <1>1
<1> QED
  BY <1>2, CleanInvariance, PTL DEF Spec, FallbackIsClean

-----------------------------------------------------------------------------
(* Liveness.  The fairness a theorem needs is written out: the action is   *)
(* again and again either taken or has nothing to do, the guard being a    *)
(* predicate instead of ENABLED.                                           *)

(* The idle timer of p, when one is set, fires.                            *)
TimerFires(p) == []<>(p \notin timer) \/ []<><<IdleTimeout(p)>>_vars

(* The timer's process leaves the pool.                                    *)
LEMMA ExpiryTakes ==
  ASSUME CleanInv, NEW p \in Proc, IdleTimeout(p) PROVE p \notin Idle'
<1>1. OwnSlot(p) \in SUBSET Slot /\ Pop(OwnSlot(p)) /\ OwnSlot(p) # {} /\ PoolInv
  BY DEF IdleTimeout, Expire, OwnSlot, CleanInv, RunnerInv
<1>2. Idle' = Idle \ {idle[x] : x \in OwnSlot(p)}
  BY <1>1, PopTakes
<1> QED
  BY <1>1, <1>2 DEF OwnSlot

LEMMA TimerMatches == CleanInv => timer = Idle
BY DEF CleanInv, RunnerInv, PoolInv, TimersMatchIdle

(* A parked process does not stay parked: it is used or displaced, or its  *)
(* idle timer fires (_expire_later).                                       *)
THEOREM ParkedProcessesLeave ==
  Spec /\ (\A p \in Proc : TimerFires(p)) => ParkedLeaves
<1> SUFFICES ASSUME NEW p \in Proc
             PROVE  Spec /\ TimerFires(p) => (p \in Idle ~> p \notin Idle)
  BY Zenon DEF ParkedLeaves
<1>1. CleanInv => (p \notin timer => p \notin Idle)
  BY TimerMatches
<1>2. CleanInv /\ <<IdleTimeout(p)>>_vars => (p \notin Idle)'
  BY ExpiryTakes
<1> QED
  BY <1>1, <1>2, CleanInvariance, PTL DEF TimerFires

(* Of the processes r waits for, those that can be killed are: SIGTERM,    *)
(* 5 s, SIGKILL (_terminate_processes).                                    *)
Killed(r) == \E p \in reap[r] \ Unkillable : ProcessExits(p)
Kills(r) == []<>(reap[r] \ Unkillable = {}) \/ []<><<Killed(r)>>_vars

(* A retirement in the background is of the one process it is named after. *)
OwnRetirement == \A p \in Proc : reap[p] \subseteq {p}

(* Only the end of the process ends it, or giving up an unkillable one.    *)
LEMMA RetirementStays ==
  ASSUME CleanInv, OwnRetirement, [Next]_vars, NEW p \in Proc
  PROVE  /\ reap'[p] \subseteq {p}
         /\ p \in reap[p] => p \in reap'[p] \/ p \notin live' \/ p \in Unkillable
<1> DEFINE Ok == /\ reap'[p] \subseteq {p}
                 /\ p \in reap[p] => p \in reap'[p] \/ p \notin live' \/ p \in Unkillable
<1>0. /\ reap \in [Reaper -> SUBSET live] /\ p \in Reaper /\ p \notin Job /\ p # Shutdown
      /\ reap[p] \subseteq {p}
  BY RunnerAssumption DEF CleanInv, RunnerInv, RunnerTypeOK, Reaper, OwnRetirement
<1>1. ASSUME reap'[p] = reap[p] PROVE Ok
  BY <1>0, <1>1
<1>2. ASSUME NEW r \in Reaper, NEW P, BeginReap(r, P), r # p \/ P = {p} PROVE Ok
  <2>1. CASE r # p
    BY <1>0, <1>1, <1>2, <2>1 DEF BeginReap
  <2>2. CASE r = p
    <3>1. reap'[p] = {p} \cap live
      BY <1>0, <1>2, <2>2 DEF BeginReap
    <3>2. p \in reap[p] => p \in live
      BY <1>0
    <3> QED
      BY <3>1, <3>2
  <2> QED
    BY <2>1, <2>2
<1>3. ASSUME NEW r \in Reaper, ReapOver(r) PROVE Ok
  <2>1. CASE r # p
    BY <1>0, <1>1, <1>3, <2>1 DEF ReapOver
  <2>2. CASE r = p
    BY <1>0, <1>3, <2>2 DEF ReapOver
  <2> QED
    BY <2>1, <2>2
<1>4. ASSUME NEW j \in Job, NEW P, NEW a, NEW b, Retire(j, P, a, b) PROVE Ok
  <2>1. j \in Reaper /\ j # p
    BY <1>0 DEF Reaper
  <2> QED
    BY <1>1, <1>2, <1>4, <2>1 DEF Retire
<1>5. ASSUME NEW j \in Job, JobStep(j) PROVE Ok
  <2>0. j \in Reaper /\ j # p
    BY <1>0 DEF Reaper
  <2>1. CASE OpeningFails(j) \/ StreamBreaks(j) \/ StderrRead(j) \/ TurnCompletes(j) \/ ColdEnds(j)
    BY <1>4, <2>1 DEF OpeningFails, StreamBreaks, StderrRead, TurnCompletes, ColdEnds, Abandon
  <2>2. CASE Retired(j) \/ TimeoutHandled(j)
    BY <1>3, <2>0, <2>2 DEF Retired, TimeoutHandled
  <2>3. CASE Timeout(j)
    <3>1. CASE TimeoutDrops(j)
      BY <1>0, <1>1, <2>0, <3>1 DEF TimeoutDrops
    <3>2. CASE TimeoutUnwinds(j) \/ TimeoutSwallowed(j)
      BY <1>4, <3>2 DEF TimeoutUnwinds, TimeoutSwallowed, Abandon
    <3> QED
      BY <2>3, <3>1, <3>2 DEF Timeout
  <2>4. CASE HandleTimeout(j)
    BY <1>2, <2>0, <2>4 DEF HandleTimeout
  <2>5. CASE SpawnWarm(j) \/ SpawnCold(j) \/ Retry(j)
    BY <1>1, <2>5 DEF SpawnWarm, SpawnCold, Spawned, Retry, Attempt
  <2>6. CASE \/ SpawnWarmFails(j) \/ FirstEvent(j) \/ TurnErrs(j) \/ ExitSeen(j)
             \/ SpawnColdFails(j) \/ Finish(j) \/ StreamDropped(j)
    BY <1>1, <2>6 DEF SpawnWarmFails, FirstEvent, TurnErrs, ExitSeen, SpawnColdFails, Finish,
                      StreamDropped, procVars
  <2> QED
    BY <1>5, <2>1, <2>2, <2>3, <2>4, <2>5, <2>6 DEF JobStep
<1>6. ASSUME NEW j \in Job, NEW k \in Key, NEW s \in Session \cup {None}, Start(j, k, s) PROVE Ok
  BY <1>1, <1>6 DEF Start, Attempt
<1>7. ASSUME NEW q \in Proc, IdleTimeout(q) \/ Finalised(q) \/ BackgroundRetired(q) PROVE Ok
  <2>1. q \in Reaper
    BY DEF Reaper
  <2> QED
    BY <1>2, <1>3, <1>7, <2>1 DEF IdleTimeout, Finalised, BackgroundRetired
<1>8. ASSUME NEW q \in Proc, ProcessExits(q) PROVE Ok
  <2>1. reap'[p] = reap[p] \ {q} /\ live' = live \ {q}
    BY <1>0, <1>8 DEF ProcessExits, Exit
  <2> QED
    BY <1>0, <2>1
<1>9. CASE TerminateAll \/ TerminateAllGivesUp
  <2>1. Shutdown \in Reaper /\ Shutdown # p
    BY <1>0 DEF Reaper
  <2> QED
    BY <1>2, <1>3, <1>9, <2>1 DEF TerminateAll, TerminateAllGivesUp
<1>10. ASSUME (\E s \in Session : Release(s)) \/ UNCHANGED vars PROVE Ok
  BY <1>1, <1>10 DEF Release, vars, procVars
<1> QED
  BY <1>5, <1>6, <1>7, <1>8, <1>9, <1>10 DEF Next

LEMMA OwnRetirements == Spec => []OwnRetirement
<1>1. Init => OwnRetirement
  BY DEF Init, OwnRetirement, Reaper
<1>2. CleanInv /\ OwnRetirement /\ [Next]_vars => OwnRetirement'
  BY RetirementStays DEF OwnRetirement
<1> QED
  BY <1>1, <1>2, CleanInvariance, PTL DEF Spec

(* What an idle timer or a finaliser retires does exit: no deadline, no    *)
(* shutdown and no other retirement gets in the way.                       *)
THEOREM RetiredProcessesDie ==
  Spec /\ (\A r \in Reaper : Kills(r)) => ExpiredDies
<1> SUFFICES ASSUME NEW p \in Proc \ Unkillable
             PROVE  Spec /\ Kills(p) => (p \in reap[p] ~> p \notin live)
  <2>1. \A p \in Proc \ Unkillable : p \in Reaper
    BY DEF Reaper
  <2> QED
    BY <2>1, Zenon DEF ExpiredDies
<1>1. CleanInv /\ OwnRetirement /\ p \in reap[p] /\ [Next]_vars =>
        (p \in reap[p])' \/ (p \notin live)'
  BY RetirementStays
<1>2. CleanInv /\ OwnRetirement /\ p \in reap[p] /\ <<Killed(p)>>_vars => (p \notin live)'
  BY DEF OwnRetirement, Killed, ProcessExits, Exit
<1>3. p \in reap[p] => ~(reap[p] \ Unkillable = {})
  OBVIOUS
<1> QED
  BY <1>1, <1>2, <1>3, CleanInvariance, OwnRetirements, PTL DEF Kills, Spec

-----------------------------------------------------------------------------
(* The life of a job.                                                      *)
Suspended == PC \ {"off", "over", "expired", "reaping"}
Single(S) == \A p, q \in S : p = q

(* What is known of a job's deadline and of its conversation.              *)
LifeWell(j) ==
  /\ pc[j] = "off" <=> deadline[j] = "none"
  /\ pc[j] \in {"expired", "reaping"} => deadline[j] = "fired"
  /\ deadline[j] = "fired" => pc[j] \in {"closing", "coldEnd", "expired", "reaping"}
                              /\ Single(reap[j])
  /\ ask[j] # None /\ ask[j][2] = None => ~stale[j]
LifeInv == \A j \in Job : LifeWell(j)

(* What one step does with a job.                                          *)
Keeps(j) == ask'[j] = ask[j] /\ stale'[j] = stale[j]
Untouched(j) ==
  pc'[j] = pc[j] /\ deadline'[j] = deadline[j] /\ Keeps(j) /\ reap'[j] \subseteq reap[j]
Begins(j) ==
  /\ \/ pc[j] = "off" /\ deadline'[j] = "armed"
     \/ pc[j] = "over" /\ stale[j] /\ deadline'[j] = deadline[j]
  /\ pc[j] = "over" => ask'[j][2] = None
  /\ pc'[j] \in Suspended /\ ~stale'[j]
Advances(j) ==
  /\ pc[j] \in Suspended /\ deadline[j] # "fired"
  /\ pc'[j] \in Suspended \cup {"over"} /\ deadline'[j] = deadline[j] /\ ask'[j] = ask[j]
  /\ stale'[j] => stale[j] \/ ask[j][2] # None
Fires(j) ==
  /\ pc[j] \in Suspended /\ deadline[j] = "armed"
  /\ pc'[j] \in {"closing", "coldEnd", "expired"} /\ deadline'[j] = "fired" /\ Keeps(j)
  /\ Single(reap'[j])
Swallows(j) ==
  /\ pc[j] = "stderrWait" /\ deadline[j] = "armed"
  /\ pc'[j] \in {"closing", "over"} /\ deadline'[j] = "lost" /\ ask'[j] = ask[j]
  /\ stale'[j] => stale[j] \/ ask[j][2] # None
Unwinds(j) ==
  /\ pc[j] \in {"closing", "coldEnd"} /\ deadline[j] = "fired"
  /\ pc'[j] = "expired" /\ deadline'[j] = "fired" /\ Keeps(j) /\ reap'[j] = {}
Reaps(j) ==
  /\ pc[j] = "expired"
  /\ pc'[j] = "reaping" /\ deadline'[j] = deadline[j] /\ Keeps(j) /\ Single(reap'[j])
Ends(j) ==
  /\ pc[j] \in {"streaming", "cold", "reaping"} \/ (pc[j] = "over" /\ ~stale[j])
  /\ pc'[j] = "off" /\ deadline'[j] = "none" /\ ~stale'[j]

Moves(j) ==
  \/ Untouched(j) \/ Begins(j) \/ Advances(j) \/ Fires(j) \/ Swallows(j) \/ Unwinds(j)
  \/ Reaps(j) \/ Ends(j)

LEMMA JobTypes ==
  ASSUME CleanInv, NEW j \in Job
  PROVE  /\ pc \in [Job -> PC] /\ wp \in [Job -> Proc \cup {None}] /\ stale \in [Job -> BOOLEAN]
         /\ ask \in [Job -> (Key \X (Session \cup {None})) \cup {None}]
         /\ deadline \in [Job -> {"none", "armed", "fired", "lost"}]
         /\ scope \in [Job -> SUBSET live] /\ reap \in [Reaper -> SUBSET live]
         /\ j \in Reaper /\ j \notin Proc /\ j # Shutdown
BY RunnerAssumption DEF CleanInv, RunnerInv, RunnerTypeOK, Reaper

(* What the deadline does, wherever it finds the job.                      *)
LEMMA DeadlineMoves ==
  ASSUME CleanInv, NEW j \in Job, Timeout(j)
  PROVE  Fires(j) \/ Swallows(j)
<1> USE JobTypes
<1>0. deadline[j] = "armed"
  BY DEF Timeout
<1>1. CASE TimeoutDrops(j)
  BY <1>0, <1>1 DEF TimeoutDrops, Goto, Fires, Keeps, Single, Suspended, PC, Retiring
<1>2. ASSUME NEW P, NEW a, NEW b, Retire(j, P, a, b), reap[j] = {}
      PROVE  pc'[j] \in {a, b} /\ (Single(P) => Single(reap'[j]))
  BY <1>2 DEF Retire, BeginReap, Goto, Single
<1>3. CASE TimeoutUnwinds(j)
  <2>1. reap[j] = {} /\ Single({wp[j]})
    BY <1>3 DEF TimeoutUnwinds, CleanInv, ScopeWell, Retiring, Single
  <2>2. pc'[j] \in {"closing", "coldEnd", "expired"} /\ Single(reap'[j]) /\ Keeps(j)
    BY <1>2, <1>3, <2>1 DEF TimeoutUnwinds, Abandon, Keeps
  <2> QED
    BY <1>0, <1>3, <2>2 DEF TimeoutUnwinds, Fires, Suspended, PC, Retiring
<1>4. CASE TimeoutSwallowed(j)
  <2>1. reap[j] = {}
    BY <1>4 DEF TimeoutSwallowed, CleanInv, ScopeWell, Retiring
  <2>2. pc'[j] \in {"closing", "over"} /\ ask' = ask
    BY <1>2, <1>4, <2>1 DEF TimeoutSwallowed, Abandon
  <2>3. stale'[j] => ask[j][2] # None
    BY <1>4 DEF TimeoutSwallowed, MaybeStale
  <2> QED
    BY <1>0, <1>4, <2>2, <2>3 DEF TimeoutSwallowed, Swallows
<1> QED
  BY <1>1, <1>3, <1>4 DEF Timeout

(* A step of the job is one of the moves.                                  *)
LEMMA JobMoves ==
  ASSUME CleanInv, LifeInv, NEW j \in Job, JobStep(j)
  PROVE  Moves(j)
<1> USE JobTypes
<1>0. LifeWell(j) /\ deadline[j] \in {"none", "armed", "fired", "lost"}
  BY DEF LifeInv
<1>1. ASSUME NEW label \in Suspended \cup {"over"}, pc[j] \in Suspended, deadline[j] # "fired",
             pc'[j] = label, deadline' = deadline, ask' = ask,
             stale' = stale \/ MaybeStale(j)
      PROVE  Moves(j)
  BY <1>1 DEF Moves, Advances, MaybeStale
<1>2. ASSUME NEW P, NEW a, NEW b, Retire(j, P, a, b) PROVE pc'[j] \in {a, b}
  BY <1>2 DEF Retire, Goto
<1>3. ASSUME NEW k, NEW s, Attempt(j, k, s)
      PROVE  pc'[j] \in Suspended /\ ~stale'[j] /\ ask'[j] = <<k, s>>
  BY <1>3 DEF Attempt, Goto, Suspended, PC, Retiring
<1>4. ASSUME JobOver(j) PROVE pc'[j] = "off" /\ deadline'[j] = "none" /\ ~stale'[j]
  BY <1>4 DEF JobOver, Goto
<1>5. pc[j] \in {"spawnWarm", "spawnCold", "opening", "streaming", "exitWait", "stderrWait", "cold"}
        => deadline[j] # "fired" /\ pc[j] \in Suspended
  BY <1>0 DEF LifeWell, Suspended, PC, Retiring
<1>6. {"spawnCold", "opening", "streaming", "exitWait", "stderrWait", "cold"} \cup Retiring
        \subseteq Suspended
  BY DEF Suspended, PC, Retiring
<1>7. CASE OpeningFails(j) \/ StreamBreaks(j) \/ StderrRead(j)
  BY <1>1, <1>2, <1>5, <1>6, <1>7 DEF OpeningFails, StreamBreaks, StderrRead, Abandon, Retiring
<1>8. CASE TurnCompletes(j) \/ ColdEnds(j)
  BY <1>1, <1>2, <1>5, <1>6, <1>8 DEF TurnCompletes, ColdEnds, Retiring
<1>9. CASE SpawnWarm(j) \/ SpawnCold(j)
  BY <1>1, <1>5, <1>6, <1>9 DEF SpawnWarm, SpawnCold, Spawned, Goto
<1>10. CASE SpawnWarmFails(j) \/ FirstEvent(j) \/ TurnErrs(j) \/ ExitSeen(j) \/ SpawnColdFails(j)
  BY <1>1, <1>5, <1>6, <1>10
     DEF SpawnWarmFails, FirstEvent, TurnErrs, ExitSeen, SpawnColdFails, Goto
<1>11. CASE Retired(j)
  <2>1. pc'[j] = Resumes(j) /\ reap'[j] = {} /\ deadline' = deadline /\ ask' = ask /\ stale' = stale
        /\ pc[j] \in Retiring
    BY <1>11 DEF Retired, ReapOver, Goto
  <2>2. CASE deadline[j] = "fired"
    <3>1. Resumes(j) = "expired"
      BY <2>2 DEF Resumes
    <3>2. pc[j] \in {"closing", "coldEnd"}
      BY <1>0, <2>1, <2>2 DEF LifeWell, Retiring
    <3> QED
      BY <2>1, <2>2, <3>1, <3>2 DEF Moves, Unwinds, Keeps
  <2>3. CASE deadline[j] # "fired"
    <3>1. Resumes(j) \in {"spawnCold", "over"}
      BY <2>3, Zenon DEF Resumes
    <3> QED
      BY <1>1, <1>6, <2>1, <2>3, <3>1
  <2> QED
    BY <2>2, <2>3
<1>12. CASE Retry(j)
  BY <1>3, <1>12 DEF Retry, Moves, Begins
<1>13. CASE Finish(j) \/ StreamDropped(j) \/ TimeoutHandled(j)
  <2>1. JobOver(j) /\ (pc[j] \in {"streaming", "cold", "reaping"} \/ (pc[j] = "over" /\ ~stale[j]))
    BY <1>13 DEF Finish, StreamDropped, TimeoutHandled
  <2> QED
    BY <1>4, <2>1 DEF Moves, Ends
<1>14. CASE Timeout(j)
  BY <1>14, DeadlineMoves DEF Moves
<1>15. CASE HandleTimeout(j)
  <2>1. Single(scope[j])
    BY DEF CleanInv, ScopeWell, Single
  <2>2. reap'[j] = scope[j] \cap live
    BY <1>15 DEF HandleTimeout, BeginReap
  <2> QED
    BY <1>15, <2>1, <2>2 DEF HandleTimeout, Goto, Moves, Reaps, Keeps, Single
<1> QED
  BY <1>7, <1>8, <1>9, <1>10, <1>11, <1>12, <1>13, <1>14, <1>15 DEF JobStep

(* So is anybody's: other jobs, timers and commands leave it untouched.    *)
LEMMA AnyMoves ==
  ASSUME CleanInv, LifeInv, [Next]_vars, NEW j \in Job
  PROVE  Moves(j)
<1>0. /\ pc \in [Job -> PC] /\ wp \in [Job -> Proc \cup {None}] /\ stale \in [Job -> BOOLEAN]
      /\ ask \in [Job -> (Key \X (Session \cup {None})) \cup {None}]
      /\ deadline \in [Job -> {"none", "armed", "fired", "lost"}]
      /\ scope \in [Job -> SUBSET live] /\ reap \in [Reaper -> SUBSET live]
      /\ j \in Reaper /\ j \notin Proc /\ j # Shutdown
  BY JobTypes
<1> USE <1>0
<1>1. ASSUME NEW i \in Job, i # j, JobStep(i) PROVE Untouched(j)
  <2>0. i \in Reaper
    BY DEF Reaper
  <2>1. ASSUME NEW label, Goto(i, label) PROVE pc'[j] = pc[j]
    BY <1>1, <2>1 DEF Goto
  <2>2. ASSUME NEW P, BeginReap(i, P) PROVE reap'[j] = reap[j]
    BY <1>1, <2>0, <2>2 DEF BeginReap
  <2>3. ASSUME ReapOver(i) PROVE reap'[j] = reap[j]
    BY <1>1, <2>0, <2>3 DEF ReapOver
  <2>4. ASSUME NEW P, NEW a, NEW b, Retire(i, P, a, b) PROVE pc'[j] = pc[j] /\ reap'[j] = reap[j]
    BY <2>1, <2>2, <2>4 DEF Retire
  <2>5. ASSUME MaybeStale(i) PROVE stale'[j] = stale[j]
    BY <1>1, <2>5 DEF MaybeStale
  <2>6. ASSUME NEW k, NEW s, Attempt(i, k, s) PROVE pc'[j] = pc[j] /\ Keeps(j) /\ reap'[j] = reap[j]
    BY <1>1, <2>1, <2>6 DEF Attempt, Keeps
  <2>7. ASSUME JobOver(i) PROVE pc'[j] = pc[j] /\ Keeps(j) /\ deadline'[j] = deadline[j]
    BY <1>1, <2>1, <2>7 DEF JobOver, Keeps
  <2> DEFINE Ok == pc'[j] = pc[j] /\ deadline'[j] = deadline[j] /\ Keeps(j) /\ reap'[j] = reap[j]
  <2> SUFFICES Ok
    BY DEF Untouched
  <2>8. CASE OpeningFails(i) \/ StreamBreaks(i) \/ StderrRead(i) \/ TurnCompletes(i) \/ ColdEnds(i)
    <3>1. pc'[j] = pc[j] /\ reap'[j] = reap[j]
      BY <2>4, <2>8 DEF OpeningFails, StreamBreaks, StderrRead, TurnCompletes, ColdEnds, Abandon
    <3>2. ask' = ask /\ deadline' = deadline /\ stale'[j] = stale[j]
      BY <2>5, <2>8 DEF OpeningFails, StreamBreaks, StderrRead, TurnCompletes, ColdEnds, Abandon
    <3> QED
      BY <3>1, <3>2 DEF Keeps
  <2>9. CASE SpawnWarm(i) \/ SpawnCold(i)
    BY <2>1, <2>9 DEF SpawnWarm, SpawnCold, Spawned, Keeps
  <2>10. CASE SpawnWarmFails(i) \/ FirstEvent(i) \/ TurnErrs(i) \/ ExitSeen(i) \/ SpawnColdFails(i)
    BY <2>1, <2>10
       DEF SpawnWarmFails, FirstEvent, TurnErrs, ExitSeen, SpawnColdFails, Keeps, procVars
  <2>11. CASE Retired(i)
    BY <2>1, <2>3, <2>11 DEF Retired, Keeps
  <2>12. CASE Retry(i)
    BY <2>6, <2>12 DEF Retry
  <2>13. CASE Finish(i) \/ StreamDropped(i) \/ TimeoutHandled(i)
    BY <2>3, <2>7, <2>13 DEF Finish, StreamDropped, TimeoutHandled
  <2>14. CASE Timeout(i)
    <3>1. CASE TimeoutDrops(i)
      BY <1>1, <2>0, <2>1, <3>1 DEF TimeoutDrops, Keeps
    <3>2. CASE TimeoutUnwinds(i) \/ TimeoutSwallowed(i)
      <4>1. pc'[j] = pc[j] /\ reap'[j] = reap[j] /\ ask' = ask
        BY <2>4, <3>2 DEF TimeoutUnwinds, TimeoutSwallowed, Abandon
      <4>2. deadline'[j] = deadline[j] /\ stale'[j] = stale[j]
        BY <1>1, <2>5, <3>2 DEF TimeoutUnwinds, TimeoutSwallowed
      <4> QED
        BY <4>1, <4>2 DEF Keeps
    <3> QED
      BY <2>14, <3>1, <3>2 DEF Timeout
  <2>15. CASE HandleTimeout(i)
    BY <2>1, <2>2, <2>15 DEF HandleTimeout, Keeps
  <2> QED
    BY <1>1, <2>8, <2>9, <2>10, <2>11, <2>12, <2>13, <2>14, <2>15 DEF JobStep
<1>2. ASSUME NEW i \in Job, NEW k \in Key, NEW s \in Session \cup {None}, Start(i, k, s)
      PROVE  Moves(j)
  <2>1. CASE i = j
    <3>1. pc'[j] \in Suspended /\ ~stale'[j]
      BY <1>2, <2>1 DEF Start, Attempt, Goto, Suspended, PC, Retiring
    <3>2. pc[j] = "off" /\ deadline'[j] = "armed"
      BY <1>2, <2>1 DEF Start
    <3> QED
      BY <3>1, <3>2 DEF Moves, Begins
  <2>2. CASE i # j
    <3>1. pc'[j] = pc[j] /\ Keeps(j) /\ reap' = reap
      BY <1>2, <2>2 DEF Start, Attempt, Goto, Keeps
    <3>2. deadline'[j] = deadline[j]
      BY <1>2, <2>2 DEF Start
    <3> QED
      BY <3>1, <3>2 DEF Moves, Untouched
  <2> QED
    BY <2>1, <2>2
<1>3. ASSUME UNCHANGED jobVars, NEW r \in Reaper \ {j}, NEW P, BeginReap(r, P) \/ ReapOver(r)
      PROVE  Untouched(j)
  BY <1>3 DEF jobVars, BeginReap, ReapOver, Untouched, Keeps
<1>4. ASSUME NEW p \in Proc, IdleTimeout(p) \/ Finalised(p) \/ BackgroundRetired(p)
      PROVE  Untouched(j)
  <2>1. p \in Reaper \ {j}
    BY DEF Reaper
  <2> QED
    BY <1>3, <1>4, <2>1 DEF IdleTimeout, Finalised, BackgroundRetired
<1>5. ASSUME NEW p \in Proc, ProcessExits(p) PROVE Untouched(j)
  BY <1>5 DEF ProcessExits, jobVars, Untouched, Keeps
<1>6. CASE TerminateAll \/ TerminateAllGivesUp
  <2>1. Shutdown \in Reaper \ {j}
    BY DEF Reaper
  <2> QED
    BY <1>3, <1>6, <2>1 DEF TerminateAll, TerminateAllGivesUp, Moves
<1>7. CASE (\E s \in Session : Release(s)) \/ UNCHANGED vars
  BY <1>7 DEF Release, vars, jobVars, procVars, Untouched, Keeps, Moves
<1>8. ASSUME Untouched(j) PROVE Moves(j)
  BY <1>8 DEF Moves
<1> QED
  BY <1>1, <1>2, <1>4, <1>5, <1>6, <1>7, <1>8, JobMoves DEF Next

(* The moves keep what is known of the job.                                *)
LEMMA MovesKeep ==
  ASSUME CleanInv, LifeInv, NEW j \in Job, Moves(j), CleanInv' PROVE LifeWell(j)'
<1>0. /\ LifeWell(j) /\ pc[j] \in PC /\ deadline[j] \in {"none", "armed", "fired", "lost"}
      /\ ask[j] \in (Key \X (Session \cup {None})) \cup {None}
      /\ ask'[j] \in (Key \X (Session \cup {None})) \cup {None}
  BY JobTypes DEF LifeInv, CleanInv, RunnerInv, RunnerTypeOK
<1>1. pc[j] # "off" => ask[j] # None
  BY DEF CleanInv, RunnerInv, HoldInv, HoldsWell
<1>2. CASE Untouched(j) \/ Reaps(j) \/ Unwinds(j) \/ Fires(j)
  BY <1>0, <1>2 DEF Untouched, Reaps, Unwinds, Fires, Keeps, LifeWell, Suspended, Single
<1>3. CASE Begins(j) \/ Ends(j)
  BY <1>0, <1>3 DEF Begins, Ends, LifeWell, Suspended, PC, Retiring
<1>4. CASE Advances(j) \/ Swallows(j)
  BY <1>0, <1>1, <1>4 DEF Advances, Swallows, LifeWell, Suspended, PC, Retiring
<1> QED
  BY <1>2, <1>3, <1>4 DEF Moves

LEMMA LifeInvariance == Spec => []LifeInv
<1>1. Init => LifeInv
  BY DEF Init, LifeInv, LifeWell
<1>2. CleanInv /\ CleanInv' /\ LifeInv /\ [Next]_vars => LifeInv'
  BY AnyMoves, MovesKeep DEF LifeInv
<1> QED
  BY <1>1, <1>2, CleanInvariance, PTL DEF Spec

-----------------------------------------------------------------------------
(* What keeps job j going: its deadline fires, it goes on when its wait or *)
(* its stream is over, and its timeout is handled.                         *)
Due(j) == deadline[j] = "armed" /\ pc[j] # "over"
DeadlineFires(j) == []<>(~Due(j)) \/ []<><<Timeout(j)>>_vars
Ready(j) == pc[j] = "over" \/ (pc[j] \in Retiring /\ reap[j] \subseteq Unkillable)
GoOn(j) == Retired(j) \/ Retry(j) \/ Finish(j)
GoesOn(j) == []<>(~Ready(j)) \/ []<><<GoOn(j)>>_vars
Called(j) == pc[j] = "expired" \/ (pc[j] = "reaping" /\ reap[j] \subseteq Unkillable)
Handle(j) == HandleTimeout(j) \/ TimeoutHandled(j)
Handles(j) == []<>(~Called(j)) \/ []<><<Handle(j)>>_vars

Served(j) == DeadlineFires(j) /\ GoesOn(j) /\ Handles(j)

(* The stations of a job between its start and its end.                    *)
Over(j) == pc[j] = "off" \/ deadline[j] = "lost"
Fresh(j) == ask[j][2] = None
Resuming(j) == pc[j] \in Suspended /\ deadline[j] = "armed" /\ ~Fresh(j)
Starting(j) == pc[j] \in Suspended /\ deadline[j] = "armed" /\ Fresh(j)
Answered(j) == pc[j] = "over" /\ deadline[j] = "armed" /\ ~Fresh(j)
Final(j) == pc[j] = "over" /\ deadline[j] = "armed" /\ Fresh(j)
Leaving(j) == pc[j] \in {"closing", "coldEnd"} /\ deadline[j] = "fired"
Free(j) == reap[j] \ Unkillable = {}
Timed(j) == pc[j] = "expired"
Killing(j) == pc[j] = "reaping"

LiveInv == CleanInv /\ LifeInv

(* A job is always at one of the stations...                               *)
LEMMA Stations ==
  ASSUME LiveInv, NEW j \in Job
  PROVE  \/ Over(j) \/ Resuming(j) \/ Starting(j) \/ Answered(j) \/ Final(j) \/ Leaving(j)
         \/ Timed(j) \/ Killing(j)
<1>1. pc[j] \in PC /\ deadline[j] \in {"none", "armed", "fired", "lost"} /\ LifeWell(j)
  BY JobTypes DEF LiveInv, LifeInv
<1> QED
  BY <1>1 DEF LifeWell, Over, Resuming, Starting, Answered, Final, Leaving, Timed, Killing, Suspended

(* ...and leaves each only towards the end: the one way back, from an      *)
(* answer to a new attempt, leads to an attempt that has nothing to resume *)
(* and so cannot be retried.                                               *)
LEMMA StationMoves ==
  ASSUME LiveInv, [Next]_vars, NEW j \in Job
  PROVE  /\ Resuming(j) => (\/ Resuming(j) \/ Answered(j) \/ Leaving(j) \/ Timed(j) \/ Over(j))'
         /\ Answered(j) => (Answered(j) \/ Starting(j) \/ Over(j))'
         /\ Starting(j) => (\/ Starting(j) \/ Final(j) \/ Leaving(j) \/ Timed(j) \/ Over(j))'
         /\ Final(j) => (Final(j) \/ Over(j))'
         /\ Leaving(j) => (Leaving(j) \/ Timed(j))'
         /\ Leaving(j) /\ Free(j) => (Free(j) \/ Timed(j))'
         /\ Timed(j) => (Timed(j) \/ Killing(j))'
         /\ Killing(j) => (Killing(j) \/ Over(j))'
         /\ Killing(j) /\ Free(j) => (Free(j) \/ Over(j))'
<1>1. Moves(j)
  BY AnyMoves DEF LiveInv
<1>2. LifeWell(j) /\ pc[j] \in PC /\ deadline[j] \in {"none", "armed", "fired", "lost"}
  BY JobTypes DEF LiveInv, LifeInv
<1>0. pc[j] # "off" => ask[j] # None
  BY DEF LiveInv, CleanInv, RunnerInv, HoldInv, HoldsWell
<1> USE DEF Over, Resuming, Starting, Answered, Final, Leaving, Timed, Killing, Free, Fresh
<1>3. CASE Untouched(j)
  BY <1>2, <1>3 DEF Untouched, Keeps
<1>4. CASE Begins(j)
  BY <1>0, <1>2, <1>4 DEF Begins, LifeWell, Suspended
<1>5. CASE Advances(j)
  BY <1>2, <1>5 DEF Advances, LifeWell, Suspended
<1>6. CASE Fires(j) \/ Swallows(j)
  BY <1>2, <1>6 DEF Fires, Swallows, Keeps, LifeWell, Suspended
<1>7. CASE Unwinds(j) \/ Reaps(j) \/ Ends(j)
  BY <1>0, <1>2, <1>7 DEF Unwinds, Reaps, Ends, Keeps, LifeWell, Suspended
<1> QED
  BY <1>1, <1>3, <1>4, <1>5, <1>6, <1>7 DEF Moves

(* Each station has an action that must come and takes the job out of it.  *)
LEMMA FairMoves ==
  ASSUME LiveInv, NEW j \in Job
  PROVE  /\ Resuming(j) \/ Starting(j) => Due(j)
         /\ <<Timeout(j)>>_vars => (~(Resuming(j) \/ Starting(j)))'
         /\ Answered(j) \/ Final(j) \/ (Leaving(j) /\ Free(j)) => Ready(j)
         /\ Answered(j) /\ <<GoOn(j)>>_vars => (~Answered(j))'
         /\ Final(j) /\ <<GoOn(j)>>_vars => (~Final(j))'
         /\ Leaving(j) /\ <<GoOn(j)>>_vars => (~Leaving(j))'
         /\ Timed(j) \/ (Killing(j) /\ Free(j)) => Called(j)
         /\ Timed(j) /\ <<Handle(j)>>_vars => (~Timed(j))'
         /\ Killing(j) /\ <<Handle(j)>>_vars => (~Killing(j))'
         /\ (Leaving(j) \/ Killing(j)) /\ <<Killed(j)>>_vars => Free(j)'
<1> USE DEF Over, Resuming, Starting, Answered, Final, Leaving, Timed, Killing, Free, Fresh
<1>0. LifeWell(j) /\ pc[j] \in PC /\ pc \in [Job -> PC] /\ j \in Reaper
      /\ deadline \in [Job -> {"none", "armed", "fired", "lost"}] /\ reap \in [Reaper -> SUBSET live]
  BY JobTypes DEF LiveInv, LifeInv
<1>1. Resuming(j) \/ Starting(j) => Due(j)
  BY <1>0 DEF Due, Suspended
<1>2. ASSUME Timeout(j) PROVE (~(Resuming(j) \/ Starting(j)))'
  BY <1>2, DeadlineMoves DEF LiveInv, Fires, Swallows
<1>3. Answered(j) \/ Final(j) \/ (Leaving(j) /\ Free(j)) => Ready(j)
  BY DEF Ready, Retiring
<1>4. ASSUME GoOn(j)
      PROVE  /\ Answered(j) => (~Answered(j))'
             /\ Final(j) => (~Final(j))'
             /\ Leaving(j) => (~Leaving(j))'
  <2>1. CASE Retired(j)
    <3>1. pc'[j] = Resumes(j) /\ pc[j] \in Retiring
      BY <1>0, <2>1 DEF Retired, Goto
    <3>2. Leaving(j) => Resumes(j) = "expired"
      BY DEF Resumes
    <3> QED
      BY <3>1, <3>2 DEF Retiring
  <2>2. CASE Retry(j) \/ Finish(j)
    BY <1>0, <2>2 DEF Retry, Attempt, Finish, JobOver, Goto
  <2> QED
    BY <1>4, <2>1, <2>2 DEF GoOn
<1>5. Timed(j) \/ (Killing(j) /\ Free(j)) => Called(j)
  BY DEF Called
<1>6. ASSUME HandleTimeout(j) \/ TimeoutHandled(j)
      PROVE  (Timed(j) => (~Timed(j))') /\ (Killing(j) => (~Killing(j))')
  BY <1>0, <1>6 DEF HandleTimeout, TimeoutHandled, JobOver, Goto
<1>7. ASSUME Leaving(j) \/ Killing(j), Killed(j) PROVE Free(j)'
  <2>1. Single(reap[j])
    BY <1>0, <1>7 DEF LifeWell
  <2>2. PICK p \in reap[j] \ Unkillable : ProcessExits(p)
    BY <1>7 DEF Killed
  <2>3. reap'[j] = reap[j] \ {p}
    BY <1>0, <2>2 DEF ProcessExits
  <2> QED
    BY <2>1, <2>2, <2>3 DEF Single
<1> QED
  BY <1>1, <1>2, <1>3, <1>4, <1>5, <1>6, <1>7 DEF Handle

(* Every job ends, whatever the CLI does: through the deadline, its        *)
(* handler, a retirement that never ends by itself and one retry of a      *)
(* stale conversation; only a deadline swallowed in wait_stderr_drained is *)
(* excepted (wait_for and its handler, run_job).                           *)
THEOREM JobsReachTheirEnd ==
  Spec /\ (\A j \in Job : Served(j)) /\ (\A r \in Reaper : Kills(r)) => JobsEndUnlessDeadlineLost
<1> SUFFICES ASSUME NEW j \in Job
             PROVE  Spec /\ Served(j) /\ Kills(j) =>
                      (pc[j] # "off" ~> pc[j] = "off" \/ deadline[j] = "lost")
  <2>1. \A i \in Job : i \in Reaper
    BY DEF Reaper
  <2> QED
    BY <2>1, Zenon DEF JobsEndUnlessDeadlineLost
<1>1. Spec => []LiveInv
  BY CleanInvariance, LifeInvariance, PTL DEF LiveInv
<1>2. LiveInv => \/ Over(j) \/ Resuming(j) \/ Starting(j) \/ Answered(j) \/ Final(j)
                 \/ Leaving(j) \/ Timed(j) \/ Killing(j)
  BY Stations
<1>3. LiveInv /\ [Next]_vars =>
        /\ Leaving(j) => (Leaving(j) \/ Timed(j))'
        /\ Leaving(j) /\ Free(j) => (Free(j) \/ Timed(j))'
        /\ Timed(j) => (Timed(j) \/ Killing(j))'
        /\ Killing(j) => (Killing(j) \/ Over(j))'
        /\ Killing(j) /\ Free(j) => (Free(j) \/ Over(j))'
  BY StationMoves
<1>4. LiveInv /\ [Next]_vars =>
        /\ Resuming(j) => (\/ Resuming(j) \/ Answered(j) \/ Leaving(j) \/ Timed(j) \/ Over(j))'
        /\ Answered(j) => (Answered(j) \/ Starting(j) \/ Over(j))'
        /\ Starting(j) => (\/ Starting(j) \/ Final(j) \/ Leaving(j) \/ Timed(j) \/ Over(j))'
        /\ Final(j) => (Final(j) \/ Over(j))'
  BY StationMoves
<1>5. LiveInv => /\ Answered(j) \/ Final(j) \/ (Leaving(j) /\ Free(j)) => Ready(j)
                 /\ Timed(j) \/ (Killing(j) /\ Free(j)) => Called(j)
                 /\ Resuming(j) \/ Starting(j) => Due(j)
  BY FairMoves
<1>6. LiveInv /\ <<GoOn(j)>>_vars =>
        /\ Answered(j) => (~Answered(j))'
        /\ Final(j) => (~Final(j))'
        /\ Leaving(j) => (~Leaving(j))'
  BY FairMoves
<1>7. LiveInv /\ <<Handle(j)>>_vars => (Timed(j) => (~Timed(j))') /\ (Killing(j) => (~Killing(j))')
  BY FairMoves
<1>8. LiveInv /\ <<Killed(j)>>_vars => (Leaving(j) \/ Killing(j) => Free(j)')
  BY FairMoves
<1>9. LiveInv /\ <<Timeout(j)>>_vars => (~(Resuming(j) \/ Starting(j)))'
  BY FairMoves
<1>10. Spec /\ Handles(j) /\ Kills(j) => (Killing(j) ~> Over(j))
  <2>1. Spec /\ Kills(j) => (Killing(j) ~> Over(j) \/ (Killing(j) /\ Free(j)))
    BY <1>1, <1>3, <1>8, PTL DEF Spec, Kills, Free
  <2>2. Spec /\ Handles(j) => (Killing(j) /\ Free(j) ~> Over(j))
    BY <1>1, <1>3, <1>5, <1>7, PTL DEF Spec, Handles
  <2> QED
    BY <2>1, <2>2, PTL
<1>11. Spec /\ Handles(j) => (Timed(j) ~> Killing(j))
  BY <1>1, <1>3, <1>5, <1>7, PTL DEF Spec, Handles
<1>12. Spec /\ GoesOn(j) /\ Kills(j) => (Leaving(j) ~> Timed(j))
  <2>1. Spec /\ Kills(j) => (Leaving(j) ~> Timed(j) \/ (Leaving(j) /\ Free(j)))
    BY <1>1, <1>3, <1>8, PTL DEF Spec, Kills, Free
  <2>2. Spec /\ GoesOn(j) => (Leaving(j) /\ Free(j) ~> Timed(j))
    BY <1>1, <1>3, <1>5, <1>6, PTL DEF Spec, GoesOn
  <2> QED
    BY <2>1, <2>2, PTL
<1>13. Spec /\ GoesOn(j) => (Final(j) ~> Over(j)) /\ (Answered(j) ~> Starting(j) \/ Over(j))
  BY <1>1, <1>4, <1>5, <1>6, PTL DEF Spec, GoesOn
<1>14. Spec /\ DeadlineFires(j) =>
         /\ Starting(j) ~> Final(j) \/ Leaving(j) \/ Timed(j) \/ Over(j)
         /\ Resuming(j) ~> Answered(j) \/ Leaving(j) \/ Timed(j) \/ Over(j)
  BY <1>1, <1>4, <1>5, <1>9, PTL DEF Spec, DeadlineFires
<1>15. Spec /\ Served(j) /\ Kills(j) => (TRUE ~> Over(j))
  BY <1>1, <1>2, <1>10, <1>11, <1>12, <1>13, <1>14, PTL DEF Served
<1> QED
  BY <1>15, PTL DEF Over

=============================================================================
