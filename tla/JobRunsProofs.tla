--------------------------- MODULE JobRunsProofs ----------------------------
(***************************************************************************)
(* Proofs about job directories, for any number of jobs, projects and      *)
(* overlapping sweeps and any retention: no sweep takes the directory of a *)
(* job that still needs it, nor the job.json that says where it runs.      *)
(*                                                                         *)
(* What a sweep is removing belongs to a job that is over, because a job   *)
(* that is not is young by both clocks; and it stays over.                 *)
(***************************************************************************)
EXTENDS JobRuns, TLAPS

Where == {"new", "over", "prepared", "running"} \cup Waits
Young(j) == mtime[j] <= Retention /\ (created[j] = None \/ created[j] <= Retention)

RunsInv ==
  /\ RunsTypeOK
  /\ \A j \in Live : j \in there /\ Young(j)
  /\ \A j \in Job : pc[j] = "new" => created[j] = None
  /\ \A j \in Job : pc[j] \in {"prepared", "running"} => created[j] # None
  /\ \A w \in Sweeper : removing[w] # None => pc[removing[w]] = "over"
  /\ \A w \in Sweeper : \A j \in todo[w] : pc[j] # "new"

USE DEF Where, Waits

LEMMA InitHolds == RunsInit => RunsInv
<1> SUFFICES ASSUME RunsInit PROVE RunsInv
  OBVIOUS
<1> USE DEF RunsInit
<1>1. /\ pc \in [Job -> Where]
      /\ tag \in [Job -> Project \cup {Explicit, None}]
      /\ cwd \in [Job -> Place \cup {None}]
  OBVIOUS
<1>2. mtime \in [Job -> Age] /\ created \in [Job -> Age \cup {None}]
  BY JobRunsAssumption DEF Age
<1>3. todo \in [Sweeper -> SUBSET Job] /\ removing \in [Sweeper -> Job \cup {None}]
  OBVIOUS
<1>4. RunsTypeOK
  BY <1>1, <1>2, <1>3 DEF RunsTypeOK, Live
<1> QED
  BY <1>4 DEF RunsInv, Live

-----------------------------------------------------------------------------
(* A step of one job that leaves directories and sweeps alone.             *)
LEMMA JobAlone ==
  ASSUME RunsInv, NEW j \in Job, NEW label \in Where \ {"new"},
         Goto(j, label), UNCHANGED <<dirVars, gone, sweepVars>>, j \in Live,
         tag' \in [Job -> Project \cup {Explicit, None}],
         cwd' \in [Job -> Place \cup {None}],
         \A k \in Job \ {j} : cwd'[k] = cwd[k],
         label \notin {"queued", "over"} => cwd'[j] \in Place,
         label \in {"prepared", "running"} => created[j] # None,
         sess' \in Place \cup {None}
  PROVE  RunsInv'
<1> USE DEF dirVars, sweepVars
<1>1. /\ pc \in [Job -> Where]
      /\ pc' = [pc EXCEPT ![j] = label]
      /\ there \subseteq {k \in Job : pc[k] # "new"}
      /\ removing \in [Sweeper -> Job \cup {None}]
  BY DEF RunsInv, RunsTypeOK, Goto
<1>2. RunsTypeOK'
  BY <1>1 DEF RunsInv, RunsTypeOK, Age, Live
<1>3. Live' \subseteq Live
  BY <1>1 DEF Live
<1>4. \A k \in Live' : k \in there' /\ Young(k)'
  BY <1>3 DEF RunsInv, Young
<1>5. \A k \in Job : pc'[k] = "new" => pc[k] = "new"
  BY <1>1
<1>6. \A w \in Sweeper : removing[w] # None => removing[w] # j
  BY DEF RunsInv, Live
<1> QED
  BY <1>1, <1>2, <1>4, <1>5, <1>6 DEF RunsInv

LEMMA OverTypes ==
  ASSUME RunsInv, NEW j \in Job, Over(j)
  PROVE  /\ Goto(j, "over")
         /\ tag' \in [Job -> Project \cup {Explicit, None}]
         /\ cwd' \in [Job -> Place \cup {None}]
         /\ \A k \in Job \ {j} : cwd'[k] = cwd[k]
BY DEF Over, RunsInv, RunsTypeOK

(* Preparing a job writes its two files: it is young again.                *)
LEMMA WriteKeeps == ASSUME RunsInv, NEW j \in Job, Write(j) PROVE RunsInv'
<1> USE DEF sweepVars
<1>1. /\ pc \in [Job -> Where] /\ pc[j] = "checked"
      /\ pc' = [pc EXCEPT ![j] = "prepared"]
      /\ mtime' = [mtime EXCEPT ![j] = 0] /\ mtime \in [Job -> Age]
      /\ created' = [created EXCEPT ![j] = 0] /\ created \in [Job -> Age \cup {None}]
      /\ removing \in [Sweeper -> Job \cup {None}]
  BY DEF RunsInv, RunsTypeOK, Goto, Write
<1>2. 0 \in Age /\ 0 <= Retention /\ 0 # None
  BY JobRunsAssumption DEF Age
<1>3. \A k \in Live' : k \in Live /\ (k = j \/ (mtime'[k] = mtime[k] /\ created'[k] = created[k]))
  BY <1>1 DEF Live
<1>4. j \in Live /\ pc[j] # "queued"
  BY <1>1 DEF Live
<1>5. RunsTypeOK'
  <2>1. \A k \in Live' : pc'[k] # "queued" => cwd[k] \in Place
    BY <1>1, <1>3, <1>4 DEF RunsInv, RunsTypeOK
  <2>2. there \subseteq {k \in Job : pc'[k] # "new"}
    BY <1>1 DEF RunsInv, RunsTypeOK
  <2> QED
    BY <1>1, <1>2, <2>1, <2>2 DEF RunsInv, RunsTypeOK, Write
<1>6. \A k \in Live' : k \in there' /\ Young(k)'
  BY <1>1, <1>2, <1>3 DEF RunsInv, Young, Write
<1>7. \A k \in Job : /\ pc'[k] = "new" => pc[k] = "new" /\ created'[k] = created[k]
                     /\ pc'[k] \in {"prepared", "running"} => created'[k] # None
  BY <1>1, <1>2 DEF RunsInv
<1>8. \A w \in Sweeper : removing[w] # None => removing[w] # j
  BY <1>1 DEF RunsInv
<1> QED
  BY <1>1, <1>5, <1>6, <1>7, <1>8 DEF RunsInv, Write

LEMMA JobStepKeeps ==
  ASSUME RunsInv, NEW j \in Job, JobStep(j) PROVE RunsInv'
<1>0. RunsTypeOK /\ j \in Place
  BY DEF RunsInv, Place
<1>1. CASE Resolve(j)
  <2>1. (IF Wanted(j) = None THEN j ELSE Wanted(j)) \in Place
    BY <1>0, JobRunsAssumption DEF Wanted, RunsTypeOK, Place
  <2> QED
    BY <1>0, <1>1, <2>1, JobAlone DEF Resolve, Live, RunsTypeOK
<1>2. CASE Check(j)
  BY <1>0, <1>2, JobAlone DEF Check, Live, RunsTypeOK
<1>9. CASE StartAfresh(j)
  BY <1>0, <1>9, JobAlone DEF StartAfresh, Live, RunsTypeOK
<1>10. CASE Write(j)
  BY <1>10, WriteKeeps
<1>3. CASE Refuse(j)
  BY <1>0, <1>3, OverTypes, JobAlone DEF Refuse, Live, RunsTypeOK
<1>4. CASE Run(j)
  <2>1. created[j] # None /\ cwd[j] \in Place /\ j \in Live
    BY <1>0, <1>4 DEF Run, RunsInv, RunsTypeOK, Live
  <2> QED
    BY <1>0, <1>4, <2>1, JobAlone DEF Run, RunsIn, RunsTypeOK
<1>5. CASE RunFindsNone(j)
  BY <1>0, <1>5, OverTypes, JobAlone DEF RunFindsNone, Live, RunsTypeOK
<1>6. CASE RunIsStale(j)
  <2>1. created[j] # None /\ cwd[j] \in Place /\ j \in Live
    BY <1>0, <1>6 DEF RunIsStale, RunsInv, RunsTypeOK, Live
  <2> QED
    BY <1>0, <1>6, <2>1, JobAlone DEF RunIsStale, RunsTypeOK
<1>7. CASE RunEnds(j)
  <2>1. sess' \in Place \cup {None}
    BY <1>0, <1>7 DEF RunEnds, Continues, RunsTypeOK
  <2> QED
    BY <1>0, <1>7, <2>1, OverTypes, JobAlone DEF RunEnds, Live
<1>8. CASE Abort(j)
  BY <1>0, <1>8, OverTypes, JobAlone DEF Abort, RunsTypeOK
<1> QED
  BY <1>1, <1>2, <1>3, <1>4, <1>5, <1>6, <1>7, <1>8, <1>9, <1>10 DEF JobStep

-----------------------------------------------------------------------------
LEMMA AllocateKeeps ==
  ASSUME RunsInv, NEW j \in Job, NEW p \in Project \cup {Explicit, None}, Allocate(j, p)
  PROVE  RunsInv'
<1> USE DEF sweepVars
<1>1. /\ pc \in [Job -> Where]
      /\ pc[j] = "new" /\ pc' = [pc EXCEPT ![j] = "queued"] /\ there' = there \cup {j}
      /\ mtime' = [mtime EXCEPT ![j] = 0] /\ mtime \in [Job -> Age]
      /\ tag' = [tag EXCEPT ![j] = p] /\ tag \in [Job -> Project \cup {Explicit, None}]
      /\ removing \in [Sweeper -> Job \cup {None}] /\ todo \in [Sweeper -> SUBSET Job]
      /\ created' = created
  BY DEF RunsInv, RunsTypeOK, Goto, Allocate
<1>2. 0 \in Age /\ 0 <= Retention
  BY JobRunsAssumption DEF Age
<1>3. RunsTypeOK'
  BY <1>1, <1>2 DEF RunsInv, RunsTypeOK, Allocate, Live
<1>4. \A k \in Live' : k = j \/ (k \in Live /\ mtime'[k] = mtime[k])
  BY <1>1 DEF Live
<1>5. created[j] = None
  BY <1>1 DEF RunsInv
<1>6. \A k \in Live' : k \in there' /\ Young(k)'
  BY <1>1, <1>2, <1>4, <1>5 DEF RunsInv, Young
<1>7. \A k \in Job : pc'[k] = "new" => pc[k] = "new"
  BY <1>1
<1>8. \A w \in Sweeper : removing[w] # None => removing[w] # j
  BY <1>1 DEF RunsInv
<1> QED
  BY <1>1, <1>3, <1>6, <1>7, <1>8 DEF RunsInv, Allocate

LEMMA RestartKeeps == ASSUME RunsInv, Restart PROVE RunsInv'
<1> USE DEF dirVars
<1>1. /\ pc \in [Job -> Where]
      /\ pc' = [j \in Job |-> IF j \in Live THEN "over" ELSE pc[j]]
  BY DEF RunsInv, RunsTypeOK, Restart
<1>2. Live' = {} /\ \A j \in Job : (pc'[j] = "new") = (pc[j] = "new")
  BY <1>1 DEF Live
<1>3. RunsTypeOK'
  BY <1>1, <1>2 DEF RunsInv, RunsTypeOK, Restart, Live
<1> QED
  BY <1>2, <1>3 DEF RunsInv, Restart

(* Time passes only while every job is young enough to stay young.         *)
LEMMA TickKeeps == ASSUME RunsInv, Tick PROVE RunsInv'
<1> USE DEF jobVars
<1> DEFINE older(a) == IF a = Retention + 1 THEN a ELSE a + 1
<1>0. Retention \in Nat /\ None \notin Age
  BY JobRunsAssumption DEF Age
<1>1. /\ mtime' = [j \in Job |-> IF j \in there THEN older(mtime[j]) ELSE mtime[j]]
      /\ created' = [j \in Job |-> IF j \in there /\ created[j] # None
                                  THEN older(created[j]) ELSE created[j]]
      /\ \A j \in Live : mtime[j] < Retention /\ created[j] # Retention
      /\ UNCHANGED <<pc, there, removing, todo>>
  BY DEF Tick
<1>2. mtime \in [Job -> Age] /\ created \in [Job -> Age \cup {None}]
  BY DEF RunsInv, RunsTypeOK
<1>3. \A a \in Age : older(a) \in Age
  BY <1>0 DEF Age
<1>4. \A a \in Age : a < Retention => older(a) <= Retention
  BY <1>0 DEF Age
<1> HIDE DEF older
<1>5. mtime' \in [Job -> Age]
  BY <1>1, <1>2, <1>3
<1>6. created' \in [Job -> Age \cup {None}]
  BY <1>1, <1>2, <1>3
<1>7. RunsTypeOK'
  BY <1>5, <1>6 DEF RunsInv, RunsTypeOK, Tick, Live
<1>8. ASSUME NEW j \in Live PROVE Young(j)'
  <2>1. j \in there /\ j \in Job /\ Young(j)
    BY DEF RunsInv, Live
  <2>2. mtime'[j] = older(mtime[j]) /\ mtime[j] < Retention /\ mtime[j] \in Age
    BY <1>1, <1>2, <2>1
  <2>3. CASE created[j] = None
    BY <1>1, <1>4, <2>1, <2>2, <2>3 DEF Young
  <2>4. CASE created[j] # None
    <3>1. created[j] \in Age /\ created[j] < Retention
      BY <1>0, <1>1, <1>2, <2>1, <2>4 DEF Young, Age
    <3> QED
      BY <1>1, <1>4, <2>1, <2>2, <2>4, <3>1 DEF Young
  <2> QED
    BY <2>3, <2>4
<1>9. Live' = Live
  BY <1>1 DEF Live
<1>10. \A j \in Job : pc[j] = "new" => created'[j] = None
  BY <1>1 DEF RunsInv, RunsTypeOK
<1>11. \A j \in Job : created[j] # None => created'[j] # None
  BY <1>0, <1>1, <1>2, <1>3
<1> QED
  BY <1>1, <1>7, <1>8, <1>9, <1>10, <1>11 DEF RunsInv

(* A sweep dooms only what is old, so what belongs to a job that is over.  *)
LEMMA SweepKeeps ==
  ASSUME RunsInv, NEW w \in Sweeper, OnReady(w) \/ SweepStep(w)
  PROVE  RunsInv'
<1> USE DEF jobVars, dirVars
<1>0. /\ RunsTypeOK /\ Retention \in Nat /\ 0 \in Age
      /\ there \subseteq {k \in Job : pc[k] # "new"} /\ removing \in [Sweeper -> Job \cup {None}]
      /\ pc \in [Job -> Where]
  BY JobRunsAssumption DEF RunsInv, RunsTypeOK, Age
<1>1. CASE OnReady(w)
  <2>1. RunsTypeOK'
    BY <1>0, <1>1 DEF OnReady, RunsTypeOK, Live
  <2>2. \A v \in Sweeper : \A j \in todo'[v] : pc[j] # "new"
    BY <1>0, <1>1 DEF OnReady, RunsInv, RunsTypeOK
  <2> QED
    BY <1>1, <2>1, <2>2 DEF OnReady, RunsInv, Live, Young
<1>2. ASSUME NEW j \in Job, Skip(w, j) PROVE RunsInv'
  <2>1. RunsTypeOK'
    BY <1>0, <1>2 DEF Skip, RunsTypeOK, Live
  <2>2. \A v \in Sweeper : \A k \in todo'[v] : pc[k] # "new"
    BY <1>0, <1>2 DEF Skip, RunsInv, RunsTypeOK
  <2> QED
    BY <1>2, <2>1, <2>2 DEF Skip, RunsInv, Live, Young
<1>3. ASSUME NEW j \in Job, Doom(w, j) PROVE RunsInv'
  <2>1. RunsTypeOK'
    BY <1>0, <1>3 DEF Doom, RunsTypeOK, Live
  <2>2. \A v \in Sweeper : \A k \in todo'[v] : pc[k] # "new"
    BY <1>0, <1>3 DEF Doom, RunsInv, RunsTypeOK
  <2>3. pc[j] = "over"
    <3>1. j \in there /\ AgeOf(j) > Retention
      BY <1>3 DEF Doom
    <3>2. mtime[j] \in Int /\ (created[j] = None \/ created[j] \in Int)
      BY <1>0 DEF RunsTypeOK, Age
    <3>3. j \notin Live
      BY <1>0, <3>1, <3>2 DEF AgeOf, RunsInv, Young
    <3> QED
      BY <1>0, <3>1, <3>3 DEF Live
  <2>4. \A v \in Sweeper : removing'[v] # None => pc[removing'[v]] = "over"
    BY <1>0, <1>3, <2>3 DEF Doom, RunsInv
  <2> QED
    BY <1>3, <2>1, <2>2, <2>4 DEF Doom, RunsInv, Live, Young
<1>4. CASE Gut(w)
  <2> DEFINE r == removing[w]
  <2>1. r \in Job /\ r # None /\ pc[r] = "over"
    <3>1. r \in there
      BY <1>4 DEF Gut
    <3>2. r \in Job /\ r # None
      BY <1>0, <3>1, JobRunsAssumption
    <3> QED
      BY <3>2 DEF RunsInv
  <2>2. mtime' = [mtime EXCEPT ![r] = 0] /\ created' = [created EXCEPT ![r] = None]
    BY <1>4 DEF Gut
  <2>3. RunsTypeOK'
    BY <1>0, <1>4, <2>2 DEF Gut, RunsTypeOK, sweepVars, Live
  <2>4. \A j \in Live : mtime'[j] = mtime[j] /\ created'[j] = created[j]
    BY <1>0, <2>1, <2>2 DEF Live, RunsTypeOK
  <2>5. Live' = Live
    BY <1>4 DEF Gut, Live
  <2>6. \A j \in Live' : j \in there' /\ Young(j)'
    BY <1>4, <2>4, <2>5 DEF RunsInv, Young, Gut
  <2>7. \A j \in Job : pc[j] = "new" => created'[j] = None
    BY <1>0, <2>1, <2>2 DEF RunsInv, RunsTypeOK
  <2>8. \A j \in Job : pc[j] \in {"prepared", "running"} => created'[j] # None
    BY <1>0, <2>1, <2>2 DEF RunsInv, RunsTypeOK
  <2> QED
    BY <1>4, <2>3, <2>6, <2>7, <2>8 DEF RunsInv, Gut, sweepVars
<1>5. CASE Remove(w)
  <2>1. RunsTypeOK'
    BY <1>0, <1>5 DEF Remove, RunsTypeOK, Live
  <2>2. removing[w] \notin Live
    BY <1>5 DEF Remove, RunsInv, Live
  <2>3. \A v \in Sweeper : removing'[v] # None => pc[removing'[v]] = "over"
    BY <1>0, <1>5 DEF Remove, RunsInv
  <2> QED
    BY <1>5, <2>1, <2>2, <2>3 DEF Remove, RunsInv, Live, Young
<1>6. CASE RemoveFails(w)
  <2>1. RunsTypeOK'
    BY <1>0, <1>6 DEF RemoveFails, RunsTypeOK, Live
  <2>2. \A v \in Sweeper : removing'[v] # None => pc[removing'[v]] = "over"
    BY <1>0, <1>6 DEF RemoveFails, RunsInv
  <2> QED
    BY <1>6, <2>1, <2>2 DEF RemoveFails, RunsInv, Live, Young
<1> QED
  BY <1>1, <1>2, <1>3, <1>4, <1>5, <1>6 DEF SweepStep

-----------------------------------------------------------------------------
LEMMA Step == RunsInv /\ [RunsNext]_runsVars => RunsInv'
<1> SUFFICES ASSUME RunsInv, [RunsNext]_runsVars PROVE RunsInv'
  OBVIOUS
<1>1. ASSUME NEW j \in Job, NEW p \in Project \cup {Explicit, None}, Allocate(j, p) PROVE RunsInv'
  BY <1>1, AllocateKeeps
<1>2. ASSUME NEW j \in Job, JobStep(j) PROVE RunsInv'
  BY <1>2, JobStepKeeps
<1>3. ASSUME NEW w \in Sweeper, OnReady(w) \/ SweepStep(w) PROVE RunsInv'
  BY <1>3, SweepKeeps
<1>4. CASE Restart
  BY <1>4, RestartKeeps
<1>5. CASE Forget
  BY <1>5 DEF Forget, RunsInv, RunsTypeOK, Live, Young, dirVars, sweepVars
<1>6. CASE Tick
  BY <1>6, TickKeeps
<1>7. ASSUME NEW p \in Project, ProjectGone(p) PROVE RunsInv'
  BY <1>7 DEF ProjectGone, RunsInv, RunsTypeOK, Live, Young, jobVars, dirVars, sweepVars
<1>8. CASE UNCHANGED runsVars
  BY <1>8 DEF runsVars, RunsInv, RunsTypeOK, Live, Young, jobVars, dirVars, sweepVars
<1> QED
  BY <1>1, <1>2, <1>3, <1>4, <1>5, <1>6, <1>7, <1>8 DEF RunsNext

(* The directory of a job that waits, is prepared or runs is never swept,  *)
(* whichever threads sweep, however often the bot reconnects.              *)
THEOREM SweepsSpareLiveJobs == RunsSpec => [](RunsTypeOK /\ LiveJobsKeepTheirs)
<1>1. RunsInv => RunsTypeOK /\ LiveJobsKeepTheirs
  BY DEF RunsInv, LiveJobsKeepTheirs
<1> QED
  BY <1>1, InitHolds, Step, PTL DEF RunsSpec

(* A turn runs where it was prepared: from the moment its job.json is      *)
(* written no sweep, however late and however it told the age, takes it.   *)
THEOREM TurnsRunWherePrepared == RunsSpec => RunsAsPrepared
<1>1. ASSUME RunsInv, [RunsNext]_runsVars, NEW j \in Job, pc[j] = "prepared", pc'[j] = "running"
      PROVE  cwd'[j] = cwd[j]
  <2>0. /\ pc \in [Job -> Where] /\ cwd \in [Job -> Place \cup {None}]
        /\ created[j] # None
    BY <1>1 DEF RunsInv, RunsTypeOK
  <2>1. PICK k \in Job : Run(k)
    BY <1>1, <2>0 DEF RunsNext, runsVars, jobVars, Allocate, JobStep, Resolve, Check, StartAfresh,
       Refuse, Write, RunFindsNone, RunIsStale, RunEnds, Abort, Over, Goto, OnReady, SweepStep,
       Skip, Doom, Gut, Remove, RemoveFails, Restart, Forget, Tick, ProjectGone, Live
  <2>2. k = j
    BY <1>1, <2>0, <2>1 DEF Run, Goto
  <2> QED
    BY <2>0, <2>1, <2>2 DEF Run, RunsIn
<1>2. RunsInv /\ [RunsNext]_runsVars
        => [\A j \in Job : pc[j] = "prepared" /\ pc'[j] = "running" => cwd'[j] = cwd[j]]_runsVars
  BY <1>1
<1> QED
  BY <1>2, InitHolds, Step, PTL DEF RunsSpec, RunsAsPrepared

=============================================================================
