------------------------------ MODULE JobRuns -------------------------------
(***************************************************************************)
(* Job directories (src/src/orchestrator.py) over the life of one channel: *)
(* allocated when a message arrives, filled when its turn comes, used as a *)
(* working directory - by its own job and, when no project is named, by    *)
(* every later turn of the conversation - and swept by age when the bot    *)
(* connects, which it does again whenever the connection was lost.         *)
(*                                                                         *)
(* Time is counted in ages, in a unit that no sweep outlasts, and goes on  *)
(* for ever; an age beyond Retention is as good as any older one.          *)
(***************************************************************************)
EXTENDS Integers

CONSTANTS
  Job,
  Project,   \* working directories outside RUNS_DIR
  Sweeper,   \* the threads of overlapping calls of on_ready
  None,
  Explicit,  \* a message that names a session, and no project
  Retention  \* RUNS_RETENTION_DAYS

ASSUME JobRunsAssumption ==
  /\ Retention \in Nat \ {0}
  /\ None \notin Job \cup Project \cup (0 .. Retention + 1)
  /\ Explicit \notin Project \cup {None}

VARIABLES
  pc,       \* where each job is
  tag,      \* the project its message names, Explicit, or None
  cwd,      \* where Claude is to work for it: at last `workdir` of its job.json
  there,    \* the job directories on disk
  mtime,    \* the age of a directory by the file system
  created,  \* and by created_at of its job.json, None without that file
  sess,     \* the working directory of the channel's session, or None
  gone,     \* the projects that somebody has deleted
  todo,     \* of each sweep: the entries it has still to look at
  removing, \* and the one that rmtree is at
  connected \* the threads of this age's connections

jobVars == <<pc, tag, cwd, sess>>
dirVars == <<there, mtime, created>>
sweepVars == <<todo, removing, connected>>
runsVars == <<jobVars, dirVars, gone, sweepVars>>

Place == Job \cup Project
Age == 0 .. Retention + 1
Waits == {"queued", "resolved", "checked"}
Live == {j \in Job : pc[j] \in Waits \cup {"prepared", "running"}}

RunsTypeOK ==
  /\ pc \in [Job -> {"new", "over", "prepared", "running"} \cup Waits]
  /\ tag \in [Job -> Project \cup {Explicit, None}]
  /\ cwd \in [Job -> Place \cup {None}]
  /\ \A j \in Live : pc[j] # "queued" => cwd[j] \in Place
  /\ there \subseteq {j \in Job : pc[j] # "new"}
  /\ mtime \in [Job -> Age]
  /\ created \in [Job -> Age \cup {None}]
  /\ sess \in Place \cup {None}
  /\ gone \subseteq Project
  /\ todo \in [Sweeper -> SUBSET Job]
  /\ removing \in [Sweeper -> Job \cup {None}]
  /\ connected \subseteq Sweeper

RunsInit ==
  /\ pc = [j \in Job |-> "new"]
  /\ tag = [j \in Job |-> None]
  /\ cwd = [j \in Job |-> None]
  /\ there = {}
  /\ mtime = [j \in Job |-> 0]
  /\ created = [j \in Job |-> None]
  /\ sess = None
  /\ gone = {}
  /\ todo = [w \in Sweeper |-> {}]
  /\ removing = [w \in Sweeper |-> None]
  /\ connected = {}

IsDir(d) == d \in there \/ d \in Project \ gone
Goto(j, label) == pc' = [pc EXCEPT ![j] = label]

(* The job is over, and what its message and its files said is forgotten.  *)
Over(j) ==
  /\ Goto(j, "over")
  /\ tag' = [tag EXCEPT ![j] = None]
  /\ cwd' = [cwd EXCEPT ![j] = None]

-----------------------------------------------------------------------------
(* allocate_job.                                                           *)
Allocate(j, p) ==
  /\ pc[j] = "new"
  /\ Goto(j, "queued")
  /\ tag' = [tag EXCEPT ![j] = p]
  /\ there' = there \cup {j}
  /\ mtime' = [mtime EXCEPT ![j] = 0]
  /\ UNCHANGED <<cwd, sess, created, gone, sweepVars>>

(* _resolve_resume_and_workdir, when the slot is held: what the message    *)
(* names comes first, then what the session remembers, unless the message  *)
(* names a session itself; else the job's own directory.                   *)
Wanted(j) == IF tag[j] = None THEN sess ELSE IF tag[j] = Explicit THEN None ELSE tag[j]

ResolveNothing(j) ==        \* mutant: no directory of its own to fall back on
  /\ pc[j] = "queued"
  /\ Goto(j, "resolved")
  /\ cwd' = [cwd EXCEPT ![j] = Wanted(j)]
  /\ UNCHANGED <<tag, sess, dirVars, gone, sweepVars>>

Resolve(j) ==
  /\ pc[j] = "queued"
  /\ Goto(j, "resolved")
  /\ cwd' = [cwd EXCEPT ![j] = IF Wanted(j) = None THEN j ELSE Wanted(j)]
  /\ UNCHANGED <<tag, sess, dirVars, gone, sweepVars>>

(* prepare_job, in a thread: its check of a directory that is not its own  *)
Missing(j) == cwd[j] # j /\ ~IsDir(cwd[j])

Check(j) ==
  /\ pc[j] = "resolved" /\ ~Missing(j)
  /\ Goto(j, "checked")
  /\ tag' = [tag EXCEPT ![j] = None]
  /\ UNCHANGED <<cwd, sess, dirVars, gone, sweepVars>>

(* finds a remembered one gone: that costs the session, whichever it is by *)
(* now, not the turn;                                                      *)
StartAfresh(j) ==
  /\ pc[j] = "resolved" /\ Missing(j) /\ tag[j] = None
  /\ sess' = None
  /\ Goto(j, "checked")
  /\ cwd' = [cwd EXCEPT ![j] = j]
  /\ UNCHANGED <<tag, dirVars, gone, sweepVars>>

(* a named one that is gone costs the turn.                                *)
Refuse(j) ==
  /\ pc[j] = "resolved" /\ Missing(j) /\ tag[j] \in Project
  /\ Over(j)
  /\ UNCHANGED <<sess, dirVars, gone, sweepVars>>

(* ... and, whatever happened in between, its two files.                   *)
Write(j) ==
  /\ pc[j] = "checked" /\ j \in there
  /\ Goto(j, "prepared")
  /\ mtime' = [mtime EXCEPT ![j] = 0]
  /\ created' = [created EXCEPT ![j] = 0]
  /\ UNCHANGED <<tag, cwd, sess, there, gone, sweepVars>>

(* run_job takes the directory from job.json, its own one if there is no   *)
(* such file, and looks once more before it starts the CLI; the error of a *)
(* missing one carries no session.                                         *)
RunsIn(j) == IF created[j] = None THEN j ELSE cwd[j]

Run(j) ==
  /\ pc[j] = "prepared"
  /\ j \in there /\ IsDir(RunsIn(j))
  /\ Goto(j, "running")
  /\ cwd' = [cwd EXCEPT ![j] = RunsIn(j)]
  /\ UNCHANGED <<tag, sess, dirVars, gone, sweepVars>>

RunFindsNone(j) ==
  /\ pc[j] = "prepared"
  /\ j \notin there \/ ~IsDir(RunsIn(j))
  /\ Over(j)
  /\ UNCHANGED <<sess, dirVars, gone, sweepVars>>

(* The conversation is unknown: it is forgotten and the job run again.     *)
RunIsStale(j) ==
  /\ pc[j] = "running"
  /\ sess' = None
  /\ Goto(j, "prepared")
  /\ UNCHANGED <<tag, cwd, dirVars, gone, sweepVars>>

(* _read_continuation_workdir: where the conversation goes on, as meta.json *)
(* says if that is a directory, by default where it was.                   *)
Continues(j) == {cwd[j]} \cup {d \in Place : IsDir(d)}

RunEnds(j) ==
  /\ pc[j] = "running"
  /\ Over(j)
  /\ sess' \in {sess} \cup Continues(j)
  /\ UNCHANGED <<dirVars, gone, sweepVars>>

(* prepare_job or the handler raises; the bot is stopped.                  *)
Abort(j) ==
  /\ j \in Live
  /\ Over(j)
  /\ UNCHANGED <<sess, dirVars, gone, sweepVars>>

Restart ==
  /\ pc' = [j \in Job |-> IF j \in Live THEN "over" ELSE pc[j]]
  /\ tag' = [j \in Job |-> None]
  /\ cwd' = [j \in Job |-> None]
  /\ todo' = [w \in Sweeper |-> {}]
  /\ removing' = [w \in Sweeper |-> None]
  /\ UNCHANGED <<sess, dirVars, gone, connected>>

(* `/clear`, `종료`, the TTL; somebody deletes a project.                  *)
Forget ==
  /\ sess' = None
  /\ UNCHANGED <<pc, tag, cwd, dirVars, gone, sweepVars>>

ProjectGone(p) ==
  /\ gone' = gone \cup {p}
  /\ UNCHANGED <<jobVars, dirVars, sweepVars>>

-----------------------------------------------------------------------------
(* cleanup_old_runs.                                                       *)
Idle(w) == todo[w] = {} /\ removing[w] = None

(* Each thread of Sweeper once in an age bounds how often it connects.     *)
OnReady(w) ==
  /\ Idle(w) /\ w \notin connected
  /\ connected' = connected \cup {w}
  /\ todo' = [todo EXCEPT ![w] = there]
  /\ UNCHANGED <<jobVars, dirVars, gone, removing>>

NoFileMeansOld(j) ==        \* mutant: without a job.json nobody needs the directory
  IF created[j] # None THEN created[j] ELSE Retention + 1

NoFileMeansYoung(j) ==      \* mutant: no age without a job.json, no fall back on the mtime
  IF created[j] # None THEN created[j] ELSE 0

(* _job_dir_age_reference: created_at of job.json, or the mtime.           *)
AgeOf(j) == IF created[j] # None THEN created[j] ELSE mtime[j]

(* One entry: too young, vanished, unreadable, or to be removed.           *)
Skip(w, j) ==
  /\ removing[w] = None /\ j \in todo[w]
  /\ todo' = [todo EXCEPT ![w] = @ \ {j}]
  /\ UNCHANGED <<jobVars, dirVars, gone, removing, connected>>

DoomOnTheDay(w, j) ==       \* mutant: `age_ref > cutoff` is what is spared
  /\ removing[w] = None /\ j \in todo[w]
  /\ j \in there /\ AgeOf(j) >= Retention
  /\ todo' = [todo EXCEPT ![w] = @ \ {j}]
  /\ removing' = [removing EXCEPT ![w] = j]
  /\ UNCHANGED <<jobVars, dirVars, gone, connected>>

Doom(w, j) ==
  /\ removing[w] = None /\ j \in todo[w]
  /\ j \in there /\ AgeOf(j) > Retention
  /\ todo' = [todo EXCEPT ![w] = @ \ {j}]
  /\ removing' = [removing EXCEPT ![w] = j]
  /\ UNCHANGED <<jobVars, dirVars, gone, connected>>

(* rmtree: the files go first, which makes the directory look new; ...     *)
Gut(w) ==
  /\ removing[w] \in there
  /\ mtime' = [mtime EXCEPT ![removing[w]] = 0]
  /\ created' = [created EXCEPT ![removing[w]] = None]
  /\ UNCHANGED <<jobVars, there, gone, sweepVars>>

(* ... then the directory, unless one of them would not go.                *)
Remove(w) ==
  /\ removing[w] # None /\ created[removing[w]] = None
  /\ there' = there \ {removing[w]}
  /\ removing' = [removing EXCEPT ![w] = None]
  /\ UNCHANGED <<jobVars, mtime, created, gone, todo, connected>>

RemoveFails(w) ==
  /\ removing[w] # None
  /\ removing' = [removing EXCEPT ![w] = None]
  /\ UNCHANGED <<jobVars, dirVars, gone, todo, connected>>

(* The life of a job is shorter than Retention (JOB_TIMEOUT_SECONDS), and  *)
(* a sweep shorter than the unit of time.                                  *)
Tick ==
  LET older(a) == IF a = Retention + 1 THEN a ELSE a + 1 IN
  /\ \A w \in Sweeper : Idle(w)
  /\ \A j \in Live : mtime[j] < Retention /\ created[j] # Retention
  /\ mtime' = [j \in Job |-> IF j \in there THEN older(mtime[j]) ELSE mtime[j]]
  /\ created' = [j \in Job |-> IF j \in there /\ created[j] # None
                              THEN older(created[j]) ELSE created[j]]
  /\ connected' = {}
  /\ UNCHANGED <<jobVars, there, gone, todo, removing>>

JobStep(j) ==
  \/ Resolve(j) \/ Check(j) \/ StartAfresh(j) \/ Refuse(j) \/ Write(j)
  \/ Run(j) \/ RunFindsNone(j)
  \/ RunIsStale(j) \/ RunEnds(j) \/ Abort(j)

SweepStep(w) ==
  \/ \E j \in Job : Skip(w, j) \/ Doom(w, j)
  \/ Gut(w) \/ Remove(w) \/ RemoveFails(w)

RunsNext ==
  \/ \E j \in Job, p \in Project \cup {Explicit, None} : Allocate(j, p)
  \/ \E j \in Job : JobStep(j)
  \/ \E w \in Sweeper : OnReady(w) \/ SweepStep(w)
  \/ Restart \/ Forget \/ Tick
  \/ \E p \in Project : ProjectGone(p)

RunsSpec == RunsInit /\ [][RunsNext]_runsVars

(* Jobs end, time passes, sweeps come to their end, and an old directory   *)
(* that is tried again and again is removed at last.                       *)
RunsLive ==
  /\ RunsSpec
  /\ WF_runsVars(\E j \in Job : RunEnds(j) \/ Abort(j))
  /\ WF_runsVars(\E w \in Sweeper : SweepStep(w))
  /\ WF_runsVars(Tick)
  /\ SF_runsVars(\E w \in Sweeper, j \in Job : Doom(w, j))
  /\ SF_runsVars(\E w \in Sweeper : Gut(w))
  /\ SF_runsVars(\E w \in Sweeper : Remove(w))

(* ... and the bot connects again and again.                               *)
RunsReconnecting == RunsLive /\ WF_runsVars(\E w \in Sweeper : OnReady(w))

-----------------------------------------------------------------------------
(* No sweep takes away the directory of a job that is waiting, about to    *)
(* run or running, however its age is told (orchestrator.py:95-104).       *)
LiveJobsKeepTheirs == Live \subseteq there

(* A turn runs where it was prepared: its job.json is still there when     *)
(* run_job reads it, also if a sweep looked at the directory before the    *)
(* file was written.  Without it run_job would silently take the job's own *)
(* directory, and no rules (orchestrator.py:347-350).                      *)
RunsAsPrepared ==
  [][\A j \in Job : pc[j] = "prepared" /\ pc'[j] = "running" => cwd'[j] = cwd[j]]_runsVars

(* What a job leaves on disk is removed some day (orchestrator.py:126-134). *)
EveryDirectoryGoes == \A j \in Job : pc[j] = "over" ~> j \notin there

=============================================================================
