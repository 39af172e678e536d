------------------------------- MODULE Answer -------------------------------
(***************************************************************************)
(* What the user sees of one job (src/src/main.py, _dispatch_job to        *)
(* _complete_job; src/src/status.py): the ack message that says the job    *)
(* waits, works and how it ended, the spinner task that edits it, and what *)
(* is handed over at the end, which is Outputs.                            *)
(*                                                                         *)
(* An edit is a request: it takes effect, if at all, some time before it   *)
(* returns, and one whose caller was cancelled may still take effect.      *)
(* Discord works off the edits of a message in the order sent (external).  *)
(***************************************************************************)
EXTENDS Outputs

VARIABLES
  jpc,      \* the await the job is suspended in
  outcome,  \* how the run ended
  loader,   \* the task of run_spinning_loader
  flight,   \* edits on their way, oldest first
  shown,    \* what the ack says
  lost      \* an edit by which the job says how it ended failed

ackVars == <<jpc, outcome, loader, flight, shown, lost>>
sendVars == <<chunkVars, outputsVars>>
answerVars == <<ackVars, sendVars>>

EditOf(who) == \E i \in DOMAIN flight : flight[i].by = who

Edit == [by : {"job", "loader"}, what : {"working", "final"}]

AckTypeOK ==
  /\ jpc \in {"waiting", "preparing", "relabel", "running", "stopping", "reaping",
              "label", "explain", "deliver", "complete", "done", "escaped"}
  /\ lost \in BOOLEAN
  /\ outcome \in {"none", "ok", "failed", "timeout", "raised", "refused"}
  /\ loader \in {"none", "sleeping", "editing", "over"}
  /\ flight \in Seq(Edit)
  /\ EditOf("job") => jpc \in {"relabel", "label", "done"}
  /\ shown \in {"queued", "working", "final"}

AnswerTypeOK == ChunkTypeOK /\ OutputsTypeOK /\ AckTypeOK

AnswerInit ==
  /\ OutputsInit
  /\ jpc = "waiting"
  /\ outcome = "none" /\ loader = "none" /\ flight = <<>> /\ lost = FALSE
  /\ shown \in {"queued", "working"}

Becomes(label) == jpc' = label
Request(who, what) == flight' = Append(flight, [by |-> who, what |-> what])

-----------------------------------------------------------------------------
(* Edits land, or fail.                                                    *)
Land ==
  /\ flight # <<>>
  /\ flight' = Tail(flight)
  /\ shown' = Head(flight).what
  /\ UNCHANGED <<jpc, outcome, loader, lost, sendVars>>

EditFails ==
  /\ flight # <<>>
  /\ flight' = Tail(flight)
  /\ lost' = (lost \/ Head(flight).what = "final")
  /\ UNCHANGED <<jpc, outcome, loader, shown, sendVars>>

(* run_spinning_loader: sleeps, edits, and ends on the first edit that     *)
(* fails, if only by its answer.                                           *)
Spin ==
  /\ jpc # "stopping" /\ loader = "sleeping"
  /\ loader' = "editing"
  /\ Request("loader", "working")
  /\ UNCHANGED <<jpc, outcome, shown, lost, sendVars>>

Spun ==
  /\ jpc # "stopping" /\ loader = "editing" /\ ~EditOf("loader")
  /\ loader' \in {"sleeping", "over"}
  /\ UNCHANGED <<jpc, outcome, flight, shown, lost, sendVars>>

CancellationCaught ==       \* mutant: `except BaseException` in the loop
  /\ jpc = "stopping" /\ loader = "editing"
  /\ loader' = "sleeping"
  /\ UNCHANGED <<jpc, outcome, flight, shown, lost, sendVars>>

(* stop_spinning_loader: the cancellation reaches it, asleep or in the     *)
(* middle of an edit, which may not even have left; no other is in flight. *)
Cancelled ==
  /\ jpc = "stopping" /\ loader \in {"sleeping", "editing"}
  /\ loader' = "over"
  /\ flight' \in {flight, <<>>}
  /\ UNCHANGED <<jpc, outcome, shown, lost, sendVars>>

-----------------------------------------------------------------------------
(* _dispatch_job: the slot is held.                                        *)
SlotHeld ==
  /\ jpc = "waiting"
  /\ Becomes("preparing")
  /\ UNCHANGED <<outcome, loader, flight, shown, lost, sendVars>>

Running == Becomes("running") /\ loader' = "sleeping"

(* The ack of a job that waited is rewritten before anything else edits it. *)
Prepared ==
  /\ jpc = "preparing"
  /\ IF shown = "queued"
     THEN Becomes("relabel") /\ Request("job", "working") /\ UNCHANGED loader
     ELSE Running /\ UNCHANGED flight
  /\ UNCHANGED <<outcome, shown, lost, sendVars>>

(* _safe_edit_ack with the status the job ends with.                       *)
Label(how) == Becomes("label") /\ outcome' = how /\ Request("job", "final")

Refused ==
  /\ jpc = "preparing"
  /\ Label("refused")
  /\ UNCHANGED <<loader, shown, lost, sendVars>>

(* prepare_job cannot write, or _prepare_queued_job cannot read the store. *)
PrepareRaises ==
  /\ jpc = "preparing"
  /\ Becomes("escaped")
  /\ UNCHANGED <<outcome, loader, flight, shown, lost, sendVars>>

RelabelledAtOnce ==         \* mutant: the edit is not awaited
  /\ jpc = "relabel"
  /\ Running
  /\ UNCHANGED <<outcome, flight, shown, lost, sendVars>>

Relabelled ==
  /\ jpc = "relabel" /\ ~EditOf("job")
  /\ Running
  /\ UNCHANGED <<outcome, flight, shown, lost, sendVars>>

LabelBeforeStop(how) ==     \* mutant: an error is shown before the spinner is stopped
  /\ jpc = "running"
  /\ IF how = "raised" THEN Label(how)
                       ELSE Becomes("stopping") /\ outcome' = how /\ UNCHANGED flight
  /\ UNCHANGED <<loader, shown, lost, sendVars>>

(* _execute_job: however the run ends, the spinner is stopped first.       *)
RunEnds(how) ==
  /\ jpc = "running"
  /\ Becomes("stopping") /\ outcome' = how
  /\ UNCHANGED <<loader, flight, shown, lost, sendVars>>

Stopped ==
  /\ jpc = "stopping" /\ loader = "over"
  /\ IF outcome = "timeout" THEN Becomes("reaping") /\ UNCHANGED <<outcome, flight>>
                            ELSE Label(outcome)
  /\ UNCHANGED <<loader, shown, lost, sendVars>>

(* set_session raises, before anything was shown or sent.                  *)
StoreRaises ==
  /\ jpc = "stopping" /\ loader = "over" /\ outcome \in {"ok", "failed"}
  /\ Becomes("escaped")
  /\ UNCHANGED <<outcome, loader, flight, shown, lost, sendVars>>

ReapedUnlabelled ==         \* mutant: a timeout does not touch the ack
  /\ jpc = "reaping"
  /\ Becomes("label")
  /\ UNCHANGED <<outcome, loader, flight, shown, lost, sendVars>>

(* _handle_job_timeout: the job's processes are dead.                      *)
Reaped ==
  /\ jpc = "reaping"
  /\ Label(outcome)
  /\ UNCHANGED <<loader, shown, lost, sendVars>>

(* An error is put into words (a failure that has any), then what the job  *)
(* left is sent, unless it did not run.                                    *)
Labelled ==
  /\ jpc = "label" /\ ~EditOf("job")
  /\ \/ outcome \in {"failed", "raised", "refused"} /\ Becomes("explain")
     \/ outcome \in {"ok", "failed", "timeout"} /\ Becomes("deliver")
  /\ UNCHANGED <<outcome, loader, flight, shown, lost, sendVars>>

Explained ==
  /\ jpc = "explain"
  /\ Becomes(IF outcome = "failed" THEN "deliver" ELSE "complete")
  /\ UNCHANGED <<outcome, loader, flight, shown, lost, sendVars>>

Deliver ==
  /\ jpc = "deliver"
  /\ SendOutputs(outcome = "ok")
  /\ outcome' = "none"
  /\ UNCHANGED <<jpc, loader, flight, shown, lost>>

Delivering ==
  /\ jpc = "deliver"
  /\ OutputsStep
  /\ UNCHANGED ackVars

(* _complete_job: with DEBUG_TIMING the status is written once more.       *)
Delivered ==
  /\ jpc = "deliver" /\ opc = "done"
  /\ Becomes("complete")
  /\ UNCHANGED <<outcome, loader, flight, shown, lost, sendVars>>

Complete(debug) ==
  /\ jpc = "complete"
  /\ Becomes("done")
  /\ IF debug THEN Request("job", "final") ELSE UNCHANGED flight
  /\ UNCHANGED <<outcome, loader, shown, lost, sendVars>>

(* A send that raised ends the handler.                                    *)
Escapes ==
  /\ \/ jpc = "explain"
     \/ jpc = "deliver" /\ opc = "raised"
  /\ Becomes("escaped")
  /\ UNCHANGED <<outcome, loader, flight, shown, lost, sendVars>>

-----------------------------------------------------------------------------
JobStep ==
  \/ SlotHeld \/ Prepared \/ Refused \/ PrepareRaises \/ Relabelled
  \/ \E how \in {"ok", "failed", "timeout", "raised"} : RunEnds(how)
  \/ Stopped \/ StoreRaises \/ Reaped \/ Labelled \/ Explained
  \/ Deliver \/ Delivering \/ Delivered \/ Escapes
  \/ \E debug \in BOOLEAN : Complete(debug)

Discord == Land \/ EditFails

AnswerNext == JobStep \/ Discord \/ Spin \/ Spun \/ Cancelled

AnswerSpec == AnswerInit /\ [][AnswerNext]_answerVars

(* Discord answers, the run ends by its deadline, and a cancellation       *)
(* reaches its task.  The spinner owes nobody an edit.                     *)
AnswerLive ==
  AnswerSpec /\ WF_answerVars(JobStep) /\ WF_answerVars(Discord) /\ WF_answerVars(Cancelled)

-----------------------------------------------------------------------------
(* Once the ack says how the job ended it says so for good: no edit of the *)
(* spinner that was still on its way comes after it (main.py:539-543).     *)
FinalStatusStays == [][shown = "final" => shown' = "final"]_answerVars

(* A job that ends without an exception has said how on the ack, whichever *)
(* way it ended, unless Discord refused that edit, and its spinner is gone. *)
EndsLabelled ==
  jpc = "done" =>
    /\ loader \in {"none", "over"}
    /\ flight = <<>> => shown = "final" \/ lost

(* Every job gets to the end of its handler: neither the spinner nor an    *)
(* edit that hangs in the air holds it up for good.                        *)
AnswerEnds == <>(jpc \in {"done", "escaped"})

=============================================================================
