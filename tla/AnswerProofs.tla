---------------------------- MODULE AnswerProofs ----------------------------
(***************************************************************************)
(* Proofs about what the user sees of a job, whatever the answer and the   *)
(* files: the ack ends with the status the job ended with, and what        *)
(* OutputsProofs shows of the hand-over holds of every job.                *)
(*                                                                         *)
(* The ack is settled by three facts together: the spinner asks for no     *)
(* more edits once the job says how it ended, so no "working" is behind a  *)
(* "final" on its way; Discord keeps that order; and a job that goes on    *)
(* after its label has seen the edit land, or fail.                        *)
(*                                                                         *)
(* That the job ends follows its stations: each has something that must    *)
(* come and that takes the job out of it, the stations lead one way, and   *)
(* a job that waits for an edit waits for two answers of Discord at most.  *)
(***************************************************************************)
EXTENDS Answer, OutputsProofs

Ending == {"label", "explain", "deliver", "complete", "done", "escaped"}

Has(q, what) == \E i \in DOMAIN q : q[i].what = what
From(q, who) == \E i \in DOMAIN q : q[i].by = who
Ordered(q) ==
  \A i, k \in DOMAIN q : i < k /\ q[i].what = "final" => q[k].what = "final"

AckInv ==
  /\ AckTypeOK
  /\ Ordered(flight)
  /\ shown = "final" => ~Has(flight, "working")
  /\ jpc \notin Ending => shown # "final" /\ ~Has(flight, "final")
  /\ loader \in {"sleeping", "editing"} => jpc \in {"running", "stopping"}
  /\ jpc \in Ending \ {"escaped"} => shown = "final" \/ lost \/ Has(flight, "final")

-----------------------------------------------------------------------------
(* The edits on their way.                                                 *)
LEMMA OneMoreEdit ==
  ASSUME NEW q \in Seq(Edit), NEW e \in Edit
  PROVE  /\ Append(q, e) \in Seq(Edit)
         /\ \A w : Has(Append(q, e), w) <=> Has(q, w) \/ e.what = w
         /\ \A w : From(Append(q, e), w) <=> From(q, w) \/ e.by = w
         /\ Ordered(q) /\ (Has(q, "final") => e.what = "final") => Ordered(Append(q, e))
<1> DEFINE r == Append(q, e)
           n == Len(q) + 1
<1>1. r \in Seq(Edit) /\ DOMAIN r = DOMAIN q \cup {n} /\ r[n] = e /\ n \notin DOMAIN q
      /\ \A i \in DOMAIN q : r[i] = q[i] /\ i < n
  OBVIOUS
<1> HIDE DEF r, n
<1>2. \A w : (Has(r, w) <=> Has(q, w) \/ e.what = w) /\ (From(r, w) <=> From(q, w) \/ e.by = w)
  BY <1>1 DEF Has, From
<1>3. ASSUME Ordered(q), Has(q, "final") => e.what = "final" PROVE Ordered(r)
  <2> SUFFICES ASSUME NEW i \in DOMAIN r, NEW k \in DOMAIN r, i < k, r[i].what = "final"
               PROVE  r[k].what = "final"
    BY DEF Ordered
  <2>1. CASE i \in DOMAIN q /\ k \in DOMAIN q
    BY <1>1, <1>3, <2>1 DEF Ordered
  <2>2. CASE i \in DOMAIN q /\ k = n
    BY <1>1, <1>3, <2>2 DEF Has
  <2>3. CASE i = n
    <3>1. n \in Int /\ \A x \in DOMAIN q : x \in Int
      BY DEF n
    <3> QED
      BY <1>1, <2>3, <3>1
  <2> QED
    BY <1>1, <2>1, <2>2, <2>3
<1> QED
  BY <1>1, <1>2, <1>3 DEF r

LEMMA OneEditLess ==
  ASSUME NEW q \in Seq(Edit), q # <<>>
  PROVE  /\ Tail(q) \in Seq(Edit) /\ Head(q) \in Edit
         /\ \A w : Has(q, w) <=> Head(q).what = w \/ Has(Tail(q), w)
         /\ \A w : From(Tail(q), w) => From(q, w)
         /\ Ordered(q) => Ordered(Tail(q))
         /\ Ordered(q) /\ Head(q).what = "final" => ~Has(Tail(q), "working")
<1> DEFINE r == Tail(q)
<1>1. r \in Seq(Edit) /\ Head(q) \in Edit /\ Head(q) = q[1] /\ 1 \in DOMAIN q
  OBVIOUS
<1>2. \A i \in DOMAIN r : i + 1 \in DOMAIN q /\ r[i] = q[i + 1] /\ 1 < i + 1 /\ i \in Int
  OBVIOUS
<1>3. \A i \in DOMAIN q : i # 1 => i - 1 \in DOMAIN r /\ r[i - 1] = q[i]
  OBVIOUS
<1> HIDE DEF r
<1>4. ASSUME NEW w PROVE Has(q, w) <=> q[1].what = w \/ Has(r, w)
  <2>1. ASSUME Has(q, w), q[1].what # w PROVE Has(r, w)
    <3>1. PICK i \in DOMAIN q : q[i].what = w
      BY <2>1 DEF Has
    <3>2. i # 1
      BY <2>1, <3>1
    <3> QED
      BY <1>3, <3>1, <3>2 DEF Has
  <2>2. Has(r, w) => Has(q, w)
    BY <1>2 DEF Has
  <2>3. q[1].what = w => Has(q, w)
    BY <1>1 DEF Has
  <2> QED
    BY <2>1, <2>2, <2>3
<1>5. \A w : From(r, w) => From(q, w)
  BY <1>2 DEF From
<1>6. Ordered(q) => Ordered(r)
  BY <1>2 DEF Ordered
<1>7. ASSUME Ordered(q), q[1].what = "final", Has(r, "working") PROVE FALSE
  BY <1>1, <1>2, <1>7 DEF Ordered, Has
<1> QED
  BY <1>1, <1>4, <1>5, <1>6, <1>7 DEF r

LEMMA EditFacts ==
  /\ \A who \in {"job", "loader"}, what \in {"working", "final"} : [by |-> who, what |-> what] \in Edit
  /\ \A who, what : [by |-> who, what |-> what].by = who /\ [by |-> who, what |-> what].what = what
BY DEF Edit

(* Steps of the job that ask for no edit.                                  *)
LEMMA QuietStep ==
  ASSUME AckInv, UNCHANGED <<flight, shown, lost>>, AckTypeOK',
         jpc' \in Ending \ {"escaped"} => jpc \in Ending \ {"escaped"},
         jpc \in Ending => jpc' \in Ending,
         loader' \in {"sleeping", "editing"} => jpc' \in {"running", "stopping"}
  PROVE  AckInv'
BY DEF AckInv, Has, Ordered

(* Steps of the job that ask for the edit that says how it ended.          *)
LEMMA LabelStep ==
  ASSUME AckInv, Request("job", "final"), UNCHANGED <<shown, lost, loader>>,
         loader \in {"none", "over"}, outcome' \in {"none", "ok", "failed", "timeout", "raised", "refused"},
         jpc' \in {"label", "done"}
  PROVE  AckInv'
<1> DEFINE e == [by |-> "job", what |-> "final"]
<1>1. e \in Edit /\ e.what = "final" /\ flight' = Append(flight, e) /\ flight \in Seq(Edit)
  BY EditFacts DEF Request, AckInv, AckTypeOK
<1> HIDE DEF e
<1>2. /\ flight' \in Seq(Edit) /\ Ordered(flight')
      /\ \A w : Has(flight', w) <=> Has(flight, w) \/ w = "final"
  BY <1>1, OneMoreEdit DEF AckInv
<1>3. AckTypeOK'
  BY <1>2 DEF AckInv, AckTypeOK
<1>4. \A w : Has(flight, w)' <=> Has(flight', w)
  BY DEF Has
<1> QED
  BY <1>2, <1>3, <1>4 DEF AckInv, Ending, Ordered

LEMMA WorkingStep ==
  ASSUME AckInv, NEW who \in {"job", "loader"}, Request(who, "working"),
         UNCHANGED <<shown, lost, outcome>>, jpc \notin Ending, jpc' \notin Ending,
         AckTypeOK', loader' \in {"sleeping", "editing"} => jpc' \in {"running", "stopping"}
  PROVE  AckInv'
<1> DEFINE e == [by |-> who, what |-> "working"]
<1>1. e \in Edit /\ e.what = "working" /\ flight' = Append(flight, e) /\ flight \in Seq(Edit)
  BY EditFacts DEF Request, AckInv, AckTypeOK
<1> HIDE DEF e
<1>2. ~Has(flight, "final") /\ shown # "final"
  BY DEF AckInv
<1>3. Ordered(flight') /\ ~Has(flight', "final")
  BY <1>1, <1>2, OneMoreEdit DEF AckInv
<1> QED
  BY <1>2, <1>3 DEF AckInv, Has, Ordered

LEMMA EditStep == ASSUME AckInv, Land \/ EditFails PROVE AckInv'
<1>1. flight \in Seq(Edit) /\ flight # <<>> /\ flight' = Tail(flight)
      /\ UNCHANGED <<jpc, outcome, loader>>
  BY DEF AckInv, AckTypeOK, Land, EditFails
<1>2. /\ flight' \in Seq(Edit) /\ Head(flight).what \in {"working", "final"}
      /\ \A w : Has(flight, w) <=> Head(flight).what = w \/ Has(flight', w)
      /\ \A w : From(flight', w) => From(flight, w)
      /\ Ordered(flight')
      /\ Head(flight).what = "final" => ~Has(flight', "working")
  BY <1>1, OneEditLess DEF AckInv, Edit
<1>3. (shown' = shown /\ lost' = (lost \/ Head(flight).what = "final"))
        \/ (shown' = Head(flight).what /\ lost' = lost)
  BY DEF Land, EditFails
<1>4. AckTypeOK'
  <2>1. EditOf("job")' => EditOf("job")
    BY <1>2 DEF EditOf, From
  <2>2. shown' \in {"queued", "working", "final"} /\ lost' \in BOOLEAN
    BY <1>2, <1>3 DEF AckInv, AckTypeOK
  <2> QED
    BY <1>1, <1>2, <2>1, <2>2 DEF AckInv, AckTypeOK
<1>5. (\A w : Has(flight, w)' <=> Has(flight', w)) /\ Ordered(flight)' = Ordered(flight')
  BY DEF Has, Ordered
<1> QED
  BY <1>1, <1>2, <1>3, <1>4, <1>5 DEF AckInv

LEMMA SpinnerStep == ASSUME AckInv, Spin \/ Spun \/ Cancelled PROVE AckInv'
<1>1. CASE Spin
  <2>1. AckTypeOK'
    <3> DEFINE e == [by |-> "loader", what |-> "working"]
    <3>1. e \in Edit /\ e.by = "loader" /\ flight' = Append(flight, e) /\ flight \in Seq(Edit)
      BY <1>1, EditFacts DEF Spin, Request, AckInv, AckTypeOK
    <3> HIDE DEF e
    <3>2. flight' \in Seq(Edit) /\ (From(flight', "job") => From(flight, "job"))
      BY <3>1, OneMoreEdit
    <3> QED
      BY <1>1, <3>2 DEF Spin, AckInv, AckTypeOK, EditOf, From
  <2> QED
    BY <1>1, <2>1, WorkingStep DEF Spin, AckInv, Ending
<1>2. CASE Spun
  <2>1. AckTypeOK'
    BY <1>2 DEF Spun, AckInv, AckTypeOK, EditOf
  <2> QED
    BY <1>2, <2>1, QuietStep DEF Spun, AckInv
<1>3. CASE Cancelled
  <2>1. jpc = "stopping" /\ jpc' = jpc /\ loader' = "over" /\ shown # "final" /\ shown' = shown
    BY <1>3 DEF Cancelled, AckInv, Ending
  <2>2. CASE flight' = flight
    <3>1. AckTypeOK'
      BY <1>3, <2>2 DEF Cancelled, AckInv, AckTypeOK, EditOf
    <3> QED
      BY <1>3, <2>1, <2>2, <3>1, QuietStep DEF Cancelled
  <2>3. CASE flight' = <<>>
    <3>1. flight' \in Seq(Edit) /\ (\A w : ~Has(flight, w)') /\ ~EditOf("job")' /\ Ordered(flight)'
      BY <2>3 DEF Has, EditOf, Ordered
    <3>2. AckTypeOK'
      BY <1>3, <3>1 DEF Cancelled, AckInv, AckTypeOK
    <3> QED
      BY <2>1, <3>1, <3>2 DEF AckInv, Ending
  <2> QED
    BY <1>3, <2>2, <2>3 DEF Cancelled
<1> QED
  BY <1>1, <1>2, <1>3

LEMMA JobStepKeeps == ASSUME AckInv, JobStep PROVE AckInv'
<1> USE DEF Becomes
<1>1. CASE SlotHeld \/ PrepareRaises \/ Relabelled \/ StoreRaises \/ Labelled \/ Explained
             \/ Deliver \/ Delivering \/ Delivered \/ Escapes
  <2>1. AckTypeOK'
    BY <1>1 DEF AckInv, AckTypeOK, EditOf, SlotHeld, PrepareRaises, Relabelled, Running,
                StoreRaises, Labelled, Explained, Deliver, Delivering, Delivered, Escapes, ackVars
  <2> QED
    BY <1>1, <2>1, QuietStep
       DEF AckInv, Ending, SlotHeld, PrepareRaises, Relabelled, Running, StoreRaises, Labelled,
           Explained, Deliver, Delivering, Delivered, Escapes, ackVars
<1>2. ASSUME NEW how \in {"ok", "failed", "timeout", "raised"}, RunEnds(how) PROVE AckInv'
  <2>1. AckTypeOK'
    BY <1>2 DEF AckInv, AckTypeOK, EditOf, RunEnds
  <2> QED
    BY <1>2, <2>1, QuietStep DEF AckInv, Ending, RunEnds
<1>3. CASE Prepared
  <2>1. CASE shown = "queued"
    <3> DEFINE e == [by |-> "job", what |-> "working"]
    <3>1. e \in Edit /\ flight' = Append(flight, e) /\ flight \in Seq(Edit)
      BY <1>3, <2>1, EditFacts DEF Prepared, Request, AckInv, AckTypeOK
    <3> HIDE DEF e
    <3>2. flight' \in Seq(Edit)
      BY <3>1, OneMoreEdit
    <3>3. AckTypeOK'
      BY <1>3, <2>1, <3>2 DEF Prepared, AckInv, AckTypeOK
    <3> QED
      BY <1>3, <2>1, <3>3, WorkingStep DEF Prepared, AckInv, Ending
  <2>2. CASE shown # "queued"
    <3>1. AckTypeOK'
      BY <1>3, <2>2 DEF Prepared, Running, AckInv, AckTypeOK, EditOf
    <3> QED
      BY <1>3, <2>2, <3>1, QuietStep DEF Prepared, Running, AckInv, Ending
  <2> QED
    BY <2>1, <2>2
<1>4. CASE Refused
  BY <1>4, LabelStep DEF Refused, Label, AckInv, AckTypeOK
<1>5. CASE Reaped
  BY <1>5, LabelStep DEF Reaped, Label, AckInv, AckTypeOK
<1>6. CASE Stopped
  <2>1. CASE outcome = "timeout"
    <3>1. AckTypeOK'
      BY <1>6, <2>1 DEF Stopped, AckInv, AckTypeOK, EditOf
    <3> QED
      BY <1>6, <2>1, <3>1, QuietStep DEF Stopped, AckInv, Ending
  <2>2. CASE outcome # "timeout"
    BY <1>6, <2>2, LabelStep DEF Stopped, Label, AckInv, AckTypeOK
  <2> QED
    BY <2>1, <2>2
<1>7. ASSUME NEW debug \in BOOLEAN, Complete(debug) PROVE AckInv'
  <2>1. CASE debug
    BY <1>7, <2>1, LabelStep DEF Complete, AckInv, AckTypeOK
  <2>2. CASE ~debug
    <3>1. AckTypeOK'
      BY <1>7, <2>2 DEF Complete, AckInv, AckTypeOK, EditOf
    <3> QED
      BY <1>7, <2>2, <3>1, QuietStep DEF Complete, AckInv, Ending
  <2> QED
    BY <2>1, <2>2
<1> QED
  BY <1>1, <1>2, <1>3, <1>4, <1>5, <1>6, <1>7 DEF JobStep

LEMMA AckKeeps == AnswerSpec => []AckInv
<1>1. AnswerInit => AckInv
  <2> SUFFICES ASSUME AnswerInit PROVE AckInv
    OBVIOUS
  <2>1. flight \in Seq(Edit) /\ (\A w : ~Has(flight, w)) /\ ~EditOf("job") /\ Ordered(flight)
    BY DEF AnswerInit, Has, EditOf, Ordered
  <2> QED
    BY <2>1 DEF AnswerInit, AckInv, AckTypeOK, Ending
<1>2. AckInv /\ [AnswerNext]_answerVars => AckInv'
  <2> SUFFICES ASSUME AckInv, [AnswerNext]_answerVars PROVE AckInv'
    OBVIOUS
  <2>1. CASE UNCHANGED answerVars
    <3>1. AckTypeOK'
      BY <2>1 DEF answerVars, ackVars, AckInv, AckTypeOK, EditOf
    <3> QED
      BY <2>1, <3>1, QuietStep DEF answerVars, ackVars, AckInv
  <2> QED
    BY <2>1, JobStepKeeps, EditStep, SpinnerStep DEF AnswerNext, Discord
<1> QED
  BY <1>1, <1>2, PTL DEF AnswerSpec

-----------------------------------------------------------------------------
(* The hand-over of a job is what Outputs specifies: nothing else that the *)
(* job, the spinner or Discord does touches it.                            *)
THEOREM JobHandsOver == AnswerSpec => OutputsSpec
<1>1. AnswerInit => OutputsInit
  BY DEF AnswerInit
<1>2. [AnswerNext]_answerVars => [OutputsNext]_<<chunkVars, outputsVars>>
  <2> SUFFICES ASSUME [AnswerNext]_answerVars
               PROVE  OutputsNext \/ UNCHANGED sendVars
    BY DEF sendVars
  <2>1. CASE Deliver
    <3>1. (outcome = "ok") \in BOOLEAN
      OBVIOUS
    <3> QED
      BY <2>1, <3>1 DEF Deliver, OutputsNext
  <2>2. CASE Delivering
    BY <2>2 DEF Delivering, OutputsNext
  <2>3. CASE UNCHANGED answerVars
    BY <2>3 DEF answerVars
  <2>4. CASE Discord \/ Spin \/ Spun \/ Cancelled
    BY <2>4 DEF Discord, Land, EditFails, Spin, Spun, Cancelled
  <2>5. CASE JobStep /\ ~Deliver /\ ~Delivering
    BY <2>5 DEF JobStep, SlotHeld, Prepared, Refused, PrepareRaises, Relabelled, RunEnds, Stopped,
                StoreRaises, Reaped, Labelled, Explained, Delivered, Escapes, Complete
  <2> QED
    BY <2>1, <2>2, <2>3, <2>4, <2>5 DEF AnswerNext
<1> QED
  BY <1>1, <1>2, PTL DEF AnswerSpec, OutputsSpec

(* The state of a job's answer keeps its types, and every message of every *)
(* job fits for which the headroom is enough: for the fence lines of the   *)
(* answer and the message's own astral characters (_send_body_text,        *)
(* outputs.py:493-511).                                                    *)
THEOREM AnswersFit == AnswerSpec => [](AnswerTypeOK /\ DiscordTakesIt)
<1>1. AckInv => AckTypeOK
  BY DEF AckInv
<1> QED
  BY JobHandsOver, HandingOverKeeps, OutputsInvPromises, AckKeeps, <1>1, PTL DEF AnswerTypeOK

(* What either bookkeeping file lists arrives, nothing arrives twice, and  *)
(* who is owed a word gets one (send_outputs, outputs.py:59-93).           *)
THEOREM AnswersArrive == AnswerSpec => [](NeverSilent /\ ListedFilesArrive /\ AttachedOnce)
BY JobHandsOver, HandingOver, PTL

(* And nothing of its text is lost or out of order; and in each message up *)
(* to whose end _chunk follows the fences, code shows as code and prose as *)
(* prose.  Behind a nested fence or a line of code above the limit they    *)
(* need not (_chunk, outputs.py:528-583).                                  *)
THEOREM AnswersArriveWhole == AnswerSpec => [](FencesSurvive /\ NothingLost)
BY JobHandsOver, HandedOverWhole, PTL

(* However the run, the spinner and Discord interleave, a job that reaches *)
(* its end has its status on the ack, unless Discord refused that edit.    *)
THEOREM AckEndsLabelled == AnswerSpec => []EndsLabelled
<1>1. ASSUME AckInv, jpc = "done" PROVE loader \in {"none", "over"}
  BY <1>1 DEF AckInv, AckTypeOK
<1>2. ASSUME AckInv, jpc = "done", flight = <<>> PROVE shown = "final" \/ lost
  BY <1>2 DEF AckInv, Ending, Has
<1> QED
  BY AckKeeps, <1>1, <1>2, PTL DEF AckInv, EndsLabelled

(* And that status stays: an edit of the spinner that is still on its way  *)
(* when it is stopped is overtaken by no later one.                        *)
THEOREM FinalStatusIsLast == AnswerSpec => FinalStatusStays
<1>1. AckInv /\ [AnswerNext]_answerVars => [shown = "final" => shown' = "final"]_answerVars
  <2> SUFFICES ASSUME AckInv, [AnswerNext]_answerVars, shown = "final" PROVE shown' = "final"
    OBVIOUS
  <2>1. CASE Land
    <3>1. Head(flight).what \in {"working", "final"} /\ (Head(flight).what = "working" => Has(flight, "working"))
      BY <2>1, OneEditLess DEF AckInv, AckTypeOK, Land, Edit
    <3> QED
      BY <2>1, <3>1 DEF Land, AckInv
  <2>2. CASE UNCHANGED answerVars
    BY <2>2 DEF answerVars, ackVars
  <2>3. CASE EditFails \/ Spin \/ Spun \/ Cancelled
    BY <2>3 DEF EditFails, Spin, Spun, Cancelled
  <2>4. CASE JobStep
    BY <2>4 DEF JobStep, SlotHeld, Prepared, Refused, PrepareRaises, Relabelled, RunEnds, Stopped,
                StoreRaises, Reaped, Labelled, Explained, Deliver, Delivering, Delivered, Escapes,
                Complete, Label, ackVars
  <2> QED
    BY <2>1, <2>2, <2>3, <2>4 DEF AnswerNext, Discord
<1> QED
  BY AckKeeps, <1>1, PTL DEF AnswerSpec, FinalStatusStays

-----------------------------------------------------------------------------
(* The job comes to its end.  Fairness is written out with the guard of    *)
(* each action, a predicate, instead of ENABLED.                           *)

(* The job goes on whenever nothing it awaits is outstanding...            *)
Going ==
  \/ jpc \notin {"relabel", "label", "stopping", "done", "escaped"}
  \/ jpc \in {"relabel", "label"} /\ ~EditOf("job")
  \/ jpc = "stopping" /\ loader = "over"
GoesOn == []<>(~Going) \/ []<><<JobStep>>_answerVars

(* ... Discord answers, and a cancellation reaches the spinner.            *)
Answers == []<>(flight = <<>>) \/ []<><<Discord>>_answerVars
Spinning == loader \in {"sleeping", "editing"}
CancelReaches == []<>(~(jpc = "stopping" /\ Spinning)) \/ []<><<Cancelled>>_answerVars

(* While the job waits for an edit of its own no more than one other edit  *)
(* is on its way; so finitely many answers of Discord let it go on.        *)
AirInv ==
  /\ AckInv
  /\ jpc \in {"waiting", "preparing", "relabel"} => loader = "none"
  /\ jpc \in {"running", "stopping"} => loader # "none"
  /\ jpc \in {"stopping", "reaping", "label"} => outcome # "none"
  /\ EditOf("loader") => loader # "none"
  /\ jpc \in {"waiting", "preparing"} => flight = <<>>
  /\ jpc = "running" /\ loader # "editing" => flight = <<>>
  /\ jpc \in {"relabel", "running", "stopping", "reaping"} => Len(flight) <= 1
  /\ jpc = "label" => Len(flight) <= 2

LEMMA NoEdits ==
  ASSUME NEW q \in Seq(Edit), ~From(q, "job"), ~From(q, "loader") PROVE q = <<>>
<1> SUFFICES ASSUME q # <<>> PROVE FALSE
  OBVIOUS
<1>1. 1 \in DOMAIN q /\ q[1] \in Edit
  OBVIOUS
<1> QED
  BY <1>1 DEF From, Edit

LEMMA EditOfFrom == \A who : EditOf(who) <=> From(flight, who)
BY DEF EditOf, From

(* What a request adds.                                                    *)
LEMMA RequestFacts ==
  ASSUME flight \in Seq(Edit), NEW who \in {"job", "loader"}, NEW what \in {"working", "final"},
         Request(who, what)
  PROVE  /\ Len(flight') = Len(flight) + 1 /\ Len(flight) \in Nat
         /\ flight = <<>> => Len(flight) = 0
         /\ \A w : EditOf(w)' <=> EditOf(w) \/ w = who
<1> DEFINE e == [by |-> who, what |-> what]
<1>1. e \in Edit /\ e.by = who /\ flight' = Append(flight, e)
  BY EditFacts DEF Request
<1> HIDE DEF e
<1>2. \A w : From(flight', w) <=> From(flight, w) \/ w = who
  BY <1>1, OneMoreEdit
<1>3. Len(flight') = Len(flight) + 1 /\ Len(flight) \in Nat /\ (flight = <<>> => Len(flight) = 0)
  BY <1>1
<1> QED
  BY <1>2, <1>3 DEF EditOf, From

(* What an answer of Discord takes away.                                   *)
LEMMA DiscordTakes ==
  ASSUME flight \in Seq(Edit), Discord
  PROVE  /\ flight # <<>> /\ Len(flight) \in Nat \ {0} /\ Len(flight') = Len(flight) - 1
         /\ Len(flight') = 0 => flight' = <<>>
         /\ \A w : EditOf(w)' => EditOf(w)
         /\ UNCHANGED <<jpc, outcome, loader>>
<1>1. flight # <<>> /\ flight' = Tail(flight) /\ UNCHANGED <<jpc, outcome, loader>>
  BY DEF Discord, Land, EditFails
<1>2. Len(flight) \in Nat \ {0} /\ Len(Tail(flight)) = Len(flight) - 1
      /\ (Len(Tail(flight)) = 0 => Tail(flight) = <<>>)
  BY <1>1
<1>3. \A w : From(flight', w) => From(flight, w)
  BY <1>1, OneEditLess
<1> QED
  BY <1>1, <1>2, <1>3 DEF EditOf, From

LEMMA AirFacts ==
  ASSUME AirInv
  PROVE  /\ flight \in Seq(Edit) /\ Len(flight) \in Nat
         /\ (Len(flight) = 0 => flight = <<>>) /\ (flight = <<>> => Len(flight) = 0)
         /\ flight = <<>> => \A w : ~EditOf(w)
         /\ ~EditOf("job") /\ ~EditOf("loader") => flight = <<>>
         /\ loader \in {"none", "sleeping", "editing", "over"}
         /\ Spinning => jpc \in {"running", "stopping"}
         /\ EditOf("job") => jpc \in {"relabel", "label", "done"}
<1>1. flight \in Seq(Edit)
  BY DEF AirInv, AckInv, AckTypeOK
<1>2. Len(flight) \in Nat /\ (Len(flight) = 0 => flight = <<>>) /\ (flight = <<>> => Len(flight) = 0)
  BY <1>1
<1>3. flight = <<>> => \A w : ~EditOf(w)
  BY DEF EditOf
<1>4. ~EditOf("job") /\ ~EditOf("loader") => flight = <<>>
  BY <1>1, EditOfFrom, NoEdits
<1> QED
  BY <1>1, <1>2, <1>3, <1>4 DEF AirInv, AckInv, AckTypeOK, Spinning

LEMMA JobKeepsAir == ASSUME AirInv, JobStep PROVE AirInv'
<1> USE DEF Becomes
<1>0. AckInv'
  BY JobStepKeeps DEF AirInv
<1>1. flight' = flight => \A w : EditOf(w)' <=> EditOf(w)
  BY DEF EditOf
<1>2. CASE \/ SlotHeld \/ PrepareRaises \/ StoreRaises \/ Labelled \/ Explained
           \/ Deliver \/ Delivering \/ Delivered \/ Escapes
  BY <1>0, <1>1, <1>2
     DEF AirInv, SlotHeld, PrepareRaises, StoreRaises, Labelled, Explained, Deliver, Delivering,
         Delivered, Escapes, ackVars
<1>3. CASE Prepared
  <2>1. CASE shown = "queued"
    <3>1. Request("job", "working") /\ jpc' = "relabel" /\ loader' = loader /\ outcome' = outcome
      BY <1>3, <2>1 DEF Prepared
    <3>2. jpc = "preparing" /\ flight = <<>> /\ loader = "none"
      BY <1>3 DEF Prepared, AirInv
    <3>3. flight \in Seq(Edit) /\ Len(flight) = 0 /\ ~EditOf("loader")
      BY <3>2, AirFacts
    <3>4. Len(flight') = Len(flight) + 1 /\ (EditOf("loader")' => EditOf("loader"))
      BY <3>1, <3>3, RequestFacts
    <3> QED
      BY <1>0, <3>1, <3>2, <3>3, <3>4 DEF AirInv
  <2>2. CASE shown # "queued"
    BY <1>0, <1>1, <1>3, <2>2, AirFacts DEF Prepared, Running, AirInv
  <2> QED
    BY <2>1, <2>2
<1>4. CASE Relabelled
  BY <1>0, <1>1, <1>4, AirFacts DEF Relabelled, Running, AirInv
<1>5. ASSUME NEW how \in {"ok", "failed", "timeout", "raised"}, RunEnds(how) PROVE AirInv'
  BY <1>0, <1>1, <1>5, AirFacts DEF RunEnds, AirInv
<1>6. ASSUME NEW how, Label(how), how # "none", Len(flight) <= 1, loader' = loader PROVE AirInv'
  <2>1. jpc' = "label" /\ outcome' = how /\ Request("job", "final")
    BY <1>6 DEF Label
  <2>2. Len(flight') <= 2 /\ (EditOf("loader")' => EditOf("loader"))
    BY <1>6, <2>1, AirFacts, RequestFacts
  <2> QED
    BY <1>0, <1>6, <2>1, <2>2 DEF AirInv
<1>7. CASE Refused \/ Reaped
  <2>1. Len(flight) <= 1 /\ (jpc = "reaping" => outcome # "none")
    BY <1>7, AirFacts DEF Refused, Reaped, AirInv
  <2> QED
    BY <1>6, <1>7, <2>1 DEF Refused, Reaped
<1>8. CASE Stopped
  <2>1. jpc = "stopping" /\ Len(flight) <= 1 /\ outcome # "none" /\ loader' = loader
    BY <1>8 DEF Stopped, AirInv
  <2>2. CASE outcome = "timeout"
    BY <1>0, <1>1, <1>8, <2>1, <2>2 DEF Stopped, AirInv
  <2>3. CASE outcome # "timeout"
    BY <1>6, <1>8, <2>1, <2>3 DEF Stopped
  <2> QED
    BY <2>2, <2>3
<1>9. ASSUME NEW debug \in BOOLEAN, Complete(debug) PROVE AirInv'
  <2>1. jpc' = "done" /\ UNCHANGED <<loader, outcome>>
    BY <1>9 DEF Complete
  <2>2. EditOf("loader")' => EditOf("loader")
    <3>1. CASE debug
      BY <1>9, <3>1, AirFacts, RequestFacts DEF Complete
    <3>2. CASE ~debug
      BY <1>1, <1>9, <3>2 DEF Complete
    <3> QED
      BY <3>1, <3>2
  <2> QED
    BY <1>0, <2>1, <2>2 DEF AirInv
<1> QED
  BY <1>2, <1>3, <1>4, <1>5, <1>7, <1>8, <1>9 DEF JobStep

LEMMA OthersKeepAir ==
  ASSUME AirInv, Discord \/ Spin \/ Spun \/ Cancelled \/ UNCHANGED answerVars, AckInv'
  PROVE  AirInv'
<1>1. flight' = flight => \A w : EditOf(w)' <=> EditOf(w)
  BY DEF EditOf
<1>2. CASE Discord
  <2>1. /\ UNCHANGED <<jpc, outcome, loader>> /\ flight # <<>> /\ Len(flight') < Len(flight)
        /\ Len(flight') \in Nat /\ (EditOf("loader")' => EditOf("loader"))
    BY <1>2, AirFacts, DiscordTakes
  <2> QED
    BY <2>1, AirFacts DEF AirInv
<1>3. CASE Spin
  <2>1. jpc = "running" /\ flight = <<>> /\ Request("loader", "working") /\ loader' = "editing"
        /\ UNCHANGED <<jpc, outcome>>
    BY <1>3, AirFacts DEF Spin, AirInv, Spinning
  <2>2. flight \in Seq(Edit) /\ Len(flight) = 0
    BY <2>1, AirFacts
  <2>3. Len(flight') = Len(flight) + 1
    BY <2>1, <2>2, RequestFacts
  <2> QED
    BY <2>1, <2>2, <2>3 DEF AirInv
<1>4. CASE Spun
  <2>1. jpc = "running" /\ UNCHANGED <<jpc, outcome, flight>> /\ loader' \in {"sleeping", "over"}
        /\ flight = <<>>
    BY <1>4, AirFacts DEF Spun, AirInv, Spinning
  <2> QED
    BY <1>1, <2>1 DEF AirInv
<1>5. CASE Cancelled
  <2>1. jpc = "stopping" /\ UNCHANGED <<jpc, outcome>> /\ loader' = "over"
        /\ Len(flight') <= 1
    <3>1. Len(<<>>) <= 1
      OBVIOUS
    <3> QED
      BY <1>5, <3>1 DEF Cancelled, AirInv
  <2> QED
    BY <2>1 DEF AirInv
<1>6. CASE UNCHANGED answerVars
  BY <1>1, <1>6 DEF answerVars, ackVars, AirInv
<1> QED
  BY <1>2, <1>3, <1>4, <1>5, <1>6

LEMMA AirKeeps == AnswerSpec => []AirInv
<1>1. AnswerInit /\ AckInv => AirInv
  <2> SUFFICES ASSUME AnswerInit, AckInv PROVE AirInv
    OBVIOUS
  <2>1. flight = <<>> /\ ~EditOf("loader")
    BY DEF AnswerInit, EditOf
  <2> QED
    BY <2>1 DEF AnswerInit, AirInv
<1>2. AckInv' /\ AirInv /\ [AnswerNext]_answerVars => AirInv'
  BY JobKeepsAir, OthersKeepAir DEF AnswerNext
<1> QED
  BY <1>1, <1>2, AckKeeps, PTL DEF AnswerSpec

-----------------------------------------------------------------------------
(* The stations of a job.                                                  *)
At(label) == jpc = label
Asked(label, n) == jpc = label /\ Len(flight) = n
Halting == jpc = "stopping" /\ loader # "over"
Halted == jpc = "stopping" /\ loader = "over"
Finished == jpc \in {"done", "escaped"}

LEMMA JobStations ==
  ASSUME AirInv
  PROVE  /\ \/ Finished \/ At("waiting") \/ At("preparing") \/ At("relabel") \/ At("running")
            \/ At("stopping") \/ At("reaping") \/ At("label") \/ At("explain") \/ At("deliver")
            \/ At("complete")
         /\ At("relabel") => Asked("relabel", 0) \/ Asked("relabel", 1)
         /\ At("label") => Asked("label", 0) \/ Asked("label", 1) \/ Asked("label", 2)
         /\ At("stopping") <=> Halting \/ Halted
<1>0. \A n \in Nat : (n <= 1 => n = 0 \/ n = 1) /\ (n <= 2 => n = 0 \/ n = 1 \/ n = 2)
  OBVIOUS
<1>1. At("relabel") => Asked("relabel", 0) \/ Asked("relabel", 1)
  <2>1. At("relabel") => Len(flight) \in Nat /\ Len(flight) <= 1
    BY AirFacts DEF At, AirInv
  <2> QED
    BY <1>0, <2>1, Zenon DEF At, Asked
<1>2. At("label") => Asked("label", 0) \/ Asked("label", 1) \/ Asked("label", 2)
  <2>1. At("label") => Len(flight) \in Nat /\ Len(flight) <= 2
    BY AirFacts DEF At, AirInv
  <2> QED
    BY <1>0, <2>1, Zenon DEF At, Asked
<1> QED
  BY <1>1, <1>2 DEF At, Finished, Halting, Halted, AirInv, AckInv, AckTypeOK

(* The job leaves each by its own step, towards the end...                 *)
LEMMA JobMovesOn ==
  ASSUME AirInv, JobStep
  PROVE  /\ At("waiting") => At("preparing")'
         /\ At("preparing") => (At("relabel") \/ At("running") \/ At("label") \/ Finished)'
         /\ At("relabel") => At("running")'
         /\ At("running") => At("stopping")'
         /\ ~Halting
         /\ Halted => (At("reaping") \/ At("label") \/ Finished)'
         /\ At("reaping") => At("label")'
         /\ At("label") => (At("explain") \/ At("deliver"))'
         /\ At("explain") => (At("deliver") \/ At("complete") \/ Finished)'
         /\ At("deliver") => (At("deliver") \/ At("complete") \/ Finished)'
         /\ At("complete") => Finished'
         /\ ~Finished
<1> USE DEF At, Halting, Halted, Finished, Becomes, Label
<1>1. CASE SlotHeld \/ Prepared \/ Refused \/ PrepareRaises \/ Relabelled
  BY <1>1 DEF SlotHeld, Prepared, Refused, PrepareRaises, Relabelled, Running
<1>2. CASE \E how \in {"ok", "failed", "timeout", "raised"} : RunEnds(how)
  BY <1>2 DEF RunEnds
<1>3. CASE Stopped \/ StoreRaises \/ Reaped
  BY <1>3 DEF Stopped, StoreRaises, Reaped
<1>4. CASE Labelled \/ Explained \/ Deliver \/ Delivering \/ Delivered \/ Escapes
  BY <1>4 DEF Labelled, Explained, Deliver, Delivering, Delivered, Escapes, ackVars
<1>5. CASE \E debug \in BOOLEAN : Complete(debug)
  BY <1>5 DEF Complete
<1> QED
  BY <1>1, <1>2, <1>3, <1>4, <1>5 DEF JobStep

(* ... and nobody else moves it; what they do only takes from the edits a  *)
(* waiting job waits for.                                                  *)
LEMMA OthersLeaveIt ==
  ASSUME AirInv, [AnswerNext]_answerVars, ~JobStep
  PROVE  /\ jpc' = jpc
         /\ loader = "over" => loader' = "over"
         /\ jpc \in {"relabel", "label"} =>
              /\ Len(flight) \in Nat /\ Len(flight') \in Nat
              /\ Len(flight') = Len(flight) \/ Len(flight') = Len(flight) - 1
         /\ Discord /\ jpc \in {"relabel", "label"} => Len(flight') = Len(flight) - 1
         /\ Cancelled => loader' = "over"
<1>1. CASE Discord
  <2>1. UNCHANGED <<jpc, loader>> /\ Len(flight') = Len(flight) - 1 /\ Len(flight) \in Nat \ {0}
    BY <1>1, AirFacts, DiscordTakes
  <2>2. ~Cancelled
    BY <2>1 DEF Cancelled
  <2> QED
    BY <2>1, <2>2
<1>2. ASSUME Spin \/ Spun \/ Cancelled \/ UNCHANGED answerVars, ~Discord
      PROVE  /\ jpc' = jpc
             /\ loader = "over" => loader' = "over"
             /\ jpc \in {"relabel", "label"} => flight' = flight
             /\ Cancelled => loader' = "over"
  BY <1>2, AirFacts DEF Spin, Spun, Cancelled, Spinning, answerVars, ackVars
<1>3. Len(flight) \in Nat /\ (flight' = flight => Len(flight') = Len(flight))
  BY AirFacts
<1> QED
  BY <1>1, <1>2, <1>3 DEF AnswerNext

LEMMA JobMoves ==
  ASSUME AirInv, [AnswerNext]_answerVars
  PROVE  /\ At("waiting") => (At("waiting") \/ At("preparing"))'
         /\ At("preparing") =>
              (At("preparing") \/ At("relabel") \/ At("running") \/ At("label") \/ Finished)'
         /\ Asked("relabel", 1) => (Asked("relabel", 1) \/ Asked("relabel", 0) \/ At("running"))'
         /\ Asked("relabel", 0) => (Asked("relabel", 0) \/ At("running"))'
         /\ At("running") => (At("running") \/ At("stopping"))'
         /\ Halting => (Halting \/ Halted)'
         /\ Halted => (Halted \/ At("reaping") \/ At("label") \/ Finished)'
         /\ At("reaping") => (At("reaping") \/ At("label"))'
         /\ Asked("label", 2) =>
              (Asked("label", 2) \/ Asked("label", 1) \/ At("explain") \/ At("deliver"))'
         /\ Asked("label", 1) =>
              (Asked("label", 1) \/ Asked("label", 0) \/ At("explain") \/ At("deliver"))'
         /\ Asked("label", 0) => (Asked("label", 0) \/ At("explain") \/ At("deliver"))'
         /\ At("explain") => (At("explain") \/ At("deliver") \/ At("complete") \/ Finished)'
         /\ At("deliver") => (At("deliver") \/ At("complete") \/ Finished)'
         /\ At("complete") => (At("complete") \/ Finished)'
         /\ Finished => Finished'
<1>1. CASE JobStep
  BY <1>1, JobMovesOn DEF Asked, At, Halting, Halted, Finished
<1>2. CASE ~JobStep
  <2>1. /\ jpc' = jpc /\ (loader = "over" => loader' = "over")
        /\ jpc \in {"relabel", "label"} =>
              /\ Len(flight) \in Nat /\ Len(flight') \in Nat
              /\ Len(flight') = Len(flight) \/ Len(flight') = Len(flight) - 1
    BY <1>2, OthersLeaveIt
  <2>2. \A k, n \in Nat : k = n \/ k = n - 1 =>
          /\ n = 2 => k = 2 \/ k = 1
          /\ n = 1 => k = 1 \/ k = 0
          /\ n = 0 => k = 0
    OBVIOUS
  <2>3. jpc \in {"relabel", "label"} =>
          /\ Len(flight) = 2 => Len(flight') = 2 \/ Len(flight') = 1
          /\ Len(flight) = 1 => Len(flight') = 1 \/ Len(flight') = 0
          /\ Len(flight) = 0 => Len(flight') = 0
    BY <2>1, <2>2, Zenon
  <2>4. /\ Asked("relabel", 1) => (Asked("relabel", 1) \/ Asked("relabel", 0))'
        /\ Asked("relabel", 0) => Asked("relabel", 0)'
        /\ Asked("label", 2) => (Asked("label", 2) \/ Asked("label", 1))'
        /\ Asked("label", 1) => (Asked("label", 1) \/ Asked("label", 0))'
        /\ Asked("label", 0) => Asked("label", 0)'
    BY <2>1, <2>3, Zenon DEF Asked
  <2> QED
    BY <2>1, <2>4 DEF At, Halting, Halted, Finished
<1> QED
  BY <1>1, <1>2

(* An answer of Discord, and the cancellation, take a waiting job on.      *)
LEMMA OthersTakeItOn ==
  ASSUME AirInv
  PROVE  /\ Discord => /\ Asked("relabel", 1) => Asked("relabel", 0)'
                       /\ Asked("label", 2) => Asked("label", 1)'
                       /\ Asked("label", 1) => Asked("label", 0)'
         /\ Cancelled /\ Halting => Halted'
<1>1. ASSUME Discord PROVE jpc' = jpc /\ Len(flight') = Len(flight) - 1
  BY <1>1, AirFacts, DiscordTakes
<1>2. 2 - 1 = 1 /\ 1 - 1 = 0
  OBVIOUS
<1>3. Cancelled /\ Halting => Halted'
  BY DEF Cancelled, Halting, Halted
<1> QED
  BY <1>1, <1>2, <1>3, Zenon DEF Asked

(* At each station there is somebody who has to do something.              *)
LEMMA SomebodyIsDue ==
  ASSUME AirInv
  PROVE  /\ At("waiting") \/ At("preparing") \/ At("running") \/ Halted \/ At("reaping") => Going
         /\ At("explain") \/ At("deliver") \/ At("complete") => Going
         /\ Asked("relabel", 0) \/ Asked("label", 0) => Going
         /\ Asked("relabel", 1) \/ Asked("label", 1) \/ Asked("label", 2) => ~(flight = <<>>)
         /\ Halting => jpc = "stopping" /\ Spinning
<1>1. Asked("relabel", 0) \/ Asked("label", 0) => ~EditOf("job")
  BY AirFacts DEF Asked
<1>2. Asked("relabel", 1) \/ Asked("label", 1) \/ Asked("label", 2) => ~(flight = <<>>)
  BY AirFacts DEF Asked
<1>3. Halting => jpc = "stopping" /\ Spinning
  BY AirFacts DEF Halting, Spinning, AirInv
<1> QED
  BY <1>1, <1>2, <1>3 DEF Going, At, Asked, Halted

(* However Discord, the spinner and the run interleave, every job comes to *)
(* where it hands its answer over, or to its end, and from there to its    *)
(* end if the handing over ends (_dispatch_job to _complete_job).          *)
THEOREM AnswersComeToTheirEnd ==
  AnswerSpec /\ GoesOn /\ Answers /\ CancelReaches =>
    /\ <>(jpc \in {"deliver", "done", "escaped"})
    /\ (jpc = "deliver" ~> jpc # "deliver") => AnswerEnds
<1>1. AirInv =>
        /\ \/ Finished \/ At("waiting") \/ At("preparing") \/ At("relabel") \/ At("running")
           \/ At("stopping") \/ At("reaping") \/ At("label") \/ At("explain") \/ At("deliver")
           \/ At("complete")
        /\ At("relabel") => Asked("relabel", 0) \/ Asked("relabel", 1)
        /\ At("label") => Asked("label", 0) \/ Asked("label", 1) \/ Asked("label", 2)
        /\ At("stopping") <=> Halting \/ Halted
  BY JobStations
<1>2. AirInv /\ [AnswerNext]_answerVars =>
        /\ At("waiting") => (At("waiting") \/ At("preparing"))'
        /\ At("preparing") =>
             (At("preparing") \/ At("relabel") \/ At("running") \/ At("label") \/ Finished)'
        /\ Asked("relabel", 1) => (Asked("relabel", 1) \/ Asked("relabel", 0) \/ At("running"))'
        /\ Asked("relabel", 0) => (Asked("relabel", 0) \/ At("running"))'
        /\ At("running") => (At("running") \/ At("stopping"))'
        /\ Halting => (Halting \/ Halted)'
        /\ Halted => (Halted \/ At("reaping") \/ At("label") \/ Finished)'
        /\ At("reaping") => (At("reaping") \/ At("label"))'
  BY JobMoves
<1>3. AirInv /\ [AnswerNext]_answerVars =>
        /\ Asked("label", 2) =>
             (Asked("label", 2) \/ Asked("label", 1) \/ At("explain") \/ At("deliver"))'
        /\ Asked("label", 1) =>
             (Asked("label", 1) \/ Asked("label", 0) \/ At("explain") \/ At("deliver"))'
        /\ Asked("label", 0) => (Asked("label", 0) \/ At("explain") \/ At("deliver"))'
        /\ At("explain") => (At("explain") \/ At("deliver") \/ At("complete") \/ Finished)'
        /\ At("deliver") => (At("deliver") \/ At("complete") \/ Finished)'
        /\ At("complete") => (At("complete") \/ Finished)'
  BY JobMoves
<1>4. AirInv /\ <<JobStep>>_answerVars =>
        /\ At("waiting") => At("preparing")'
        /\ At("preparing") => (At("relabel") \/ At("running") \/ At("label") \/ Finished)'
        /\ At("relabel") => At("running")'
        /\ At("running") => At("stopping")'
        /\ Halted => (At("reaping") \/ At("label") \/ Finished)'
        /\ At("reaping") => At("label")'
        /\ At("label") => (At("explain") \/ At("deliver"))'
        /\ At("explain") => (At("deliver") \/ At("complete") \/ Finished)'
        /\ At("complete") => Finished'
  BY JobMovesOn
<1>5. AirInv /\ <<Discord>>_answerVars =>
        /\ Asked("relabel", 1) => Asked("relabel", 0)'
        /\ Asked("label", 2) => Asked("label", 1)'
        /\ Asked("label", 1) => Asked("label", 0)'
  BY OthersTakeItOn
<1>6. AirInv /\ <<Cancelled>>_answerVars => (Halting => Halted')
  BY OthersTakeItOn
<1>7. AirInv =>
        /\ At("waiting") \/ At("preparing") \/ At("running") \/ Halted \/ At("reaping") => Going
        /\ At("explain") \/ At("deliver") \/ At("complete") => Going
        /\ Asked("relabel", 0) \/ Asked("label", 0) => Going
        /\ Asked("relabel", 1) \/ Asked("label", 1) \/ Asked("label", 2) => ~(flight = <<>>)
        /\ Halting => jpc = "stopping" /\ Spinning
  BY SomebodyIsDue
<1>8. /\ Asked("relabel", 0) => At("relabel")
      /\ Asked("label", 0) => At("label")
  BY DEF Asked, At
<1>9. AnswerSpec /\ GoesOn =>
        /\ At("complete") ~> Finished
        /\ At("explain") ~> At("deliver") \/ At("complete") \/ Finished
        /\ Asked("label", 0) ~> At("explain") \/ At("deliver")
        /\ At("reaping") ~> At("label")
  <2>0. ~(At("complete") /\ Finished)
        /\ ~(At("explain") /\ (At("deliver") \/ At("complete") \/ Finished))
        /\ ~(At("label") /\ (At("explain") \/ At("deliver")))
        /\ ~(At("reaping") /\ At("label"))
    BY DEF At, Finished
  <2>1. AnswerSpec /\ GoesOn => (At("complete") ~> Finished)
    BY <1>3, <1>4, <1>7, AirKeeps, PTL DEF AnswerSpec, GoesOn
  <2>2. AnswerSpec /\ GoesOn => (At("explain") ~> At("deliver") \/ At("complete") \/ Finished)
    BY <1>3, <1>4, <1>7, AirKeeps, PTL DEF AnswerSpec, GoesOn
  <2>3. AnswerSpec /\ GoesOn => (Asked("label", 0) ~> At("explain") \/ At("deliver"))
    BY <1>3, <1>4, <1>7, <1>8, AirKeeps, PTL DEF AnswerSpec, GoesOn
  <2>4. AnswerSpec /\ GoesOn => (At("reaping") ~> At("label"))
    BY <1>2, <1>4, <1>7, AirKeeps, PTL DEF AnswerSpec, GoesOn
  <2> QED
    BY <2>1, <2>2, <2>3, <2>4, PTL
<1>10. AnswerSpec /\ Answers =>
        /\ Asked("label", 2) ~> Asked("label", 1) \/ At("explain") \/ At("deliver")
        /\ Asked("label", 1) ~> Asked("label", 0) \/ At("explain") \/ At("deliver")
        /\ Asked("relabel", 1) ~> Asked("relabel", 0) \/ At("running")
  BY <1>2, <1>3, <1>5, <1>7, AirKeeps, PTL DEF AnswerSpec, Answers
<1>11. AnswerSpec /\ CancelReaches => (Halting ~> Halted)
  BY <1>2, <1>6, <1>7, AirKeeps, PTL DEF AnswerSpec, CancelReaches
<1>12. AnswerSpec /\ GoesOn =>
        /\ Halted ~> At("reaping") \/ At("label") \/ Finished
        /\ At("running") ~> At("stopping")
        /\ Asked("relabel", 0) ~> At("running")
        /\ At("preparing") ~> At("relabel") \/ At("running") \/ At("label") \/ Finished
        /\ At("waiting") ~> At("preparing")
  <2>1. AnswerSpec /\ GoesOn => (Halted ~> At("reaping") \/ At("label") \/ Finished)
    BY <1>2, <1>4, <1>7, AirKeeps, PTL DEF AnswerSpec, GoesOn
  <2>2. AnswerSpec /\ GoesOn => (At("running") ~> At("stopping"))
    BY <1>2, <1>4, <1>7, AirKeeps, PTL DEF AnswerSpec, GoesOn
  <2>3. AnswerSpec /\ GoesOn => (Asked("relabel", 0) ~> At("running"))
    BY <1>2, <1>4, <1>7, <1>8, AirKeeps, PTL DEF AnswerSpec, GoesOn
  <2>4. AnswerSpec /\ GoesOn =>
          (At("preparing") ~> At("relabel") \/ At("running") \/ At("label") \/ Finished)
    BY <1>2, <1>4, <1>7, AirKeeps, PTL DEF AnswerSpec, GoesOn
  <2>5. AnswerSpec /\ GoesOn => (At("waiting") ~> At("preparing"))
    BY <1>2, <1>4, <1>7, AirKeeps, PTL DEF AnswerSpec, GoesOn
  <2> QED
    BY <2>1, <2>2, <2>3, <2>4, <2>5, PTL
<1>13. AnswerSpec /\ GoesOn /\ Answers =>
        (At("label") ~> At("deliver") \/ Finished)
  BY <1>1, <1>9, <1>10, AirKeeps, PTL
<1>14. AnswerSpec /\ GoesOn /\ Answers /\ CancelReaches =>
        (At("stopping") ~> At("deliver") \/ Finished)
  BY <1>1, <1>9, <1>11, <1>12, <1>13, AirKeeps, PTL
<1>15. AnswerSpec /\ GoesOn /\ Answers =>
        (At("relabel") ~> At("running"))
  BY <1>1, <1>10, <1>12, AirKeeps, PTL
<1>16. AnswerSpec /\ GoesOn /\ Answers /\ CancelReaches =>
        (TRUE ~> At("deliver") \/ Finished)
  BY <1>1, <1>9, <1>12, <1>13, <1>14, <1>15, AirKeeps, PTL
<1>17. Finished \/ At("deliver") => jpc \in {"deliver", "done", "escaped"}
  BY DEF Finished, At
<1>18. AnswerSpec /\ GoesOn /\ (jpc = "deliver" ~> jpc # "deliver") =>
        (At("deliver") ~> Finished)
  <2>1. AnswerSpec /\ (jpc = "deliver" ~> jpc # "deliver")
          => (At("deliver") ~> At("complete") \/ Finished)
    <3>1. (At("deliver") <=> jpc = "deliver") /\ (jpc # "deliver" <=> ~At("deliver"))
      BY DEF At
    <3> QED
      BY <1>3, <3>1, AirKeeps, PTL DEF AnswerSpec
  <2> QED
    BY <1>9, <2>1, PTL
<1>19. Finished => jpc \in {"done", "escaped"}
  BY DEF Finished
<1> QED
  BY <1>16, <1>17, <1>18, <1>19, PTL DEF AnswerEnds

(* And the handing over does not go on for ever: the rank it descends in   *)
(* is one of naturals, and while a job delivers nothing but its own steps  *)
(* moves it, each of them down (send_outputs, outputs.py:59-93).           *)
THEOREM DeliveringDescends ==
  AnswerSpec =>
    /\ [](HandingRank \in Nat \X Nat \X Nat /\ CutRank \in Nat \X Nat \X Nat \X Nat)
    /\ [][jpc = "deliver" /\ jpc' = "deliver" =>
            IF JobStep THEN HandedDown ELSE UNCHANGED <<HandingRank, CutRank>>]_answerVars
<1>1. ASSUME OutputsInv, [AnswerNext]_answerVars, jpc = "deliver", jpc' = "deliver"
      PROVE  IF JobStep THEN HandedDown ELSE UNCHANGED <<HandingRank, CutRank>>
  <2>1. CASE JobStep
    <3>1. Deliver \/ Delivering
      BY <1>1, <2>1
         DEF JobStep, SlotHeld, Prepared, Refused, PrepareRaises, Relabelled, RunEnds, Stopped,
             StoreRaises, Reaped, Labelled, Explained, Delivered, Escapes, Complete, Becomes
    <3>2. (outcome = "ok") \in BOOLEAN
      OBVIOUS
    <3>3. OutputsNext
      BY <3>1, <3>2 DEF Deliver, Delivering, OutputsNext
    <3> QED
      BY <1>1, <2>1, <3>3, HandingDescends DEF OutputsInv, ChunkInv
  <2>2. CASE ~JobStep
    <3>1. UNCHANGED sendVars
      BY <1>1, <2>2 DEF AnswerNext, Discord, Land, EditFails, Spin, Spun, Cancelled, answerVars
    <3> QED
      BY <2>2, <3>1
         DEF sendVars, chunkVars, outputsVars, filesVars, HandingRank, PartsLeft, CutRank,
             StagesLeft, RoundsLeft
  <2> QED
    BY <2>1, <2>2
<1>2. OutputsInv /\ [AnswerNext]_answerVars =>
        [jpc = "deliver" /\ jpc' = "deliver" =>
           IF JobStep THEN HandedDown ELSE UNCHANGED <<HandingRank, CutRank>>]_answerVars
  BY <1>1
<1> QED
  BY <1>2, JobHandsOver, HandingOverKeeps, HandingOverComesToAnEnd, PTL DEF AnswerSpec

=============================================================================
