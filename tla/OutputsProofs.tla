--------------------------- MODULE OutputsProofs ----------------------------
(***************************************************************************)
(* Proofs about what a job hands over, for all files, listings and batch   *)
(* sizes.                                                                  *)
(***************************************************************************)
EXTENDS Outputs, ChunksProofs

Accounted(f) == Arrived(f) \/ <<f, "file">> \in ToSet(batch)
Coming(f) == f \in ToSet(entries) \/ <<f, "file">> \in ToSet(paths)

(* One of the bookkeeping files is being worked off.                       *)
PickedUp(listing) ==
  Files(listing) # {} /\ \A f \in Files(listing) : Accounted(f) \/ Coming(f)
Chosen ==
  Files(meta) \cup Files(manifest) # {} => \E listing \in {meta, manifest} : PickedUp(listing)

(* sent_paths knows what has been queued, and nothing else counts as done. *)
Remembered ==
  /\ Sent \cup ToSet(batch) \subseteq seen
  /\ \A f \in File : <<f, "file">> \in seen => Accounted(f)

Batched ==
  /\ Len(batch) < Batch
  /\ NoRepeats(Append(transmitted, batch))
  /\ \A i \in DOMAIN transmitted : Len(transmitted[i]) \in 1 .. Batch

OutputsInv ==
  /\ ChunkInv
  /\ OutputsTypeOK
  /\ Batched
  /\ Remembered
  /\ opc = "manifest" => Files(meta) = {}
  /\ opc \in {"attach", "notice", "done"} => Chosen
  /\ opc \in {"notice", "done"} => entries = <<>> /\ paths = <<>> /\ batch = <<>>
  /\ opc # "done" => "empty" \notin told /\ "error" \notin told
  /\ NeverSilent

-----------------------------------------------------------------------------
(* Sequences and the sets of their elements.                               *)
LEMMA EmptyFacts == ASSUME NEW S PROVE <<>> \in Seq(S) /\ ToSet(<<>>) = {}
BY DEF ToSet

LEMMA AppendFacts ==
  ASSUME NEW S, NEW q \in Seq(S), NEW e \in S
  PROVE  /\ Append(q, e) \in Seq(S) /\ Len(Append(q, e)) = Len(q) + 1
         /\ ToSet(Append(q, e)) = ToSet(q) \cup {e}
<1>1. Append(q, e) \in Seq(S) /\ Len(Append(q, e)) = Len(q) + 1 /\ Len(q) \in Nat
  OBVIOUS
<1>2. Append(q, e)[Len(q) + 1] = e /\ \A i \in DOMAIN q : Append(q, e)[i] = q[i]
  OBVIOUS
<1>3. DOMAIN Append(q, e) = DOMAIN q \cup {Len(q) + 1}
  BY <1>1
<1> QED
  BY <1>1, <1>2, <1>3 DEF ToSet

LEMMA TailFacts ==
  ASSUME NEW S, NEW q \in Seq(S), q # <<>>
  PROVE  /\ Head(q) \in S /\ Tail(q) \in Seq(S)
         /\ ToSet(q) = {Head(q)} \cup ToSet(Tail(q))
<1>1. Head(q) \in S /\ Tail(q) \in Seq(S) /\ Len(Tail(q)) = Len(q) - 1 /\ Len(q) \in Nat /\ Len(q) > 0
  OBVIOUS
<1>2. Head(q) = q[1] /\ \A i \in DOMAIN Tail(q) : Tail(q)[i] = q[i + 1]
  OBVIOUS
<1>3. ToSet(q) \subseteq {Head(q)} \cup ToSet(Tail(q))
  <2> SUFFICES ASSUME NEW i \in DOMAIN q, i # 1 PROVE q[i] \in ToSet(Tail(q))
    BY <1>2 DEF ToSet
  <2>1. i - 1 \in DOMAIN Tail(q)
    BY <1>1
  <2> QED
    BY <1>2, <2>1 DEF ToSet
<1>4. {Head(q)} \cup ToSet(Tail(q)) \subseteq ToSet(q)
  <2>1. 1 \in DOMAIN q /\ \A i \in DOMAIN Tail(q) : i + 1 \in DOMAIN q
    BY <1>1
  <2> QED
    BY <1>2, <2>1 DEF ToSet
<1> QED
  BY <1>1, <1>3, <1>4

LEMMA ConcatFacts ==
  ASSUME NEW S, NEW q \in Seq(S), NEW r \in Seq(S)
  PROVE  q \o r \in Seq(S) /\ ToSet(q \o r) = ToSet(q) \cup ToSet(r)
<1>1. q \o r \in Seq(S) /\ Len(q \o r) = Len(q) + Len(r) /\ Len(q) \in Nat /\ Len(r) \in Nat
  OBVIOUS
<1>2. /\ \A i \in DOMAIN q : (q \o r)[i] = q[i] /\ i \in DOMAIN (q \o r)
      /\ \A i \in DOMAIN r : (q \o r)[Len(q) + i] = r[i] /\ Len(q) + i \in DOMAIN (q \o r)
  BY <1>1
<1>3. ToSet(q) \cup ToSet(r) \subseteq ToSet(q \o r)
  BY <1>2 DEF ToSet
<1>4. ASSUME NEW i \in DOMAIN (q \o r) PROVE (q \o r)[i] \in ToSet(q) \cup ToSet(r)
  <2>1. CASE i \in DOMAIN q
    BY <1>2, <2>1 DEF ToSet
  <2>2. CASE i \notin DOMAIN q
    <3>1. i - Len(q) \in DOMAIN r /\ i = Len(q) + (i - Len(q))
      BY <1>1, <2>2
    <3> QED
      BY <1>2, <3>1 DEF ToSet
  <2> QED
    BY <2>1, <2>2
<1> QED
  BY <1>1, <1>3, <1>4 DEF ToSet

-----------------------------------------------------------------------------
(* Messages without repetitions.                                           *)
Contents(T) == UNION {ToSet(files) : files \in ToSet(T)}

LEMMA ContentsFacts ==
  ASSUME NEW S, NEW T \in Seq(Seq(S)), NEW m \in Seq(S)
  PROVE  /\ Contents(Append(T, m)) = Contents(T) \cup ToSet(m)
         /\ \A i \in DOMAIN T : \A j \in DOMAIN T[i] : T[i][j] \in Contents(T)
<1>1. ToSet(Append(T, m)) = ToSet(T) \cup {m}
  BY AppendFacts
<1>2. Contents(Append(T, m)) = Contents(T) \cup ToSet(m)
  BY <1>1 DEF Contents
<1>3. \A i \in DOMAIN T : T[i] \in ToSet(T) /\ \A j \in DOMAIN T[i] : T[i][j] \in ToSet(T[i])
  BY DEF ToSet
<1> QED
  BY <1>2, <1>3 DEF Contents

LEMMA GrowingMessage ==
  ASSUME NEW S, NEW T \in Seq(Seq(S)), NEW b \in Seq(S), NEW a \in S,
         NoRepeats(Append(T, b)), a \notin Contents(T) \cup ToSet(b)
  PROVE  NoRepeats(Append(T, Append(b, a)))
<1> DEFINE old == Append(T, b)
           new == Append(T, Append(b, a))
           n == Len(T) + 1
           k == Len(b) + 1
<1>1. Append(b, a) \in Seq(S) /\ Len(b) \in Nat /\ Len(T) \in Nat
  BY AppendFacts
<1>2. /\ DOMAIN new = DOMAIN old
      /\ new[n] = Append(b, a) /\ old[n] = b /\ n \in DOMAIN old
      /\ \A i \in DOMAIN old : i # n => new[i] = old[i]
  BY <1>1
<1>3. DOMAIN Append(b, a) = DOMAIN b \cup {k} /\ Append(b, a)[k] = a /\ k \notin DOMAIN b
      /\ \A j \in DOMAIN b : Append(b, a)[j] = b[j]
  BY <1>1
<1>4. \A i \in DOMAIN old : \A j \in DOMAIN old[i] : old[i][j] # a
  <2>1. old \in Seq(Seq(S)) /\ Contents(old) = Contents(T) \cup ToSet(b)
    BY ContentsFacts, AppendFacts
  <2>2. \A i \in DOMAIN old : \A j \in DOMAIN old[i] : old[i][j] \in Contents(old)
    BY <2>1, ContentsFacts, <1>1
  <2> QED
    BY <2>1, <2>2
<1>5. ASSUME NEW i \in DOMAIN new, NEW j \in DOMAIN new[i]
      PROVE  \/ j \in DOMAIN old[i] /\ new[i][j] = old[i][j]
             \/ i = n /\ j = k /\ new[i][j] = a
  BY <1>2, <1>3
<1> HIDE DEF old, new, n, k
<1> SUFFICES ASSUME NEW i \in DOMAIN new, NEW x \in DOMAIN new,
                    NEW j \in DOMAIN new[i], NEW l \in DOMAIN new[x], new[i][j] = new[x][l]
             PROVE  i = x /\ j = l
  BY DEF NoRepeats, new
<1>6. NoRepeats(old)
  BY DEF old
<1> QED
  BY <1>2, <1>4, <1>5, <1>6 DEF NoRepeats

LEMMA NewMessage ==
  ASSUME NEW S, NEW T \in Seq(Seq(S)), NoRepeats(T)
  PROVE  NoRepeats(Append(T, <<>>))
<1>1. \A i \in DOMAIN Append(T, <<>>) :
        \/ i \in DOMAIN T /\ Append(T, <<>>)[i] = T[i]
        \/ DOMAIN Append(T, <<>>)[i] = {}
  OBVIOUS
<1> QED
  BY <1>1 DEF NoRepeats

LEMMA FewerMessages ==
  ASSUME NEW S, NEW T \in Seq(Seq(S)), NEW b \in Seq(S), NoRepeats(Append(T, b))
  PROVE  NoRepeats(T)
<1>1. \A i \in DOMAIN T : i \in DOMAIN Append(T, b) /\ Append(T, b)[i] = T[i]
  OBVIOUS
<1> QED
  BY <1>1 DEF NoRepeats

-----------------------------------------------------------------------------
(* The books that Attach and LastBatch keep.                               *)
LEMMA BookTypes ==
  ASSUME OutputsInv
  PROVE  /\ batch \in Seq(Attachment) /\ transmitted \in Seq(Seq(Attachment))
         /\ paths \in Seq(Attachment) /\ entries \in Seq(Entry)
         /\ Sent = Contents(transmitted) /\ Batch \in Nat
BY OutputsAssumption DEF OutputsInv, OutputsTypeOK, Sent, Contents

LEMMA BooksUntouched ==
  ASSUME OutputsInv, UNCHANGED <<seen, batch, transmitted>>, told \subseteq told'
  PROVE  /\ Batched' /\ Remembered' /\ Sent' = Sent
         /\ \A f : Accounted(f) => Accounted(f)'
<1>1. Sent' = Sent
  BY DEF Sent
<1>2. \A f : Accounted(f) => Accounted(f)'
  BY <1>1 DEF Accounted, Arrived
<1> QED
  BY <1>1, <1>2 DEF OutputsInv, Batched, Remembered

LEMMA QueueFacts ==
  ASSUME OutputsInv, NEW a \in Attachment, a \notin seen, Queue(a)
  PROVE  /\ batch' \in Seq(Attachment) /\ transmitted' \in Seq(Seq(Attachment))
         /\ Batched'
         /\ Sent' \cup ToSet(batch') = Sent \cup ToSet(batch) \cup {a}
<1>1. batch \in Seq(Attachment) /\ transmitted \in Seq(Seq(Attachment)) /\ Batch \in Nat
      /\ Sent = Contents(transmitted) /\ Sent' = Contents(transmitted')
  BY BookTypes DEF Sent, Contents
<1> DEFINE full == Append(batch, a)
<1>2. full \in Seq(Attachment) /\ Len(full) = Len(batch) + 1 /\ ToSet(full) = ToSet(batch) \cup {a}
      /\ Len(batch) \in Nat /\ Len(batch) < Batch
  BY <1>1, AppendFacts DEF OutputsInv, Batched
<1>3. NoRepeats(Append(transmitted, full))
  BY <1>1, GrowingMessage DEF OutputsInv, Batched, Remembered
<1>4. CASE Len(batch) + 1 >= Batch
  <2>1. transmitted' = Append(transmitted, full) /\ batch' = <<>>
    BY <1>4 DEF Queue
  <2>2. batch' \in Seq(Attachment) /\ ToSet(batch') = {} /\ Len(batch') = 0
    BY <2>1, EmptyFacts
  <2>3. transmitted' \in Seq(Seq(Attachment)) /\ Sent' = Sent \cup ToSet(full)
    <3> HIDE DEF full
    <3>1. Append(transmitted, full) \in Seq(Seq(Attachment))
      BY <1>1, <1>2
    <3>2. Contents(Append(transmitted, full)) = Contents(transmitted) \cup ToSet(full)
      BY <1>1, <1>2, ContentsFacts
    <3> QED
      BY <1>1, <2>1, <3>1, <3>2
  <2>4. NoRepeats(Append(transmitted', batch'))
    BY <1>3, <2>1, <2>3, NewMessage
  <2>5. \A i \in DOMAIN transmitted' : Len(transmitted'[i]) \in 1 .. Batch
    <3>1. \A i \in DOMAIN transmitted' :
            \/ transmitted'[i] = full
            \/ i \in DOMAIN transmitted /\ transmitted'[i] = transmitted[i]
      BY <1>1, <1>2, <2>1
    <3> QED
      BY <1>2, <1>4, <3>1, <1>1 DEF OutputsInv, Batched
  <2> QED
    BY <1>1, <1>2, <2>2, <2>3, <2>4, <2>5 DEF Batched
<1>5. CASE ~(Len(batch) + 1 >= Batch)
  <2>1. batch' = full /\ transmitted' = transmitted
    BY <1>5 DEF Queue
  <2> QED
    BY <1>1, <1>2, <1>3, <1>5, <2>1 DEF OutputsInv, Batched
<1> QED
  BY <1>4, <1>5

LEMMA ListingFacts ==
  ASSUME NEW x \in Listing \cup {<<Missing>>, <<Broken>>}
  PROVE  /\ Readable(x) => x \in Seq(Entry)
         /\ Files(x) \subseteq File
         /\ Exists(x) <=> Files(x) # {}
         /\ Files(x) # {} => NonEmpty(x)
         /\ NonEmpty(x) => Readable(x) /\ Files(x) \subseteq ToSet(x)
<1>1. Readable(x) => x \in Seq(Entry)
  BY OutputsAssumption DEF Readable
<1>2. Exists(x) <=> Files(x) # {}
  BY DEF Exists, Files, ToSet
<1>3. Files(x) # {} => NonEmpty(x)
  BY DEF NonEmpty, Files, ToSet
<1> QED
  BY <1>1, <1>2, <1>3 DEF Files, NonEmpty

(* A step that leaves the books alone.                                     *)
LEMMA StepAside ==
  ASSUME OutputsInv, UNCHANGED <<seen, batch, transmitted, told>>, opc # "done",
         ChunkInv', OutputsTypeOK', opc' \notin {"notice", "done"},
         opc' = "manifest" => Files(meta') = {}, opc' = "attach" => Chosen'
  PROVE  OutputsInv'
<1>1. Batched' /\ Remembered'
  BY BooksUntouched
<1>2. "empty" \notin told' /\ "error" \notin told'
  BY DEF OutputsInv
<1>3. NeverSilent'
  BY DEF NeverSilent
<1> QED
  BY <1>1, <1>2, <1>3 DEF OutputsInv

LEMMA SendOutputsKeeps ==
  ASSUME OutputsInv, NEW w \in BOOLEAN, SendOutputs(w) PROVE OutputsInv'
<1>1. ChunkInv'
  BY ChunkStutterKeeps DEF OutputsInv, SendOutputs
<1>2. OutputsTypeOK'
  BY DEF OutputsInv, OutputsTypeOK, SendOutputs, Goes, filesVars
<1> QED
  BY <1>1, <1>2, StepAside DEF SendOutputs, Goes, filesVars

LEMMA ReadBodyKeeps ==
  ASSUME OutputsInv, NEW t \in Text \cup {<<>>}, NEW svg \in BOOLEAN, ReadBody(t, svg)
  PROVE  OutputsInv'
<1>1. ChunkInv'
  BY BeginBodyKeeps DEF OutputsInv, ReadBody
<1>2. entries' \in Seq(Entry)
  <2>1. Inline \in Entry
    BY OutputsAssumption DEF Entry
  <2> QED
    BY <2>1 DEF ReadBody, InlineEntries
<1>3. OutputsTypeOK'
  BY <1>2 DEF OutputsInv, OutputsTypeOK, ReadBody, Goes
<1> QED
  BY <1>1, <1>3, StepAside DEF ReadBody, Goes

LEMMA CutBodyKeeps == ASSUME OutputsInv, CutBody PROVE OutputsInv'
<1>1. ChunkInv'
  BY ChunkStepKeeps DEF OutputsInv, CutBody
<1>2. OutputsTypeOK'
  BY DEF OutputsInv, OutputsTypeOK, CutBody, outputsVars, filesVars
<1> QED
  BY <1>1, <1>2, StepAside DEF CutBody, outputsVars, filesVars

LEMMA BodyOutKeeps == ASSUME OutputsInv, BodyOut PROVE OutputsInv'
<1>1. ChunkInv'
  BY LeavingKeeps DEF BodyOut
<1>2. OutputsTypeOK'
  BY DEF OutputsInv, OutputsTypeOK, BodyOut, Goes, filesVars
<1> QED
  BY <1>1, <1>2, StepAside DEF BodyOut, Goes, filesVars

LEMMA RaisesKeeps == ASSUME OutputsInv, Raises PROVE OutputsInv'
<1>1. ChunkInv'
  BY ChunkStutterKeeps DEF OutputsInv, Raises
<1>2. OutputsTypeOK'
  BY DEF OutputsInv, OutputsTypeOK, Raises, Goes, filesVars
<1> QED
  BY <1>1, <1>2, StepAside DEF Raises, Goes, filesVars

(* meta.json is taken when something it lists exists, ...                  *)
LEMMA ReadMetaKeeps ==
  ASSUME OutputsInv, NEW m \in Listing \cup {<<Missing>>, <<Broken>>},
         NEW n \in Listing \cup {<<Missing>>, <<Broken>>}, ReadMeta(m, n)
  PROVE  OutputsInv'
<1> USE DEF ReadMeta, Goes
<1>1. ChunkInv'
  BY ChunkStutterKeeps DEF OutputsInv
<1>2. CASE Exists(m)
  <2>1. m \in Seq(Entry) /\ entries \in Seq(Entry) /\ Files(m) # {} /\ Files(m) \subseteq ToSet(m)
    BY <1>2, ListingFacts, BookTypes
  <2>2. entries' \in Seq(Entry) /\ Files(m) \subseteq ToSet(entries')
    <3>1. entries \o m \in Seq(Entry) /\ ToSet(entries \o m) = ToSet(entries) \cup ToSet(m)
      BY <2>1, ConcatFacts
    <3>2. entries' = entries \o m
      BY <1>2
    <3> QED
      BY <2>1, <3>1, <3>2
  <2>3. OutputsTypeOK'
    BY <1>2, <2>2 DEF OutputsInv, OutputsTypeOK
  <2>4. PickedUp(m)'
    BY <2>1, <2>2 DEF PickedUp, Coming, Files, Readable
  <2>5. Chosen'
    BY <2>4 DEF Chosen, Files, Readable
  <2> QED
    BY <1>1, <1>2, <2>3, <2>5, StepAside
<1>3. CASE ~Exists(m)
  <2>1. OutputsTypeOK'
    BY <1>3 DEF OutputsInv, OutputsTypeOK
  <2>2. Files(meta') = {}
    BY <1>3, ListingFacts
  <2> QED
    BY <1>1, <1>3, <2>1, <2>2, StepAside
<1> QED
  BY <1>2, <1>3

(* ... otherwise manifest.json, if it lists anything.                      *)
LEMMA ReadManifestKeeps == ASSUME OutputsInv, ReadManifest PROVE OutputsInv'
<1> USE DEF ReadManifest, Goes
<1>1. ChunkInv'
  BY ChunkStutterKeeps DEF OutputsInv
<1>2. /\ meta \in Listing \cup {<<Missing>>, <<Broken>>}
      /\ manifest \in Listing \cup {<<Missing>>, <<Broken>>}
      /\ entries \in Seq(Entry) /\ Files(meta) = {}
  BY BookTypes DEF OutputsInv, OutputsTypeOK
<1> DEFINE more == CASE NonEmpty(manifest) -> manifest
                     [] ~NonEmpty(manifest) /\ NonEmpty(meta) -> meta
                     [] OTHER -> <<>>
<1>3. more \in Seq(Entry)
  <2>1. <<>> \in Seq(Entry)
    OBVIOUS
  <2> QED
    BY <1>2, <2>1, ListingFacts
<1>4. entries' = entries \o more
  OBVIOUS
<1>5. Files(manifest) \subseteq ToSet(more)
  BY <1>2, ListingFacts
<1>6. entries' \in Seq(Entry) /\ Files(manifest) \subseteq ToSet(entries')
  <2> HIDE DEF more, ReadManifest
  <2>1. entries \o more \in Seq(Entry) /\ ToSet(entries \o more) = ToSet(entries) \cup ToSet(more)
    BY <1>2, <1>3, ConcatFacts
  <2> QED
    BY <1>4, <1>5, <2>1
<1>7. OutputsTypeOK'
  BY <1>6 DEF OutputsInv, OutputsTypeOK
<1>8. Chosen'
  BY <1>2, <1>6 DEF Chosen, PickedUp, Coming, Files, Readable
<1> QED
  BY <1>1, <1>7, <1>8, StepAside

-----------------------------------------------------------------------------
(* Attaching: every file stays accounted for or is still to come.          *)
LEMMA StillAttaching ==
  ASSUME OutputsInv, opc = "attach", UNCHANGED <<chunkVars, opc, meta, manifest>>,
         OutputsTypeOK', Batched', Remembered', "empty" \notin told', "error" \notin told',
         \A f \in File : Accounted(f) \/ Coming(f) => Accounted(f)' \/ Coming(f)'
  PROVE  OutputsInv'
<1>1. ChunkInv'
  BY ChunkStutterKeeps DEF OutputsInv
<1>2. Files(meta)' = Files(meta) /\ Files(manifest)' = Files(manifest)
  BY DEF Files, Readable
<1>3. Files(meta) \subseteq File /\ Files(manifest) \subseteq File
  BY DEF Files
<1>4. Chosen'
  <2>1. Chosen
    BY DEF OutputsInv
  <2>2. ASSUME PickedUp(meta) PROVE PickedUp(meta)'
    BY <1>2, <1>3, <2>2 DEF PickedUp
  <2>3. ASSUME PickedUp(manifest) PROVE PickedUp(manifest)'
    BY <1>2, <1>3, <2>3 DEF PickedUp
  <2> QED
    BY <1>2, <2>1, <2>2, <2>3 DEF Chosen
<1>5. NeverSilent'
  BY DEF NeverSilent
<1> QED
  BY <1>1, <1>4, <1>5 DEF OutputsInv

LEMMA NoFileKeeps == ASSUME OutputsInv, NoFile PROVE OutputsInv'
<1> USE DEF NoFile
<1>1. Head(entries) \in Entry /\ entries' \in Seq(Entry)
      /\ ToSet(entries) = {Head(entries)} \cup ToSet(entries')
  BY TailFacts, BookTypes
<1>2. Head(entries) \in {"malformed", "unsafe", "gone"}
  BY <1>1 DEF Entry
<1>3. OutputsTypeOK'
  BY <1>1, <1>2 DEF OutputsInv, OutputsTypeOK
<1>4. Batched' /\ Remembered' /\ \A f : Accounted(f) => Accounted(f)'
  BY BooksUntouched
<1>5. "empty" \notin told' /\ "error" \notin told'
  BY <1>2 DEF OutputsInv
<1>6. \A f \in File : Coming(f) => Coming(f)'
  BY <1>1 DEF Coming
<1> QED
  BY <1>3, <1>4, <1>5, <1>6, StillAttaching

LEMMA OpenEntryKeeps ==
  ASSUME OutputsInv, NEW rendered \in BOOLEAN, OpenEntry(rendered) PROVE OutputsInv'
<1> USE DEF OpenEntry, AttachmentsOf
<1>1. Head(entries) \in File /\ entries' \in Seq(Entry)
      /\ ToSet(entries) = {Head(entries)} \cup ToSet(entries')
  BY TailFacts, BookTypes
<1> DEFINE own == <<Head(entries), "file">>
           ahead == IF rendered THEN <<<<Head(entries), "preview">>>> ELSE <<>>
<1>2. own \in Attachment /\ ahead \in Seq(Attachment) /\ paths' = ahead \o <<own>>
  BY <1>1 DEF Attachment
<1>3. paths' \in Seq(Attachment) /\ own \in ToSet(paths')
  <2> HIDE DEF own, ahead
  <2>1. <<own>> \in Seq(Attachment) /\ own \in ToSet(<<own>>)
    BY <1>2 DEF ToSet
  <2>2. ahead \o <<own>> \in Seq(Attachment) /\ ToSet(ahead \o <<own>>) = ToSet(ahead) \cup ToSet(<<own>>)
    BY SMTT(20), <1>2, <2>1, ConcatFacts
  <2> QED
    BY <1>2, <2>1, <2>2
<1>4. OutputsTypeOK'
  BY <1>1, <1>3 DEF OutputsInv, OutputsTypeOK
<1>5. Batched' /\ Remembered' /\ \A f : Accounted(f) => Accounted(f)'
  BY BooksUntouched
<1>6. \A f \in File : Coming(f) => Coming(f)'
  <2>1. ToSet(paths) = {}
    BY EmptyFacts
  <2> QED
    BY <1>1, <1>3, <2>1 DEF Coming
<1>7. "empty" \notin told' /\ "error" \notin told'
  BY DEF OutputsInv
<1> QED
  BY <1>4, <1>5, <1>6, <1>7, StillAttaching

LEMMA AttachKeeps == ASSUME OutputsInv, Attach PROVE OutputsInv'
<1> DEFINE a == Head(paths)
<1>1. a \in Attachment /\ paths' \in Seq(Attachment) /\ ToSet(paths) = {a} \cup ToSet(paths')
  BY TailFacts, BookTypes DEF Attach
<1>2. seen' = seen \cup {a} /\ opc = "attach"
      /\ UNCHANGED <<chunkVars, opc, warn, body, meta, manifest, entries>>
  BY DEF Attach
<1>3. seen' \subseteq Attachment /\ told \subseteq {"malformed", "unsafe", "too big", "error", "empty"}
  BY <1>1, <1>2 DEF OutputsInv, OutputsTypeOK
<1>4. SUFFICES /\ batch' \in Seq(Attachment) /\ transmitted' \in Seq(Seq(Attachment))
               /\ Batched' /\ told' \subseteq told \cup {"too big"}
               /\ Sent' \cup ToSet(batch') \subseteq seen'
               /\ \A f \in File : Accounted(f) => Accounted(f)'
               /\ \A f \in File : <<f, "file">> = a => Accounted(f)'
  <2>1. OutputsTypeOK'
    BY <1>1, <1>2, <1>3, <1>4 DEF OutputsInv, OutputsTypeOK
  <2>2. Remembered'
    BY <1>2, <1>4 DEF OutputsInv, Remembered
  <2>3. "empty" \notin told' /\ "error" \notin told'
    BY <1>2, <1>4 DEF OutputsInv
  <2>4. \A f \in File : Coming(f) => Accounted(f)' \/ Coming(f)'
    BY <1>1, <1>2, <1>4 DEF Coming
  <2> HIDE DEF a
  <2> QED
    BY <1>2, <1>4, <2>1, <2>2, <2>3, <2>4, StillAttaching
<1> HIDE DEF a
<1>5. CASE a \in seen
  <2>1. UNCHANGED <<batch, transmitted, told>> /\ seen' = seen
    BY <1>2, <1>5 DEF Attach, a
  <2>2. Batched' /\ Sent' = Sent /\ \A f : Accounted(f) => Accounted(f)'
    BY <2>1, BooksUntouched
  <2>3. \A f \in File : <<f, "file">> = a => Accounted(f)
    BY <1>5 DEF OutputsInv, Remembered
  <2> QED
    BY <2>1, <2>2, <2>3, BookTypes DEF OutputsInv, Remembered
<1>6. CASE a \notin seen /\ TooBig(a)
  <2>1. told' = told \cup {"too big"} /\ UNCHANGED <<batch, transmitted>>
    BY <1>6 DEF Attach, a
  <2>2. Sent' = Sent /\ Batched'
    BY <2>1 DEF Sent, OutputsInv, Batched
  <2>3. \A f \in File : Accounted(f) => Accounted(f)'
    BY <2>1, <2>2 DEF Accounted, Arrived
  <2>4. \A f \in File : <<f, "file">> = a => Accounted(f)'
    <3>1. a[1] \in Big
      BY <1>6 DEF TooBig
    <3>2. \A f \in File : <<f, "file">> = a => f = a[1]
      OBVIOUS
    <3> QED
      BY <2>1, <3>1, <3>2 DEF Accounted, Arrived
  <2> QED
    BY <1>2, <2>1, <2>2, <2>3, <2>4, BookTypes DEF OutputsInv, Remembered
<1>7. CASE a \notin seen /\ ~TooBig(a)
  <2>1. Queue(a) /\ told' = told
    BY <1>7 DEF Attach, a
  <2>2. /\ batch' \in Seq(Attachment) /\ transmitted' \in Seq(Seq(Attachment))
        /\ Batched' /\ Sent' \cup ToSet(batch') = Sent \cup ToSet(batch) \cup {a}
    BY <1>1, <1>7, <2>1, QueueFacts
  <2>3. \A f \in File : Accounted(f) => Accounted(f)'
    BY <2>1, <2>2 DEF Accounted, Arrived
  <2>4. \A f \in File : <<f, "file">> = a => Accounted(f)'
    BY <2>2 DEF Accounted, Arrived
  <2> QED
    BY <1>2, <2>1, <2>2, <2>3, <2>4 DEF OutputsInv, Remembered
<1> QED
  BY <1>5, <1>6, <1>7

(* The last message, and the notice.                                       *)
LEMMA LastBatchKeeps == ASSUME OutputsInv, LastBatch PROVE OutputsInv'
<1> USE DEF LastBatch, Goes
<1>1. batch \in Seq(Attachment) /\ transmitted \in Seq(Seq(Attachment)) /\ Batch \in Nat
      /\ Sent = Contents(transmitted) /\ Sent' = Contents(transmitted')
      /\ batch' \in Seq(Attachment) /\ ToSet(batch') = {} /\ Len(batch') = 0
  BY BookTypes, EmptyFacts DEF Sent, Contents
<1>2. NoRepeats(Append(transmitted, batch)) /\ Len(batch) < Batch /\ Len(batch) \in Nat
      /\ \A i \in DOMAIN transmitted : Len(transmitted[i]) \in 1 .. Batch
  BY <1>1 DEF OutputsInv, Batched
<1>3. /\ transmitted' \in Seq(Seq(Attachment)) /\ Sent' = Sent \cup ToSet(batch)
      /\ NoRepeats(transmitted')
      /\ \A i \in DOMAIN transmitted' : Len(transmitted'[i]) \in 1 .. Batch
  <2>1. CASE batch = <<>>
    <3>1. transmitted' = transmitted /\ ToSet(batch) = {}
      BY <2>1, EmptyFacts
    <3> QED
      BY <1>1, <1>2, <3>1, FewerMessages
  <2>2. CASE batch # <<>>
    <3>1. transmitted' = Append(transmitted, batch) /\ Len(batch) \in 1 .. Batch
      BY <1>1, <1>2, <2>2
    <3>2. Append(transmitted, batch) \in Seq(Seq(Attachment))
      BY <1>1
    <3>3. Contents(Append(transmitted, batch)) = Contents(transmitted) \cup ToSet(batch)
      BY <1>1, ContentsFacts
    <3>4. \A i \in DOMAIN transmitted' :
            \/ transmitted'[i] = batch
            \/ i \in DOMAIN transmitted /\ transmitted'[i] = transmitted[i]
      BY <1>1, <3>1
    <3> QED
      BY <1>1, <1>2, <3>1, <3>2, <3>3, <3>4
  <2> QED
    BY <2>1, <2>2
<1>4. NoRepeats(Append(transmitted', batch'))
  BY <1>3, NewMessage
<1>5. Batched'
  BY <1>1, <1>2, <1>3, <1>4 DEF Batched
<1>6. \A f : Accounted(f) => Accounted(f)'
  BY <1>3 DEF Accounted, Arrived
<1>7. Remembered'
  BY <1>1, <1>3, <1>6 DEF OutputsInv, Remembered
<1>8. Files(meta)' = Files(meta) /\ Files(manifest)' = Files(manifest)
  BY DEF Files, Readable
<1>9. \A f : Coming(f)' = Coming(f)
  BY DEF Coming
<1>10. Chosen'
  BY <1>6, <1>8, <1>9 DEF OutputsInv, Chosen, PickedUp
<1>11. OutputsTypeOK'
  BY <1>1, <1>3 DEF OutputsInv, OutputsTypeOK
<1>12. ChunkInv'
  BY ChunkStutterKeeps DEF OutputsInv
<1>13. NeverSilent'
  BY DEF NeverSilent
<1> QED
  BY <1>5, <1>7, <1>10, <1>11, <1>12, <1>13 DEF OutputsInv

(* No file went out exactly when no message with files did: none is empty. *)
LEMMA NothingSent == ASSUME OutputsInv PROVE Sent = {} <=> transmitted = <<>>
<1>1. transmitted \in Seq(Seq(Attachment)) /\ Batch \in Nat
  BY BookTypes
<1>2. CASE transmitted = <<>>
  <2>1. ToSet(transmitted) = {}
    BY <1>2, EmptyFacts
  <2> QED
    BY <1>2, <2>1 DEF Sent
<1>3. CASE transmitted # <<>>
  <2>1. 1 \in DOMAIN transmitted /\ transmitted[1] \in Seq(Attachment)
    BY <1>1, <1>3
  <2>2. Len(transmitted[1]) \in 1 .. Batch
    BY <2>1 DEF OutputsInv, Batched
  <2>3. 1 \in DOMAIN transmitted[1]
    BY <1>1, <2>1, <2>2
  <2>4. transmitted[1] \in ToSet(transmitted) /\ transmitted[1][1] \in ToSet(transmitted[1])
    BY <2>1, <2>3 DEF ToSet
  <2> QED
    BY <1>3, <2>4 DEF Sent
<1> QED
  BY <1>2, <1>3

LEMMA NoticeKeeps == ASSUME OutputsInv, Notice PROVE OutputsInv'
<1> USE DEF Notice, Goes
<1>1. ChunkInv'
  BY ChunkStutterKeeps DEF OutputsInv
<1>2. told \subseteq told' /\ told' \subseteq told \cup {"error", "empty"}
  OBVIOUS
<1>3. OutputsTypeOK'
  BY <1>2 DEF OutputsInv, OutputsTypeOK
<1>4. Batched' /\ Remembered' /\ Sent' = Sent /\ \A f : Accounted(f) => Accounted(f)'
  BY <1>2, BooksUntouched
<1>5. Chosen'
  <2>1. Files(meta)' = Files(meta) /\ Files(manifest)' = Files(manifest)
    BY DEF Files, Readable
  <2>2. \A f : Coming(f)' = Coming(f)
    BY DEF Coming
  <2> QED
    BY <1>4, <2>1, <2>2 DEF OutputsInv, Chosen, PickedUp
<1>6. NeverSilent'
  <2>1. "empty" \notin told /\ "error" \notin told
    BY DEF OutputsInv
  <2>2. CASE Unusable
    BY <2>1, <2>2, <1>4 DEF NeverSilent
  <2>3. CASE ~Unusable
    BY <2>1, <2>3, <1>4, NothingSent DEF NeverSilent
  <2> QED
    BY <2>2, <2>3
<1> QED
  BY <1>1, <1>3, <1>4, <1>5, <1>6 DEF OutputsInv

LEMMA OutputsStutterKeeps ==
  ASSUME OutputsInv, UNCHANGED <<chunkVars, outputsVars>> PROVE OutputsInv'
<1> USE DEF outputsVars, filesVars
<1>1. ChunkInv'
  BY ChunkStutterKeeps DEF OutputsInv
<1>2. OutputsTypeOK'
  BY DEF OutputsInv, OutputsTypeOK
<1>3. Batched' /\ Remembered' /\ Sent' = Sent /\ \A f : Accounted(f) => Accounted(f)'
  BY BooksUntouched
<1>4. Chosen => Chosen'
  <2>1. Files(meta)' = Files(meta) /\ Files(manifest)' = Files(manifest)
    BY DEF Files, Readable
  <2>2. \A f : Coming(f)' = Coming(f)
    BY DEF Coming
  <2> QED
    BY <1>3, <2>1, <2>2 DEF Chosen, PickedUp
<1>5. NeverSilent'
  BY <1>3 DEF OutputsInv, NeverSilent
<1> QED
  BY <1>1, <1>2, <1>3, <1>4, <1>5 DEF OutputsInv

LEMMA OutputsInitial == OutputsInit => OutputsInv
<1> SUFFICES ASSUME OutputsInit PROVE OutputsInv
  OBVIOUS
<1> USE DEF OutputsInit
<1>1. ChunkInv
  BY ChunkInitial
<1>2. <<>> \in Seq(Entry) /\ <<>> \in Seq(Attachment) /\ <<>> \in Seq(Seq(Attachment))
  OBVIOUS
<1>3. OutputsTypeOK
  BY <1>2 DEF OutputsTypeOK
<1>4. NoRepeats(<<>>)
  BY DEF NoRepeats
<1>5. NoRepeats(Append(transmitted, batch))
  BY <1>2, <1>4, NewMessage
<1>6. Batched
  BY <1>5, OutputsAssumption DEF Batched
<1>7. Remembered
  BY EmptyFacts DEF Remembered, Sent
<1>8. NeverSilent
  BY DEF NeverSilent
<1> QED
  BY <1>1, <1>3, <1>6, <1>7, <1>8 DEF OutputsInv

-----------------------------------------------------------------------------
LEMMA HandingOverKeeps == OutputsSpec => []OutputsInv
<1>1. OutputsInv /\ [OutputsNext]_<<chunkVars, outputsVars>> => OutputsInv'
  <2> SUFFICES ASSUME OutputsInv, OutputsNext PROVE OutputsInv'
    BY OutputsStutterKeeps
  <2>1. CASE \E w \in BOOLEAN : SendOutputs(w)
    BY <2>1, SendOutputsKeeps
  <2>2. CASE OutputsStep
    BY <2>2, ReadBodyKeeps, CutBodyKeeps, BodyOutKeeps, ReadMetaKeeps, ReadManifestKeeps,
       NoFileKeeps, OpenEntryKeeps, AttachKeeps, LastBatchKeeps, NoticeKeeps, RaisesKeeps
       DEF OutputsStep
  <2> QED
    BY <2>1, <2>2 DEF OutputsNext
<1> QED
  BY OutputsInitial, <1>1, PTL DEF OutputsSpec

LEMMA OutputsInvPromises ==
  ASSUME OutputsInv
  PROVE  OutputsTypeOK /\ ChunkTypeOK /\ DiscordTakesIt /\ NeverSilent /\ AttachedOnce
           /\ ListedFilesArrive
<1>1. AttachedOnce
  BY BookTypes, FewerMessages DEF OutputsInv, Batched, AttachedOnce
<1>2. ListedFilesArrive
  <2> SUFFICES ASSUME opc = "done", Files(meta) \cup Files(manifest) # {}
               PROVE  \E listing \in {meta, manifest} :
                        Files(listing) # {} /\ \A f \in Files(listing) : Arrived(f)
    BY DEF ListedFilesArrive
  <2>1. PICK listing \in {meta, manifest} : PickedUp(listing)
    BY DEF OutputsInv, Chosen
  <2>2. ToSet(entries) = {} /\ ToSet(paths) = {} /\ ToSet(batch) = {}
    BY EmptyFacts DEF OutputsInv
  <2> QED
    BY <2>1, <2>2 DEF PickedUp, Accounted, Coming
<1> QED
  BY <1>1, <1>2, ChunkInvFits DEF OutputsInv, ChunkInv

(* Whatever the job left behind, whichever files exist: nobody is left     *)
(* without a word, what is listed arrives, and nothing is attached twice.  *)
THEOREM HandingOver == OutputsSpec => [](NeverSilent /\ ListedFilesArrive /\ AttachedOnce)
BY HandingOverKeeps, OutputsInvPromises, PTL

(* The cutting is begun, goes on, and is left: nothing else touches it.    *)
LEMMA CutWithinOutputs == OutputsSpec => []CutInv
<1>1. CutInv /\ [OutputsNext]_<<chunkVars, outputsVars>> => CutInv'
  <2> SUFFICES ASSUME CutInv, OutputsNext PROVE CutMoves \/ UNCHANGED chunkVars
    BY CutKeeps
  <2>1. ASSUME NEW t \in Text \cup {<<>>}, NEW svg \in BOOLEAN, ReadBody(t, svg)
        PROVE  CutMoves
    BY <2>1 DEF ReadBody, CutMoves
  <2>2. CASE CutBody \/ BodyOut
    BY <2>2 DEF CutBody, BodyOut, CutMoves
  <2>3. ASSUME NEW w \in BOOLEAN, SendOutputs(w) PROVE UNCHANGED chunkVars
    BY <2>3 DEF SendOutputs
  <2> QED
    BY <2>1, <2>2, <2>3
       DEF OutputsNext, OutputsStep, ReadMeta, ReadManifest, NoFile, OpenEntry, Attach, LastBatch,
           Notice, Raises
<1>2. OutputsInit => CutInv
  BY CutStart DEF OutputsInit
<1> QED
  BY <1>1, <1>2, PTL DEF OutputsSpec

(* All of the text of an answer survives the cutting (_send_body_text,     *)
(* outputs.py:493-511), and so do the fences of each message up to whose   *)
(* end _chunk follows them; not those behind a nested fence or a line of   *)
(* code above the limit.                                                   *)
THEOREM HandedOverWhole == OutputsSpec => [](FencesSurvive /\ NothingLost)
BY CutWithinOutputs, CutPromises, PTL

-----------------------------------------------------------------------------
(* Handing over ends.                                                      *)

(* Of send_outputs: the parts left, the entries left, what is left of one. *)
PartsLeft ==
  CASE opc = "idle" -> 7 [] opc = "body" -> 6 [] opc = "text" -> 5 [] opc = "meta" -> 4
    [] opc = "manifest" -> 3 [] opc = "attach" -> 2 [] opc = "notice" -> 1 [] OTHER -> 0
HandingRank == <<PartsLeft, Len(entries), Len(paths)>>

(* A step down, of its own or of the cutting of the body within it.        *)
HandedDown ==
  \/ Below(HandingRank', HandingRank)
  \/ HandingRank' = HandingRank /\ Below(CutRank', CutRank)

LEMMA BelowThree ==
  ASSUME NEW a, NEW b, NEW c, NEW x, NEW y, NEW z,
         \/ a < x
         \/ a = x /\ b < y
         \/ a = x /\ b = y /\ c < z
  PROVE  Below(<<a, b, c>>, <<x, y, z>>)
<1> DEFINE r == <<a, b, c>>
           s == <<x, y, z>>
<1>1. /\ DOMAIN s = 1 .. 3 /\ s[1] = x /\ s[2] = y /\ s[3] = z
      /\ r[1] = a /\ r[2] = b /\ r[3] = c
  OBVIOUS
<1>2. /\ \A k \in 1 .. 1 - 1 : FALSE
      /\ \A k \in 1 .. 2 - 1 : k = 1
      /\ \A k \in 1 .. 3 - 1 : k = 1 \/ k = 2
      /\ \A i \in {1, 2, 3} : i \in 1 .. 3
  OBVIOUS
<1> HIDE DEF r, s
<1>3. \E i \in {1, 2, 3} : r[i] < s[i] /\ \A k \in 1 .. i - 1 : r[k] = s[k]
  BY <1>1, <1>2
<1>4. Below(r, s)
  BY <1>1, <1>2, <1>3 DEF Below
<1> QED
  BY <1>4 DEF r, s

LEMMA TailShorter ==
  ASSUME NEW S, NEW q \in Seq(S), q # <<>> PROVE Len(Tail(q)) < Len(q)
OBVIOUS

LEMMA HandingDescends ==
  ASSUME ChunkTypeOK, OutputsTypeOK, OutputsNext
  PROVE  HandedDown
<1> USE DEF HandedDown
<1> DEFINE Fewer == \/ PartsLeft' < PartsLeft
                    \/ PartsLeft' = PartsLeft /\ Len(entries)' < Len(entries)
                    \/ PartsLeft' = PartsLeft /\ Len(entries)' = Len(entries)
                         /\ Len(paths)' < Len(paths)
<1>0. Fewer => Below(HandingRank', HandingRank)
  BY BelowThree DEF HandingRank
<1>1. entries \in Seq(Entry) /\ paths \in Seq(Attachment)
  BY DEF OutputsTypeOK
<1>2. ASSUME NEW t \in Text \cup {<<>>}, NEW svg \in BOOLEAN, ReadBody(t, svg) PROVE Fewer
  BY <1>2 DEF ReadBody, Goes, PartsLeft
<1>3. CASE CutBody
  <2>1. HandingRank' = HandingRank /\ ChunkStep
    BY <1>3 DEF CutBody, HandingRank, PartsLeft, outputsVars, filesVars
  <2> QED
    BY <2>1, CutDescends
<1>4. ASSUME BodyOut PROVE Fewer
  BY <1>4 DEF BodyOut, Goes, PartsLeft
<1>5. ASSUME NEW m, NEW n, ReadMeta(m, n) PROVE Fewer
  BY <1>5 DEF ReadMeta, Goes, PartsLeft
<1>6. ASSUME ReadManifest \/ LastBatch \/ Notice PROVE Fewer
  BY <1>6 DEF ReadManifest, LastBatch, Notice, Goes, PartsLeft
<1>7. CASE NoFile \/ \E rendered \in BOOLEAN : OpenEntry(rendered)
  <2>1. PartsLeft' = PartsLeft /\ entries' = Tail(entries) /\ entries # <<>>
    BY <1>7 DEF NoFile, OpenEntry, PartsLeft
  <2> QED
    BY <1>0, <1>1, <2>1, TailShorter
<1>8. CASE Attach
  <2>1. PartsLeft' = PartsLeft /\ entries' = entries /\ paths' = Tail(paths) /\ paths # <<>>
    BY <1>8 DEF Attach, PartsLeft
  <2> QED
    BY <1>0, <1>1, <2>1, TailShorter
<1>9. ASSUME Raises PROVE Fewer
  BY <1>9 DEF Raises, Goes, PartsLeft
<1>10. ASSUME NEW w \in BOOLEAN, SendOutputs(w) PROVE Fewer
  BY <1>10 DEF SendOutputs, Goes, PartsLeft
<1> QED
  BY <1>0, <1>2, <1>3, <1>4, <1>5, <1>6, <1>7, <1>8, <1>9, <1>10 DEF OutputsNext, OutputsStep

(* send_outputs ends: no file list, no entry and no text keeps it going    *)
(* (its loops over pieces, entries and attachments, outputs.py:59-93).     *)
THEOREM HandingOverComesToAnEnd ==
  OutputsSpec =>
    /\ [](HandingRank \in Nat \X Nat \X Nat /\ CutRank \in Nat \X Nat \X Nat \X Nat)
    /\ [][HandedDown]_<<chunkVars, outputsVars>>
<1>1. OutputsInv => HandingRank \in Nat \X Nat \X Nat /\ CutRank \in Nat \X Nat \X Nat \X Nat
  <2> SUFFICES ASSUME OutputsInv PROVE HandingRank \in Nat \X Nat \X Nat
    BY CutRankType DEF OutputsInv, ChunkInv
  <2>1. Len(entries) \in Nat /\ Len(paths) \in Nat
    <3>1. entries \in Seq(Entry) /\ paths \in Seq(Attachment)
      BY DEF OutputsInv, OutputsTypeOK
    <3> QED
      BY <3>1
  <2>2. PartsLeft \in Nat
    BY DEF PartsLeft, OutputsInv, OutputsTypeOK
  <2> QED
    BY <2>1, <2>2 DEF HandingRank
<1>2. OutputsInv /\ [OutputsNext]_<<chunkVars, outputsVars>>
        => [HandedDown]_<<chunkVars, outputsVars>>
  BY HandingDescends DEF OutputsInv, ChunkInv
<1> QED
  BY <1>1, <1>2, HandingOverKeeps, PTL DEF OutputsSpec

=============================================================================
