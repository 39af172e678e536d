------------------------------ MODULE Outputs -------------------------------
(***************************************************************************)
(* What a finished job hands over (src/src/outputs.py, send_outputs): the  *)
(* answer, cut by Chunks, then the files that the job left behind, as its  *)
(* bookkeeping files list them, then the notice that there was nothing.    *)
(*                                                                         *)
(* What is on disk is chosen when it is read.  Every send may raise, which *)
(* ends the call and whatever of it was still to come.                     *)
(***************************************************************************)
EXTENDS Chunks

CONSTANTS
  File,     \* files of the job directory that can be attached
  Svg,      \* those a preview picture is made of
  Big,      \* those above MAX_ATTACH_BYTES
  Inline,   \* the file an SVG block of the answer becomes
  Listing,  \* what `files` of meta.json or manifest.json may say
  Batch     \* how many files one message takes

(* Entries that are no file: not an object; outside the job directory; not *)
(* there.  Bookkeeping files may be missing, or unusable.                  *)
Entry == File \cup {"malformed", "unsafe", "gone"}
Missing == "missing"
Broken == "broken"

ASSUME OutputsAssumption ==
  /\ Svg \subseteq File /\ Big \subseteq File /\ Inline \in Svg
  /\ Listing \subseteq Seq(Entry)
  /\ Batch \in Nat \ {0}

VARIABLES
  opc,           \* where send_outputs is
  warn,          \* warn_missing_manifest
  body,          \* body_source was not empty
  meta, manifest, \* what the two files hold
  entries,       \* attachment_entries still to come
  paths,         \* attachments of the current entry still to come
  seen,          \* sent_paths
  batch,         \* files
  transmitted,   \* the messages with files that went out
  told           \* the other messages that went out

filesVars == <<meta, manifest, entries, paths, seen, batch, transmitted, told>>
outputsVars == <<opc, warn, body, filesVars>>

Attachment == File \X {"file", "preview"}

OutputsTypeOK ==
  /\ opc \in {"idle", "body", "text", "meta", "manifest", "attach", "notice", "done", "raised"}
  /\ warn \in BOOLEAN /\ body \in BOOLEAN
  /\ {meta, manifest} \subseteq Listing \cup {<<Missing>>, <<Broken>>}
  /\ entries \in Seq(Entry)
  /\ paths \in Seq(Attachment) /\ batch \in Seq(Attachment)
  /\ seen \subseteq Attachment
  /\ transmitted \in Seq(Seq(Attachment))
  /\ told \subseteq {"malformed", "unsafe", "too big", "error", "empty"}

OutputsInit ==
  /\ ChunkInit
  /\ opc = "idle" /\ warn = FALSE /\ body = FALSE
  /\ meta = <<Missing>> /\ manifest = <<Missing>>
  /\ entries = <<>> /\ paths = <<>> /\ seen = {} /\ batch = <<>>
  /\ transmitted = <<>> /\ told = {}

Goes(label) == opc' = label

-----------------------------------------------------------------------------
(* Called with the model's text, or without (after a timeout).             *)
SendOutputs(w) ==
  /\ opc = "idle"
  /\ Goes("body")
  /\ warn' = w
  /\ UNCHANGED <<chunkVars, body, filesVars>>

(* _extract_inline_svg_blocks: an SVG block of the body becomes a file.    *)
InlineEntries(svg) == IF svg THEN <<Inline>> ELSE <<>>

(* _resolve_body_text: output.md or the text.                              *)
ReadBody(t, svg) ==
  /\ opc = "body"
  /\ svg => t # <<>>
  /\ BeginBody(t)
  /\ body' = (t # <<>>)
  /\ entries' = InlineEntries(svg)
  /\ Goes("text")
  /\ UNCHANGED <<warn, meta, manifest, paths, seen, batch, transmitted, told>>

CutBody ==
  /\ opc = "text"
  /\ ChunkStep
  /\ UNCHANGED outputsVars

BodyOut ==
  /\ opc = "text" /\ cpc \in {"sent", "refused"}
  /\ Goes(IF cpc = "sent" THEN "meta" ELSE "raised")
  /\ Left("idle")
  /\ UNCHANGED <<warn, body, filesVars>>

Readable(listing) == listing \notin {<<Missing>>, <<Broken>>}
Exists(listing) == Readable(listing) /\ \E i \in DOMAIN listing : listing[i] \in File
NonEmpty(listing) == Readable(listing) /\ listing # <<>>

MetaWinsListed(m, n) ==     \* mutant: what is listed need not exist
  /\ opc = "meta"
  /\ meta' = m /\ manifest' = n
  /\ IF NonEmpty(m) THEN entries' = entries \o m /\ Goes("attach")
                    ELSE UNCHANGED entries /\ Goes("manifest")
  /\ UNCHANGED <<chunkVars, warn, body, paths, seen, batch, transmitted, told>>

(* _resolve_manifest_entries: meta.json if anything it lists exists, ...   *)
ReadMeta(m, n) ==
  /\ opc = "meta"
  /\ meta' = m /\ manifest' = n
  /\ IF Exists(m) THEN entries' = entries \o m /\ Goes("attach")
                  ELSE UNCHANGED entries /\ Goes("manifest")
  /\ UNCHANGED <<chunkVars, warn, body, paths, seen, batch, transmitted, told>>

(* ... otherwise manifest.json, otherwise meta.json after all.             *)
ReadManifest ==
  /\ opc = "manifest"
  /\ entries' = entries \o (CASE NonEmpty(manifest) -> manifest
                             [] ~NonEmpty(manifest) /\ NonEmpty(meta) -> meta
                             [] OTHER -> <<>>)
  /\ Goes("attach")
  /\ UNCHANGED <<chunkVars, warn, body, meta, manifest, paths, seen, batch, transmitted, told>>

(* manifest_error.                                                         *)
Unusable ==
  ~NonEmpty(meta) /\ ~NonEmpty(manifest) /\ <<Broken>> \in {meta, manifest}

-----------------------------------------------------------------------------
(* _send_attachment_entries, one entry, one attachment of it at a time.    *)

(* An entry that is reported, or one that is skipped.                      *)
NoFile ==
  /\ opc = "attach" /\ paths = <<>> /\ entries # <<>>
  /\ Head(entries) \notin File
  /\ entries' = Tail(entries)
  /\ told' = told \cup ({Head(entries)} \ {"gone"})
  /\ UNCHANGED <<chunkVars, opc, warn, body, meta, manifest, paths, seen, batch, transmitted>>

(* _attachment_paths_for: a preview goes first, if a renderer made one.    *)
AttachmentsOf(f, rendered) ==
  (IF rendered THEN <<<<f, "preview">>>> ELSE <<>>) \o <<<<f, "file">>>>

OpenEntry(rendered) ==
  /\ opc = "attach" /\ paths = <<>> /\ entries # <<>>
  /\ Head(entries) \in File
  /\ rendered => Head(entries) \in Svg
  /\ entries' = Tail(entries)
  /\ paths' = AttachmentsOf(Head(entries), rendered)
  /\ UNCHANGED <<chunkVars, opc, warn, body, meta, manifest, seen, batch, transmitted, told>>

TooBig(a) == a[1] \in Big /\ a[2] = "file"

Queue(a) ==
  IF Len(batch) + 1 >= Batch
  THEN transmitted' = Append(transmitted, Append(batch, a)) /\ batch' = <<>>
  ELSE batch' = Append(batch, a) /\ UNCHANGED transmitted

AttachAgain ==              \* mutant: sent_paths is not asked
  /\ opc = "attach" /\ paths # <<>>
  /\ paths' = Tail(paths)
  /\ seen' = seen \cup {Head(paths)}
  /\ IF TooBig(Head(paths))
     THEN told' = told \cup {"too big"} /\ UNCHANGED <<batch, transmitted>>
     ELSE Queue(Head(paths)) /\ UNCHANGED told
  /\ UNCHANGED <<chunkVars, opc, warn, body, meta, manifest, entries>>

Attach ==
  /\ opc = "attach" /\ paths # <<>>
  /\ paths' = Tail(paths)
  /\ seen' = seen \cup {Head(paths)}
  /\ CASE Head(paths) \in seen -> UNCHANGED <<batch, transmitted, told>>
       [] Head(paths) \notin seen /\ TooBig(Head(paths)) ->
            told' = told \cup {"too big"} /\ UNCHANGED <<batch, transmitted>>
       [] OTHER -> Queue(Head(paths)) /\ UNCHANGED told
  /\ UNCHANGED <<chunkVars, opc, warn, body, meta, manifest, entries>>

LastBatch ==
  /\ opc = "attach" /\ paths = <<>> /\ entries = <<>>
  /\ transmitted' = IF batch = <<>> THEN transmitted ELSE Append(transmitted, batch)
  /\ batch' = <<>>
  /\ Goes("notice")
  /\ UNCHANGED <<chunkVars, warn, body, meta, manifest, entries, paths, seen, told>>

NoticeByListing ==          \* mutant: what was listed counts as sent
  /\ opc = "notice"
  /\ told' = CASE Unusable -> told \cup {"error"}
               [] ~Unusable /\ warn /\ ~body /\ ~NonEmpty(meta) /\ ~NonEmpty(manifest) ->
                    told \cup {"empty"}
               [] OTHER -> told
  /\ Goes("done")
  /\ UNCHANGED <<chunkVars, warn, body, meta, manifest, entries, paths, seen, batch, transmitted>>

(* The error of the bookkeeping files, or _maybe_send_empty_notice.        *)
Notice ==
  /\ opc = "notice"
  /\ told' = CASE Unusable -> told \cup {"error"}
               [] ~Unusable /\ warn /\ ~body /\ transmitted = <<>> -> told \cup {"empty"}
               [] OTHER -> told
  /\ Goes("done")
  /\ UNCHANGED <<chunkVars, warn, body, meta, manifest, entries, paths, seen, batch, transmitted>>

(* A write of an inline picture, a send, or a file that cannot be opened.  *)
Raises ==
  /\ opc \in {"body", "attach", "notice"}
  /\ Goes("raised")
  /\ UNCHANGED <<chunkVars, warn, body, filesVars>>

OutputsStep ==
  \/ opc = "body" /\ \E t \in Text \cup {<<>>}, svg \in BOOLEAN : ReadBody(t, svg)
  \/ CutBody \/ BodyOut
  \/ opc = "meta" /\ \E m, n \in Listing \cup {<<Missing>>, <<Broken>>} : ReadMeta(m, n)
  \/ ReadManifest \/ NoFile \/ Attach \/ LastBatch \/ Notice \/ Raises
  \/ \E rendered \in BOOLEAN : OpenEntry(rendered)

OutputsNext == (\E w \in BOOLEAN : SendOutputs(w)) \/ OutputsStep

OutputsSpec == OutputsInit /\ [][OutputsNext]_<<chunkVars, outputsVars>>

-----------------------------------------------------------------------------
Sent == UNION {ToSet(files) : files \in ToSet(transmitted)}
Files(listing) == IF Readable(listing) THEN ToSet(listing) \cap File ELSE {}
Arrived(f) == <<f, "file">> \in Sent \/ (f \in Big /\ "too big" \in told)

(* A call that returns, and was asked to, leaves nobody without a word:    *)
(* the notice comes exactly when neither text nor a file went out and no   *)
(* error was reported instead (outputs.py:86-93).                          *)
NeverSilent ==
  opc = "done" =>
    ("empty" \in told) = (warn /\ ~body /\ Sent = {} /\ "error" \notin told)

(* If either bookkeeping file lists something that exists, all that exists *)
(* of one of them arrives, or is said to be too big: a broken, shorter or  *)
(* outdated file beside it takes nothing away (outputs.py:73-84).          *)
ListedFilesArrive ==
  opc = "done" /\ Files(meta) \cup Files(manifest) # {} =>
    \E listing \in {meta, manifest} :
      Files(listing) # {} /\ \A f \in Files(listing) : Arrived(f)

(* Nothing is attached twice, however often it is listed, and no message   *)
(* has more files than Discord takes (outputs.py:284-330).                 *)
NoRepeats(messages) ==
  \A i, k \in DOMAIN messages :
    \A j \in DOMAIN messages[i], l \in DOMAIN messages[k] :
      messages[i][j] = messages[k][l] => i = k /\ j = l
AttachedOnce ==
  /\ NoRepeats(transmitted)
  /\ \A i \in DOMAIN transmitted : Len(transmitted[i]) \in 1 .. Batch

=============================================================================
