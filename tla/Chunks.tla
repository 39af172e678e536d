------------------------------- MODULE Chunks -------------------------------
(***************************************************************************)
(* Cutting an answer into Discord messages (src/src/outputs.py): _chunk,   *)
(* _send_body_text and the preview of an answer that is sent as a file.    *)
(*                                                                         *)
(* A text is a sequence of lines, a line is its length and what _chunk and *)
(* a Markdown reader see in it: a fence marker, its length, a language     *)
(* behind it, a newline at the end.  A buffer or a piece is its length and *)
(* the items it is made of: parts of lines, and the fence lines that       *)
(* _chunk adds.  One action is one round of a loop of the code.            *)
(*                                                                         *)
(* There are two lengths.  Python counts code points, and so does _chunk;  *)
(* Discord counts UTF-16 units, two for an astral character such as most   *)
(* emoji.  The wide characters of a line are the offsets of those.         *)
(***************************************************************************)
EXTENDS Integers, Sequences, SequencesExt

CONSTANTS
  Text,          \* the answers considered
  Limit,         \* DISCORD_CHUNK_LIMIT
  MessageLimit,  \* DISCORD_MESSAGE_LIMIT
  Suffix,        \* the length of _PREVIEW_SUFFIX
  MaxInline      \* OUTPUT_INLINE_MAX_CHUNKS

Mark == {"none", "tick", "tilde"}
Line == [len : Nat \ {0}, wide : SUBSET Nat,
         mark : Mark, run : Nat, info : BOOLEAN, nl : BOOLEAN]
Item == [is : {"text", "open", "close"}, line : Nat, from : Nat, upto : Nat]
Piece == [len : Nat, astral : Nat, items : Seq(Item)]

ASSUME ChunkAssumption ==
  /\ Text \subseteq Seq(Line)
  /\ \A t \in Text : \A i \in DOMAIN t : t[i].wide \subseteq 0 .. t[i].len - 1
  /\ Limit \in Nat /\ Suffix \in Nat /\ Suffix < Limit
  /\ MessageLimit \in Nat /\ Limit <= MessageLimit
  /\ MaxInline \in Nat \ {0}

VARIABLES
  text,        \* what is being cut
  cpc,         \* where _send_body_text is
  previewing,  \* _chunk runs for _build_preview
  at,          \* the line _chunk is at
  rest,        \* how much of it is left
  open,        \* open_fence_line and open_fence_run: the line, or 0
  buf, pieces, \* buf, chunks
  sent         \* how many pieces have been sent

chunkVars == <<text, cpc, previewing, at, rest, open, buf, pieces, sent>>

Nothing == [len |-> 0, astral |-> 0, items |-> <<>>]

ChunkTypeOK ==
  /\ text \in Seq(Line)
  /\ cpc \in {"idle", "line", "split", "cut", "sending", "sent", "refused"}
  /\ previewing \in BOOLEAN
  /\ at \in 1 .. Len(text) + 1
  /\ rest \in Nat
  /\ open \in 0 .. Len(text)
  /\ buf \in Piece
  /\ pieces \in Seq(Piece)
  /\ sent \in 0 .. Len(pieces)

ChunkInit ==
  /\ text = <<>> /\ cpc = "idle" /\ previewing = FALSE
  /\ at = 1 /\ rest = 0 /\ open = 0
  /\ buf = Nothing /\ pieces = <<>> /\ sent = 0

(* The limit _chunk is called with; max(..., 200) in _build_preview never  *)
(* applies to the constants of the code.                                   *)
limit == IF previewing THEN Limit - Suffix ELSE Limit

-----------------------------------------------------------------------------
(* The length of an item, the astral characters in it, and both lengths    *)
(* with the item added; the length of a message for Discord.               *)
Length(m) == m.upto - m.from
Astral(m) ==
  IF m.is = "close" THEN 0 ELSE Cardinality(text[m.line].wide \cap (m.from .. m.upto - 1))
Plus(b, m) == [len |-> b.len + Length(m), astral |-> b.astral + Astral(m),
               items |-> Append(b.items, m)]
Units(p) == p.len + p.astral

Fence(kind, i, n) == [is |-> kind, line |-> i, from |-> 0, upto |-> n]

(* closer(), and the opening line as it is written again, which always     *)
(* ends in a newline.                                                      *)
CloserLen == IF open = 0 THEN 0 ELSE text[open].run + 2
OpenerLen(i) == IF text[i].nl THEN text[i].len ELSE text[i].len + 1

EndsLine(b) == LET k == Last(b.items) IN k.is = "text" => text[k.line].nl

(* flush() while buf is not empty: the piece ...                           *)
Flushed ==
  IF open = 0 THEN buf
  ELSE Plus(buf, Fence("close", open, text[open].run + (IF EndsLine(buf) THEN 1 ELSE 2)))

NotReopened == Nothing      \* mutant: the next piece starts outside the fence

(* ... and what the next one starts with.                                  *)
Reopened ==
  IF open = 0 THEN Nothing ELSE Plus(Nothing, Fence("open", open, OpenerLen(open)))

(* Called with a text; an empty one gives no pieces.                       *)
BeginBody(t) ==
  /\ cpc = "idle"
  /\ text' = t
  /\ cpc' = IF t = <<>> THEN "sent" ELSE "line"
  /\ UNCHANGED <<previewing, at, rest, open, buf, pieces, sent>>

OverflowsLate ==            \* mutant: the line itself is not counted
  buf.len > 0 /\ buf.len + CloserLen > limit

Overflows == buf.len > 0 /\ buf.len + text[at].len + CloserLen > limit

NextLineUnflushed ==        \* mutant: flushes too late, after the cuts of the line
  /\ cpc = "line" /\ at <= Len(text)
  /\ cpc' = "split"
  /\ rest' = text[at].len
  /\ IF Overflows /\ text[at].len <= limit
     THEN pieces' = Append(pieces, Flushed) /\ buf' = Reopened
     ELSE UNCHANGED <<pieces, buf>>
  /\ UNCHANGED <<text, previewing, at, open, sent>>

NextLine ==
  /\ cpc = "line" /\ at <= Len(text)
  /\ cpc' = "split"
  /\ rest' = text[at].len
  /\ IF Overflows
     THEN pieces' = Append(pieces, Flushed) /\ buf' = Reopened
     ELSE UNCHANGED <<pieces, buf>>
  /\ UNCHANGED <<text, previewing, at, open, sent>>

PartOf(n) == [is |-> "text", line |-> at, from |-> text[at].len - rest,
              upto |-> text[at].len - rest + n]

(* A line that is too long for any piece.                                  *)
HardSplit ==
  /\ cpc = "split" /\ rest > limit
  /\ pieces' = Append(pieces, Plus(Nothing, PartOf(limit)))
  /\ rest' = rest - limit
  /\ UNCHANGED <<text, cpc, previewing, at, open, buf, sent>>

(* buf += line; any fence line opens a fence or closes the open one.       *)
TakeLine ==
  /\ cpc = "split" /\ rest <= limit
  /\ buf' = Plus(buf, PartOf(rest))
  /\ open' = IF text[at].mark = "none" THEN open ELSE IF open = 0 THEN at ELSE 0
  /\ at' = at + 1
  /\ cpc' = "line"
  /\ UNCHANGED <<text, previewing, rest, pieces, sent>>

LastFlush ==
  /\ cpc = "line" /\ at > Len(text)
  /\ pieces' = Append(pieces, Flushed)
  /\ cpc' = "cut"
  /\ UNCHANGED <<text, previewing, at, rest, open, buf, sent>>

-----------------------------------------------------------------------------
(* _send_body_text.  Too many pieces: the whole text goes as one file, and *)
(* it is cut once more for the head of it.                                 *)
Paginate ==
  /\ cpc = "cut" /\ (previewing \/ Len(pieces) <= MaxInline)
  /\ cpc' = "sending"
  /\ UNCHANGED <<text, previewing, at, rest, open, buf, pieces, sent>>

CutPreview ==
  /\ cpc = "cut" /\ ~previewing /\ Len(pieces) > MaxInline
  /\ previewing' = TRUE
  /\ cpc' = "line"
  /\ at' = 1 /\ open' = 0 /\ rest' = 0
  /\ buf' = Nothing /\ pieces' = <<>>
  /\ UNCHANGED <<text, sent>>

(* Discord takes a message that is not too long and not blank (external).  *)
Newline(k) == k.is = "text" /\ text[k.line].nl /\ k.from = text[k.line].len - 1
Blank(p) == \A i \in DOMAIN p.items : Newline(p.items[i])
SendPiece ==
  /\ cpc = "sending" /\ ~previewing /\ sent < Len(pieces)
  /\ Units(pieces[sent + 1]) <= MessageLimit /\ ~Blank(pieces[sent + 1])
  /\ sent' = sent + 1
  /\ UNCHANGED <<text, cpc, previewing, at, rest, open, buf, pieces>>

(* The locals of the call are gone.                                        *)
Left(how) ==
  /\ cpc' = how
  /\ text' = <<>> /\ previewing' = FALSE
  /\ at' = 1 /\ rest' = 0 /\ open' = 0
  /\ buf' = Nothing /\ pieces' = <<>> /\ sent' = 0

(* A preview without its trailing newlines is followed by the suffix.      *)
BodySent ==
  /\ cpc = "sending"
  /\ IF previewing THEN Units(pieces[1]) + Suffix <= MessageLimit ELSE sent = Len(pieces)
  /\ Left("sent")

(* Discord refuses a piece, or cannot be reached: send raises.             *)
BodyRefused ==
  /\ cpc = "sending" /\ (previewing \/ sent < Len(pieces))
  /\ Left("refused")

ChunkStep ==
  \/ NextLine \/ HardSplit \/ TakeLine \/ LastFlush \/ Paginate \/ CutPreview
  \/ SendPiece \/ BodySent \/ BodyRefused

ChunkNext ==
  \/ cpc = "idle" /\ \E t \in Text \cup {<<>>} : BeginBody(t)
  \/ ChunkStep

ChunkSpec == ChunkInit /\ [][ChunkNext]_chunkVars

-----------------------------------------------------------------------------
(* What a Markdown reader makes of lines (external): a fence ends at a     *)
(* line of at least as many of its own marks and nothing else.             *)
Prose == [mark |-> "none", run |-> 0]
Reads(state, mark, run, info) ==
  CASE mark = "none" -> state
    [] mark # "none" /\ state = Prose -> [mark |-> mark, run |-> run]
    [] OTHER -> IF mark = state.mark /\ run >= state.run /\ ~info THEN Prose ELSE state

(* The reader's state after the first lines of a text, ...                 *)
InText(t) ==
  LET after[i \in 0 .. Len(t)] ==
        IF i = 0 THEN Prose ELSE Reads(after[i - 1], t[i].mark, t[i].run, t[i].info)
  IN after

(* ... and after the first items of a message.                             *)
ReadsItem(t, state, m) ==
  IF m.is = "text" /\ m.from > 0 THEN state
  ELSE Reads(state, t[m.line].mark, t[m.line].run, t[m.line].info /\ m.is # "close")
InPiece(t, items) ==
  LET after[k \in 0 .. Len(items)] ==
        IF k = 0 THEN Prose ELSE ReadsItem(t, after[k - 1], items[k])
  IN after

(* _chunk follows the fences of the first n lines of a text: at each its   *)
(* one bit is what Markdown sees, and no fence or line inside one is above *)
(* the limit, which is cut without regard to fences.                       *)
Tracked(t, i) ==
  (InText(t)[i] # Prose) = (Cardinality({k \in 1 .. i : t[k].mark # "none"}) % 2 = 1)
Fitting(t, max, i) == t[i].len > max => InText(t)[i - 1] = Prose /\ t[i].mark = "none"
Followed(t, max, n) == \A i \in 1 .. n : Tracked(t, i) /\ Fitting(t, max, i)

(* The same of all lines up to the last one in a message.                  *)
FollowedIn(t, max, p) ==
  \A k \in DOMAIN p.items : p.items[k].is = "text" => Followed(t, max, p.items[k].line)

ShowsAsWritten(t, items) ==
  \A k \in DOMAIN items :
    items[k].is = "text" /\ t[items[k].line].mark = "none" =>
      (InPiece(t, items)[k - 1] # Prose) = (InText(t)[items[k].line - 1] # Prose)
ReadsAlike(t, items) ==
  InPiece(t, items)[Len(items)] = Prose /\ ShowsAsWritten(t, items)

(* Each message closes the fences it opens, and shows as code exactly what *)
(* is code in the answer, wherever it was cut (outputs.py:528-533) - up to *)
(* the first line whose fences _chunk does not follow.                     *)
FencesSurvive ==
  \A i \in DOMAIN pieces :
    FollowedIn(text, limit, pieces[i]) => ReadsAlike(text, pieces[i].items)

(* What the docstring of _chunk says, of every text: a fenced block never  *)
(* renders broken just because it was split (outputs.py:531-533).          *)
FencesAlwaysSurvive ==
  \A i \in DOMAIN pieces : ReadsAlike(text, pieces[i].items)

(* The places of the text in a sequence of pieces, in their order.         *)
Places(q) ==
  UNION {{<<i, k>> : k \in {n \in DOMAIN q[i].items : q[i].items[n].is = "text"}} : i \in DOMAIN q}
PartAt(q, x) == q[x[1]].items[x[2]]
Before(x, y) == x[1] < y[1] \/ (x[1] = y[1] /\ x[2] < y[2])

Starts(m) == m.line = 1 /\ m.from = 0
Follows(t, k, m) ==
  IF m.line = k.line THEN m.from = k.upto
  ELSE m.line = k.line + 1 /\ m.from = 0 /\ k.upto = t[k.line].len
Ends(t, m) == m.line = Len(t) /\ m.upto = t[m.line].len

InOrder(t, q) ==
  /\ \A x \in Places(q) :
       (\A z \in Places(q) : ~Before(z, x)) => Starts(PartAt(q, x))
  /\ \A x, y \in Places(q) :
       Before(x, y) /\ (\A z \in Places(q) : ~(Before(x, z) /\ Before(z, y))) =>
         Follows(t, PartAt(q, x), PartAt(q, y))
ReachesEnd(t, q) ==
  \E x \in Places(q) : Ends(t, PartAt(q, x)) /\ \A z \in Places(q) : ~Before(x, z)

(* The messages, without the lines _chunk added, are the answer: no part   *)
(* of it is lost, repeated or out of order (outputs.py:558-583).           *)
NothingLost ==
  IF cpc \in {"cut", "sending"} THEN InOrder(text, pieces) /\ ReachesEnd(text, pieces)
                                ELSE InOrder(text, Append(pieces, buf))

(* No message is longer for Discord than it allows, as long as the         *)
(* headroom between the two limits has room for the fence lines of the     *)
(* answer and the astral characters of the message (outputs.py:29-37).     *)
HeadroomFor(n) ==
  /\ n <= MessageLimit - Limit
  /\ \A i \in DOMAIN text :
       text[i].mark # "none" => OpenerLen(i) + text[i].run + 2 + n <= MessageLimit - Limit
DiscordTakesIt ==
  \A i \in DOMAIN pieces :
    HeadroomFor(pieces[i].astral) =>
      Units(pieces[i]) + (IF previewing THEN Suffix ELSE 0) <= MessageLimit

(* Whatever the text, every piece can be sent as a message of its own      *)
(* (outputs.py:522-523).                                                   *)
SafeToSend == \A i \in DOMAIN pieces : Units(pieces[i]) <= MessageLimit /\ ~Blank(pieces[i])

=============================================================================
