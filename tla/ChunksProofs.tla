---------------------------- MODULE ChunksProofs ----------------------------
(***************************************************************************)
(* Proofs about the cutting of an answer, for every set of texts and all   *)
(* limits: a message is as long as Discord allows if the headroom has room *)
(* for the fence lines and for its astral characters; the fences survive   *)
(* the cuts as far as _chunk follows them; nothing of the text is lost;    *)
(* and it comes to an end.                                                 *)
(*                                                                         *)
(* The two halves of flush() need each other's slack.  A buffer is within  *)
(* the limit before it is closed, or it holds one line only, behind a      *)
(* fence that had to be opened again: no piece has more code points above  *)
(* the limit than the longest opener and closer, for every number h that   *)
(* is large enough for those.  What the headroom has beyond h is there for *)
(* the astral characters.                                                  *)
(*                                                                         *)
(* A piece shows what it should if the state of a reader at its end is the *)
(* one bit of _chunk.  The bit is followed only as far as it is right: the *)
(* piece that is flushed ends with the line before, and what is assumed of *)
(* all lines up to the end of the piece is assumed of that one.            *)
(*                                                                         *)
(* What a reader of a text or of a message has seen is a recursive         *)
(* function over its lines.  That it exists, and what it is at each line,  *)
(* is proved by induction written with sets: a set of numbers that is not  *)
(* empty has a least element.                                              *)
(***************************************************************************)
EXTENDS Chunks, FiniteSetTheorems, WellFoundedInduction, TLAPS

Opened == IF open = 0 THEN 0 ELSE OpenerLen(open)

(* If h is enough for every fence line, no piece is more than h longer than *)
(* the limit.                                                              *)
Slack(h) == \A i \in DOMAIN text : text[i].mark # "none" => OpenerLen(i) + text[i].run + 2 <= h
Fits(h) ==
  /\ cpc = "line" => buf.len + CloserLen <= limit + h
  /\ cpc = "split" => buf.len + rest + CloserLen <= limit \/ buf.len <= Opened
  /\ \A i \in DOMAIN pieces : pieces[i].len <= limit + h

ChunkInv ==
  /\ ChunkTypeOK
  /\ cpc = "split" => at \in DOMAIN text /\ rest <= text[at].len
  /\ open # 0 => text[open].mark # "none"
  /\ cpc \in {"idle", "sent", "refused"} =>
       previewing = FALSE /\ at = 1 /\ rest = 0 /\ open = 0 /\ buf = Nothing /\ pieces = <<>>
  /\ cpc # "sending" => sent = 0
  /\ \A h \in Nat : Slack(h) => Fits(h)

-----------------------------------------------------------------------------
(* Numbers are numbers.                                                    *)
LEMMA LineFacts ==
  ASSUME text \in Seq(Line), NEW i \in DOMAIN text
  PROVE  /\ text[i] \in Line
         /\ text[i].len \in Nat /\ text[i].run \in Nat /\ text[i].len > 0
         /\ OpenerLen(i) \in Nat
<1>1. text[i] \in Line
  OBVIOUS
<1> QED
  BY <1>1 DEF Line, OpenerLen

LEMMA LimitFacts == limit \in Nat /\ limit <= Limit
BY ChunkAssumption DEF limit

LEMMA LengthFacts ==
  ASSUME ChunkTypeOK
  PROVE  CloserLen \in Nat /\ Opened \in Nat /\ buf.len \in Nat
<1>1. buf.len \in Nat
  BY DEF ChunkTypeOK, Piece
<1>2. open # 0 => open \in DOMAIN text
  BY DEF ChunkTypeOK
<1>3. open # 0 => text[open].run \in Nat /\ OpenerLen(open) \in Nat
  BY <1>2, LineFacts DEF ChunkTypeOK
<1> QED
  BY <1>1, <1>3 DEF CloserLen, Opened

(* An item added to a piece gives a piece.                                 *)
LEMMA AstralFacts == ASSUME NEW m \in Item PROVE Astral(m) \in Nat
<1>1. m.from \in Int /\ m.upto - 1 \in Int
  BY DEF Item
<1>2. IsFiniteSet(m.from .. m.upto - 1)
  BY <1>1, FS_Interval
<1>3. IsFiniteSet(text[m.line].wide \cap (m.from .. m.upto - 1))
  BY <1>2, FS_Subset
<1> QED
  BY <1>3, FS_CardinalityType DEF Astral

LEMMA PlusPiece ==
  ASSUME NEW b \in Piece, NEW m \in Item, m.from <= m.upto
  PROVE  Plus(b, m) \in Piece /\ Plus(b, m).len = b.len + m.upto - m.from
<1>1. Astral(m) \in Nat /\ m.upto - m.from \in Nat
  BY AstralFacts DEF Item
<1>2. b.len \in Nat /\ b.astral \in Nat /\ Append(b.items, m) \in Seq(Item)
  BY DEF Piece
<1> QED
  BY <1>1, <1>2 DEF Plus, Piece, Length, Item

LEMMA FenceItem ==
  ASSUME NEW kind \in {"open", "close"}, NEW i \in Nat, NEW n \in Nat
  PROVE  /\ Fence(kind, i, n) \in Item
         /\ Fence(kind, i, n).from = 0 /\ Fence(kind, i, n).upto = n
BY DEF Fence, Item

LEMMA NothingIsPiece == Nothing \in Piece /\ Nothing.len = 0
BY DEF Nothing, Piece

(* What flush() leaves behind: at most a closer more than was there, and   *)
(* the opening fence.                                                      *)
LEMMA FlushFacts ==
  ASSUME ChunkTypeOK
  PROVE  /\ Flushed \in Piece /\ Flushed.len <= buf.len + CloserLen
         /\ Reopened \in Piece /\ Reopened.len = Opened
<1>1. buf \in Piece /\ buf.len \in Nat
  BY LengthFacts DEF ChunkTypeOK
<1>2. CASE open = 0
  BY <1>1, <1>2, NothingIsPiece DEF Flushed, Reopened, CloserLen, Opened
<1>3. CASE open # 0
  <2>1. open \in Nat /\ text[open].run \in Nat /\ OpenerLen(open) \in Nat
    BY <1>3, LineFacts DEF ChunkTypeOK
  <2> DEFINE n == text[open].run + (IF EndsLine(buf) THEN 1 ELSE 2)
  <2>2. n \in Nat /\ n <= CloserLen
    BY <1>3, <2>1 DEF CloserLen
  <2>3. Flushed = Plus(buf, Fence("close", open, n))
    BY <1>3 DEF Flushed
  <2>4. Reopened = Plus(Nothing, Fence("open", open, OpenerLen(open)))
    BY <1>3 DEF Reopened
  <2>6. CloserLen \in Nat
    BY LengthFacts
  <2>7. Flushed \in Piece /\ Flushed.len = buf.len + n
    <3> DEFINE m == Fence("close", open, n)
    <3>1. m \in Item /\ m.from = 0 /\ m.upto = n
      BY <2>1, <2>2, FenceItem
    <3> HIDE DEF m, n
    <3>2. Plus(buf, m) \in Piece /\ Plus(buf, m).len = buf.len + n - 0
      BY <1>1, <2>2, <3>1, PlusPiece
    <3> QED
      BY <1>1, <2>2, <2>3, <3>2 DEF m
  <2>8. Reopened \in Piece /\ Reopened.len = OpenerLen(open)
    <3> DEFINE again == OpenerLen(open)  m == Fence("open", open, again)
    <3>1. again \in Nat /\ m \in Item /\ m.from = 0 /\ m.upto = again
      BY <2>1, FenceItem
    <3> HIDE DEF again, m
    <3>2. Plus(Nothing, m) \in Piece /\ Plus(Nothing, m).len = 0 + again - 0
      BY <3>1, PlusPiece, NothingIsPiece
    <3> QED
      BY <2>4, <3>1, <3>2 DEF again, m
  <2> QED
    BY <1>1, <1>3, <2>2, <2>6, <2>7, <2>8 DEF Opened
<1> QED
  BY <1>2, <1>3

(* A piece more, no longer than the others may be.                         *)
LEMMA OneMorePiece ==
  ASSUME pieces \in Seq(Piece), NEW p \in Piece, NEW m \in Int, p.len <= m,
         \A i \in DOMAIN pieces : pieces[i].len <= m
  PROVE  \A i \in DOMAIN Append(pieces, p) : Append(pieces, p)[i].len <= m
OBVIOUS

-----------------------------------------------------------------------------
(* One lemma per action.                                                   *)
LEMMA NextLineKeeps == ASSUME ChunkInv, NextLine PROVE ChunkInv'
<1> USE DEF NextLine
<1>1. at \in DOMAIN text /\ text \in Seq(Line) /\ rest' = text[at].len
  BY DEF ChunkInv, ChunkTypeOK
<1>2. text[at].len \in Nat
  BY <1>1, LineFacts
<1>3. Flushed \in Piece /\ Reopened \in Piece
  BY FlushFacts DEF ChunkInv
<1>4. ChunkTypeOK'
  <2>1. buf' \in Piece /\ pieces' \in Seq(Piece) /\ Len(pieces) <= Len(pieces')
    <3>1. pieces \in Seq(Piece) /\ buf \in Piece
      BY DEF ChunkInv, ChunkTypeOK
    <3>2. CASE Overflows
      BY <1>3, <3>1, <3>2
    <3>3. CASE ~Overflows
      BY <3>1, <3>3
    <3> QED
      BY <3>2, <3>3
  <2> QED
    BY <1>2, <2>1 DEF ChunkInv, ChunkTypeOK
<1>5. ASSUME NEW h \in Nat, Slack(h) PROVE Fits(h)'
  <2>1. Fits(h) /\ cpc = "line"
    BY <1>5 DEF ChunkInv
  <2>2. limit' = limit /\ CloserLen' = CloserLen /\ Opened' = Opened
    BY DEF limit, CloserLen, Opened, OpenerLen
  <2>3. buf.len \in Nat /\ CloserLen \in Nat /\ Opened \in Nat /\ limit \in Nat
    BY LengthFacts, LimitFacts DEF ChunkInv
  <2>4. CASE Overflows
    <3>1. pieces' = Append(pieces, Flushed) /\ buf' = Reopened
      BY <2>4
    <3>2. Reopened.len = Opened /\ Flushed.len <= limit + h
      BY <2>1, <2>3, FlushFacts DEF ChunkInv, Fits, Piece
    <3>3. \A i \in DOMAIN pieces' : pieces'[i].len <= limit + h
      BY <1>3, <2>1, <2>3, <3>1, <3>2, OneMorePiece DEF ChunkInv, ChunkTypeOK, Fits
    <3> QED
      BY <2>2, <2>3, <3>1, <3>2, <3>3 DEF Fits
  <2>5. CASE ~Overflows
    <3>1. pieces' = pieces /\ buf' = buf
      BY <2>5
    <3>2. buf.len = 0 \/ buf.len + text[at].len + CloserLen <= limit
      BY <1>2, <2>3, <2>5 DEF Overflows
    <3> QED
      BY <1>1, <1>2, <2>1, <2>2, <2>3, <3>1, <3>2 DEF Fits
  <2> QED
    BY <2>4, <2>5
<1>6. \A h \in Nat : Slack(h)' => Slack(h)
  BY DEF Slack, OpenerLen
<1> QED
  BY <1>1, <1>2, <1>4, <1>5, <1>6 DEF ChunkInv

LEMMA HardSplitKeeps == ASSUME ChunkInv, HardSplit PROVE ChunkInv'
<1> USE DEF HardSplit
<1>1. at \in DOMAIN text /\ text \in Seq(Line) /\ rest \in Nat /\ rest <= text[at].len
  BY DEF ChunkInv, ChunkTypeOK
<1>2. limit \in Nat /\ text[at].len \in Nat
  BY <1>1, LimitFacts, LineFacts
<1> DEFINE m == PartOf(limit)  p == Plus(Nothing, m)
<1>3. m \in Item /\ m.from <= m.upto /\ m.upto - m.from = limit
  BY <1>1, <1>2 DEF PartOf, Item
<1>4. p \in Piece /\ p.len = limit
  <2> HIDE DEF m
  <2>1. m.from \in Nat /\ m.upto \in Nat
    BY <1>3 DEF Item
  <2>2. Plus(Nothing, m) \in Piece /\ Plus(Nothing, m).len = 0 + m.upto - m.from
    BY <1>3, PlusPiece, NothingIsPiece
  <2> QED
    BY <1>2, <1>3, <2>1, <2>2
<1>5. rest' = rest - limit /\ rest' \in Nat /\ rest' <= text[at].len
  BY <1>1, <1>2
<1>6. pieces' = Append(pieces, p) /\ pieces' \in Seq(Piece)
  BY <1>4 DEF ChunkInv, ChunkTypeOK
<1>7. ChunkTypeOK'
  BY <1>5, <1>6 DEF ChunkInv, ChunkTypeOK
<1>8. ASSUME NEW h \in Nat, Slack(h) PROVE Fits(h)'
  <2>1. Fits(h)
    BY <1>8 DEF ChunkInv
  <2>2. limit' = limit /\ CloserLen' = CloserLen /\ Opened' = Opened
    BY DEF limit, CloserLen, Opened, OpenerLen
  <2>3. buf.len \in Nat /\ CloserLen \in Nat /\ Opened \in Nat
    BY LengthFacts DEF ChunkInv
  <2>4. \A i \in DOMAIN pieces' : pieces'[i].len <= limit + h
    BY <1>2, <1>4, <1>6, <2>1, OneMorePiece DEF ChunkInv, ChunkTypeOK, Fits
  <2> QED
    BY SMTT(20), <1>1, <1>2, <1>5, <2>1, <2>2, <2>3, <2>4 DEF Fits
<1>9. \A h \in Nat : Slack(h)' => Slack(h)
  BY DEF Slack, OpenerLen
<1> QED
  BY <1>1, <1>5, <1>7, <1>8, <1>9 DEF ChunkInv

LEMMA TakeLineKeeps == ASSUME ChunkInv, TakeLine PROVE ChunkInv'
<1> USE DEF TakeLine
<1>1. at \in DOMAIN text /\ text \in Seq(Line) /\ rest \in Nat /\ rest <= text[at].len
  BY DEF ChunkInv, ChunkTypeOK
<1>2. limit \in Nat /\ text[at] \in Line
  BY <1>1, LimitFacts, LineFacts
<1> DEFINE m == PartOf(rest)
<1>3. m \in Item /\ m.from <= m.upto /\ m.upto - m.from = rest
  BY <1>1, <1>2 DEF PartOf, Item, Line
<1>4. buf' \in Piece /\ buf'.len = buf.len + rest
  <2> HIDE DEF m
  <2>1. m.from \in Nat /\ m.upto \in Nat /\ buf \in Piece /\ buf.len \in Nat
    BY <1>3, LengthFacts DEF Item, ChunkInv, ChunkTypeOK
  <2> QED
    BY <1>1, <1>3, <2>1, PlusPiece DEF m
<1>5. ChunkTypeOK'
  BY <1>1, <1>4 DEF ChunkInv, ChunkTypeOK
<1>6. open' # 0 => text[open'].mark # "none"
  BY DEF ChunkInv
<1>7. ASSUME NEW h \in Nat, Slack(h) PROVE Fits(h)'
  <2>1. Fits(h)
    BY <1>7 DEF ChunkInv
  <2>2. buf.len \in Nat /\ CloserLen \in Nat /\ Opened \in Nat
    BY LengthFacts DEF ChunkInv
  <2>3. limit' = limit
    BY DEF limit
  <2>4. \A i \in DOMAIN text : text[i].mark # "none" => OpenerLen(i) + text[i].run + 2 <= h
    BY <1>7 DEF Slack
  <2>5. open # 0 => open \in DOMAIN text /\ Opened + CloserLen <= h
    <3>1. open # 0 => open \in DOMAIN text
      BY DEF ChunkInv, ChunkTypeOK
    <3>2. open # 0 => OpenerLen(open) \in Nat /\ text[open].run \in Nat
      BY <1>1, <3>1, LineFacts
    <3> QED
      BY <2>4, <3>1, <3>2 DEF ChunkInv, Opened, CloserLen
  <2>6. open = 0 => Opened = 0 /\ CloserLen = 0
    BY DEF Opened, CloserLen
  <2>7. buf.len + rest + CloserLen <= limit + h
    BY <1>1, <1>2, <2>1, <2>2, <2>5, <2>6 DEF Fits
  <2>8. buf'.len + CloserLen' <= limit + h
    <3>1. CASE open' = 0
      BY SMTT(20), <1>1, <1>2, <1>4, <2>2, <2>7, <3>1 DEF CloserLen
    <3>2. CASE open' = open
      BY <1>4, <2>7, <3>2 DEF CloserLen
    <3>3. CASE open' = at /\ open = 0 /\ text[at].mark # "none"
      <4>1. OpenerLen(at) \in Nat /\ text[at].run \in Nat
        BY <1>1, LineFacts
      <4>2. CloserLen' <= h /\ CloserLen' \in Nat
        BY <1>1, <1>2, <2>4, <3>3, <4>1 DEF CloserLen
      <4>3. buf'.len <= limit
        BY <1>1, <1>2, <1>4, <2>1, <2>2, <2>6, <3>3 DEF Fits
      <4> QED
        BY <1>2, <1>4, <4>2, <4>3, <2>2, <1>1
    <3> QED
      BY <3>1, <3>2, <3>3
  <2> QED
    BY <2>1, <2>3, <2>8 DEF Fits
<1>8. \A h \in Nat : Slack(h)' => Slack(h)
  BY DEF Slack, OpenerLen
<1> QED
  BY <1>5, <1>6, <1>7, <1>8 DEF ChunkInv

LEMMA LastFlushKeeps == ASSUME ChunkInv, LastFlush PROVE ChunkInv'
<1> USE DEF LastFlush
<1>1. Flushed \in Piece /\ pieces \in Seq(Piece)
  BY FlushFacts DEF ChunkInv, ChunkTypeOK
<1>2. pieces' \in Seq(Piece) /\ Len(pieces') = Len(pieces) + 1
  BY <1>1
<1>3. ChunkTypeOK'
  BY <1>2 DEF ChunkInv, ChunkTypeOK
<1>4. ASSUME NEW h \in Nat, Slack(h) PROVE Fits(h)'
  <2>1. buf.len \in Nat /\ CloserLen \in Nat /\ limit \in Nat
    BY LengthFacts, LimitFacts DEF ChunkInv
  <2>2. Flushed.len <= limit + h
    <3>1. buf.len + CloserLen <= limit + h
      BY <1>4 DEF ChunkInv, Fits
    <3>2. Flushed.len \in Nat /\ Flushed.len <= buf.len + CloserLen
      BY <1>1, FlushFacts DEF ChunkInv, Piece
    <3> QED
      BY <2>1, <3>1, <3>2
  <2>3. \A i \in DOMAIN pieces' : pieces'[i].len <= limit + h
    BY <1>1, <1>4, <2>1, <2>2, OneMorePiece DEF ChunkInv, Fits
  <2>4. limit' = limit
    BY DEF limit
  <2> QED
    BY <2>3, <2>4 DEF Fits
<1>5. \A h \in Nat : Slack(h)' => Slack(h)
  BY DEF Slack, OpenerLen
<1> QED
  BY <1>3, <1>4, <1>5 DEF ChunkInv

(* What starts or ends a text, and what only sends.                        *)
LEMMA LeavingKeeps ==
  ASSUME NEW how \in {"idle", "sent", "refused"}, Left(how)
  PROVE  ChunkInv'
<1>1. ChunkTypeOK'
  <2>1. text' \in Seq(Line) /\ pieces' \in Seq(Piece) /\ buf' \in Piece
    BY NothingIsPiece DEF Left
  <2>2. at' \in 1 .. Len(text') + 1 /\ open' \in 0 .. Len(text') /\ sent' \in 0 .. Len(pieces')
    BY <2>1 DEF Left
  <2> QED
    BY <2>1, <2>2 DEF Left, ChunkTypeOK
<1>2. \A h \in Nat : Fits(h)'
  BY DEF Left, Fits
<1> QED
  BY <1>1, <1>2 DEF Left, ChunkInv

LEMMA BeginBodyKeeps ==
  ASSUME ChunkInv, NEW t \in Text \cup {<<>>}, BeginBody(t)
  PROVE  ChunkInv'
<1> USE DEF BeginBody
<1>1. t \in Seq(Line)
  <2>1. <<>> \in Seq(Line)
    OBVIOUS
  <2> QED
    BY <2>1, ChunkAssumption
<1>2. previewing = FALSE /\ at = 1 /\ rest = 0 /\ open = 0 /\ buf = Nothing /\ pieces = <<>> /\ sent = 0
  BY DEF ChunkInv
<1>3. ChunkTypeOK'
  <2>1. text' \in Seq(Line) /\ pieces' \in Seq(Piece) /\ buf' \in Piece
    BY <1>1, <1>2, NothingIsPiece
  <2>2. at' \in 1 .. Len(text') + 1 /\ open' \in 0 .. Len(text') /\ sent' \in 0 .. Len(pieces')
    BY <1>1, <1>2, <2>1
  <2> QED
    BY <1>2, <2>1, <2>2 DEF ChunkTypeOK
<1>4. \A h \in Nat : Fits(h)'
  <2>1. limit' = Limit /\ Limit \in Nat
    BY <1>2, ChunkAssumption DEF limit
  <2>2. CloserLen' = 0 /\ buf'.len = 0 /\ cpc' # "split"
    BY <1>2, NothingIsPiece DEF CloserLen
  <2>3. DOMAIN pieces' = {}
    BY <1>2
  <2>4. \A h \in Nat : buf'.len + CloserLen' <= limit' + h
    BY <2>1, <2>2
  <2> QED
    BY <2>2, <2>3, <2>4 DEF Fits
<1> QED
  BY <1>2, <1>3, <1>4 DEF ChunkInv

LEMMA CutPreviewKeeps == ASSUME ChunkInv, CutPreview PROVE ChunkInv'
<1> USE DEF CutPreview
<1>1. ChunkTypeOK'
  <2>1. text \in Seq(Line) /\ Len(text) \in Nat
    BY DEF ChunkInv, ChunkTypeOK
  <2>2. pieces' \in Seq(Piece) /\ buf' \in Piece /\ sent' \in 0 .. Len(pieces')
    <3>1. sent = 0
      BY DEF ChunkInv
    <3> QED
      BY <3>1, NothingIsPiece
  <2> QED
    BY <2>1, <2>2 DEF ChunkInv, ChunkTypeOK
<1>2. \A h \in Nat : Fits(h)'
  <2>1. limit' = Limit - Suffix /\ Limit - Suffix \in Nat
    BY ChunkAssumption DEF limit
  <2>2. CloserLen' = 0 /\ buf'.len = 0 /\ cpc' # "split"
    BY NothingIsPiece DEF CloserLen
  <2>3. DOMAIN pieces' = {}
    OBVIOUS
  <2>4. \A h \in Nat : buf'.len + CloserLen' <= limit' + h
    BY <2>1, <2>2
  <2> QED
    BY <2>2, <2>3, <2>4 DEF Fits
<1> QED
  BY <1>1, <1>2 DEF ChunkInv

LEMMA SendingKeeps == ASSUME ChunkInv, Paginate \/ SendPiece PROVE ChunkInv'
<1>1. ChunkTypeOK'
  BY DEF ChunkInv, ChunkTypeOK, Paginate, SendPiece
<1>2. \A h \in Nat : Fits(h) => Fits(h)'
  BY DEF Fits, Paginate, SendPiece, limit
<1>3. \A h \in Nat : Slack(h)' => Slack(h)
  BY DEF Slack, OpenerLen, Paginate, SendPiece
<1> QED
  BY <1>1, <1>2, <1>3 DEF ChunkInv, Paginate, SendPiece

LEMMA ChunkStepKeeps == ASSUME ChunkInv, ChunkStep PROVE ChunkInv'
<1>1. CASE BodySent \/ BodyRefused
  BY <1>1, LeavingKeeps DEF BodySent, BodyRefused
<1> QED
  BY <1>1, NextLineKeeps, HardSplitKeeps, TakeLineKeeps, LastFlushKeeps, SendingKeeps,
     CutPreviewKeeps DEF ChunkStep

LEMMA ChunkStutterKeeps == ASSUME ChunkInv, UNCHANGED chunkVars PROVE ChunkInv'
<1> USE DEF chunkVars
<1>1. ChunkTypeOK'
  BY DEF ChunkInv, ChunkTypeOK
<1>2. (\A h \in Nat : Fits(h) => Fits(h)') /\ (\A h \in Nat : Slack(h)' => Slack(h))
  BY DEF Fits, limit, CloserLen, Opened, OpenerLen, Slack
<1> QED
  BY <1>1, <1>2 DEF ChunkInv

LEMMA ChunkInitial == ChunkInit => ChunkInv
<1> SUFFICES ASSUME ChunkInit PROVE ChunkInv
  OBVIOUS
<1>1. ChunkTypeOK
  <2>1. text \in Seq(Line) /\ pieces \in Seq(Piece) /\ buf \in Piece
    BY NothingIsPiece DEF ChunkInit
  <2>2. at \in 1 .. Len(text) + 1 /\ open \in 0 .. Len(text) /\ sent \in 0 .. Len(pieces)
    BY <2>1 DEF ChunkInit
  <2> QED
    BY <2>1, <2>2 DEF ChunkInit, ChunkTypeOK
<1>2. \A h \in Nat : Fits(h)
  BY DEF ChunkInit, Fits
<1> QED
  BY <1>1, <1>2 DEF ChunkInit, ChunkInv

-----------------------------------------------------------------------------
(* A preview is cut so much shorter that its suffix fits behind it.        *)
LEMMA ChunkInvFits == ChunkInv => DiscordTakesIt
<1> SUFFICES ASSUME ChunkInv, NEW i \in DOMAIN pieces, HeadroomFor(pieces[i].astral)
             PROVE  Units(pieces[i]) + (IF previewing THEN Suffix ELSE 0) <= MessageLimit
  BY DEF DiscordTakesIt
<1> DEFINE n == pieces[i].astral  h == MessageLimit - Limit - n
<1>1. limit \in Nat /\ pieces \in Seq(Piece) /\ text \in Seq(Line)
  BY LimitFacts DEF ChunkInv, ChunkTypeOK
<1>2. pieces[i].len \in Nat /\ n \in Nat
  <2>1. pieces[i] \in Piece
    BY <1>1
  <2> QED
    BY <2>1 DEF Piece
<1>3. MessageLimit \in Nat /\ Limit \in Nat /\ Suffix \in Nat
  BY ChunkAssumption
<1>4. h \in Nat /\ Slack(h)
  <2>1. n <= MessageLimit - Limit
    BY DEF HeadroomFor
  <2>2. ASSUME NEW k \in DOMAIN text, text[k].mark # "none"
        PROVE  OpenerLen(k) + text[k].run + 2 <= h
    <3>1. OpenerLen(k) + text[k].run + 2 + n <= MessageLimit - Limit
      BY <2>2 DEF HeadroomFor
    <3>2. OpenerLen(k) \in Nat /\ text[k].run \in Nat
      BY <1>1, <2>2, LineFacts
    <3> QED
      BY <1>2, <1>3, <3>1, <3>2
  <2>3. h \in Nat
    BY <1>2, <1>3, <2>1
  <2> QED
    BY <2>2, <2>3 DEF Slack
<1>5. pieces[i].len <= limit + h
  BY <1>4 DEF ChunkInv, Fits
<1>6. limit + (IF previewing THEN Suffix ELSE 0) = Limit
  BY <1>3 DEF limit
<1> QED
  BY <1>1, <1>2, <1>3, <1>5, <1>6 DEF Units

LEMMA CuttingKeeps == ChunkSpec => []ChunkInv
<1>1. ChunkInv /\ [ChunkNext]_chunkVars => ChunkInv'
  <2> SUFFICES ASSUME ChunkInv, [ChunkNext]_chunkVars PROVE ChunkInv'
    OBVIOUS
  <2>1. CASE ChunkStep
    BY <2>1, ChunkStepKeeps
  <2>2. ASSUME NEW t \in Text \cup {<<>>}, BeginBody(t) PROVE ChunkInv'
    BY <2>2, BeginBodyKeeps
  <2>3. CASE UNCHANGED chunkVars
    BY <2>3, ChunkStutterKeeps
  <2> QED
    BY <2>1, <2>2, <2>3 DEF ChunkNext
<1> QED
  BY ChunkInitial, <1>1, PTL DEF ChunkSpec

(* Whatever the limits and the text: if the headroom has room for each     *)
(* fence line of the text together with the astral characters of a         *)
(* message, that message is not too long for Discord, and neither is a     *)
(* preview with its suffix (outputs.py:29-37).                             *)
THEOREM MessagesFit == ChunkSpec => []DiscordTakesIt
BY CuttingKeeps, ChunkInvFits, PTL

-----------------------------------------------------------------------------
(* The least number principle, and induction in the form of sets.          *)
Less == {p \in Nat \X Nat : p[1] < p[2]}

LEMMA Least ==
  ASSUME NEW S \in SUBSET Nat, S # {}
  PROVE  \E n \in S : \A m \in S : n <= m
<1>1. IsWellFoundedOn(Less, Nat)
  BY NatLessThanWellFounded DEF OpToRel, Less
<1>2. PICK n \in S : \A m \in S : ~(<<m, n>> \in Less)
  BY <1>1, WFMin
<1>3. \A m \in S : ~(m < n)
  BY <1>2 DEF Less
<1> QED
  BY <1>3

LEMMA UpTo ==
  ASSUME NEW n \in Nat, NEW S \in SUBSET (0 .. n), 0 \in S,
         \A k \in 1 .. n : k - 1 \in S => k \in S
  PROVE  S = 0 .. n
<1> SUFFICES ASSUME (0 .. n) \ S # {} PROVE FALSE
  OBVIOUS
<1>1. (0 .. n) \ S \in SUBSET Nat
  OBVIOUS
<1>2. PICK k \in (0 .. n) \ S : \A m \in (0 .. n) \ S : k <= m
  BY <1>1, Least
<1>3. k \in 1 .. n /\ k - 1 \in 0 .. n /\ ~(k <= k - 1)
  BY <1>2
<1> QED
  BY <1>2, <1>3

(* A function that is computed step by step exists.                        *)
Iterates(g, x, F, n) == g[0] = x /\ \A k \in 1 .. n : g[k] = F[k][g[k - 1]]

LEMMA Iteration ==
  ASSUME NEW n \in Nat, NEW S, NEW x \in S, NEW F \in [1 .. n -> [S -> S]]
  PROVE  \E g \in [0 .. n -> S] : Iterates(g, x, F, n)
<1> USE DEF Iterates
<1> DEFINE Computes(g, m) == Iterates(g, x, F, m)
           Reached == {m \in 0 .. n : \E g \in [0 .. m -> S] : Computes(g, m)}
<1>1. 0 \in Reached
  <2> DEFINE g == [i \in 0 .. 0 |-> x]
  <2>1. g \in [0 .. 0 -> S] /\ Computes(g, 0)
    OBVIOUS
  <2> HIDE DEF g
  <2>2. \E h \in [0 .. 0 -> S] : Computes(h, 0)
    BY <2>1
  <2> QED
    BY <2>2
<1>2. ASSUME NEW m \in 1 .. n, m - 1 \in Reached PROVE m \in Reached
  <2>1. PICK g \in [0 .. m - 1 -> S] : Computes(g, m - 1)
    BY <1>2
  <2> DEFINE h == [i \in 0 .. m |-> IF i = m THEN F[m][g[m - 1]] ELSE g[i]]
  <2>2. F[m][g[m - 1]] \in S
    BY <2>1
  <2>3. h \in [0 .. m -> S]
    BY <2>1, <2>2
  <2>4. \A i \in 0 .. m - 1 : h[i] = g[i]
    OBVIOUS
  <2>5. h[m] = F[m][h[m - 1]]
    BY <2>4
  <2>6. ASSUME NEW k \in 1 .. m PROVE h[k] = F[k][h[k - 1]]
    <3>1. CASE k = m
      BY <2>5, <3>1
    <3>2. CASE k # m
      <4>1. k \in 1 .. m - 1 /\ k \in 0 .. m - 1 /\ k - 1 \in 0 .. m - 1
        BY <3>2
      <4> QED
        BY <2>1, <2>4, <4>1
    <3> QED
      BY <3>1, <3>2
  <2>7. h[0] = x
    BY <2>1, <2>4
  <2> HIDE DEF h
  <2>8. \E f \in [0 .. m -> S] : Computes(f, m)
    BY <2>3, <2>6, <2>7
  <2>9. m \in 0 .. n
    OBVIOUS
  <2> HIDE DEF Computes
  <2> QED
    BY <2>8, <2>9
<1> HIDE DEF Reached
<1>3. Reached = 0 .. n
  <2>1. Reached \in SUBSET (0 .. n)
    BY DEF Reached
  <2> QED
    BY <1>1, <1>2, <2>1, UpTo
<1>4. n \in Reached
  BY <1>3
<1> QED
  BY <1>4 DEF Reached

(* What a reader can be in: prose, or a fence that was opened by a marker. *)
State == [mark : Mark, run : Nat]

LEMMA ReadsState ==
  ASSUME NEW s \in State, NEW mark \in Mark, NEW run \in Nat, NEW info
  PROVE  Reads(s, mark, run, info) \in State /\ Prose \in State
BY DEF Reads, State, Mark, Prose

(* The reader of a text, line by line ...                                  *)
LEMMA InTextFacts ==
  ASSUME NEW t \in Seq(Line)
  PROVE  /\ InText(t)[0] = Prose
         /\ \A i \in 0 .. Len(t) : InText(t)[i] \in State
         /\ \A i \in 1 .. Len(t) :
              InText(t)[i] = Reads(InText(t)[i - 1], t[i].mark, t[i].run, t[i].info)
<1> DEFINE n == Len(t)
           F == [i \in 1 .. n |-> [s \in State |-> Reads(s, t[i].mark, t[i].run, t[i].info)]]
           Computed(f) ==
             f = [i \in 0 .. Len(t) |->
                    IF i = 0 THEN Prose ELSE Reads(f[i - 1], t[i].mark, t[i].run, t[i].info)]
<1>1. n \in Nat /\ Prose \in State
  BY DEF Prose, State, Mark
<1>2. \A i \in 1 .. n : t[i].mark \in Mark /\ t[i].run \in Nat
  <2>1. \A i \in 1 .. n : t[i] \in Line
    OBVIOUS
  <2> QED
    BY <2>1 DEF Line
<1>3. F \in [1 .. n -> [State -> State]]
  BY <1>2, ReadsState
<1>4. PICK g \in [0 .. n -> State] : Iterates(g, Prose, F, n)
  <2> HIDE DEF F, n
  <2> QED
    BY <1>1, <1>3, Iteration
<1>5. \A k \in 1 .. n : k - 1 \in 0 .. n /\ k \in 0 .. n /\ g[k] = Reads(g[k - 1], t[k].mark, t[k].run, t[k].info)
  <2>1. ASSUME NEW k \in 1 .. n PROVE k - 1 \in 0 .. n /\ k \in 0 .. n
    BY <1>1
  <2>2. ASSUME NEW k \in 1 .. n, NEW s \in State PROVE F[k][s] = Reads(s, t[k].mark, t[k].run, t[k].info)
    OBVIOUS
  <2> HIDE DEF F
  <2> QED
    BY <1>4, <2>1, <2>2 DEF Iterates
<1>6. Computed(g)
  <2> HIDE DEF F
  <2> QED
    BY <1>1, <1>4, <1>5 DEF Iterates
<1>7. Computed(InText(t))
  BY <1>6 DEF InText
<1>8. InText(t)[0] = Prose
      /\ \A i \in 1 .. n : InText(t)[i] = Reads(InText(t)[i - 1], t[i].mark, t[i].run, t[i].info)
  BY <1>1, <1>7
<1> DEFINE Typed == {i \in 0 .. n : InText(t)[i] \in State}
<1>9. Typed = 0 .. n
  <2>1. Typed \in SUBSET (0 .. n) /\ 0 \in Typed
    BY <1>1, <1>8
  <2>2. ASSUME NEW k \in 1 .. n, k - 1 \in Typed PROVE k \in Typed
    BY <1>1, <1>2, <1>8, <2>2, ReadsState
  <2> HIDE DEF Typed
  <2> QED
    BY <1>1, <2>1, <2>2, UpTo
<1> QED
  BY <1>8, <1>9

WellPlaced(t, items) == items \in Seq(Item) /\ \A k \in DOMAIN items : items[k].line \in DOMAIN t

LEMMA ReadsItemState ==
  ASSUME NEW t \in Seq(Line), NEW m \in Item, m.line \in DOMAIN t, NEW s \in State
  PROVE  ReadsItem(t, s, m) \in State
<1>1. t[m.line] \in Line
  OBVIOUS
<1>2. t[m.line].mark \in Mark /\ t[m.line].run \in Nat
  BY <1>1 DEF Line
<1> QED
  BY <1>2, ReadsState DEF ReadsItem

(* ... and of a message, item by item.                                     *)
LEMMA InPieceFacts ==
  ASSUME NEW t \in Seq(Line), NEW items, WellPlaced(t, items)
  PROVE  /\ InPiece(t, items)[0] = Prose
         /\ \A k \in 0 .. Len(items) : InPiece(t, items)[k] \in State
         /\ \A k \in 1 .. Len(items) :
              InPiece(t, items)[k] = ReadsItem(t, InPiece(t, items)[k - 1], items[k])
<1> DEFINE n == Len(items)
           F == [k \in 1 .. n |-> [s \in State |-> ReadsItem(t, s, items[k])]]
           Computed(f) ==
             f = [k \in 0 .. Len(items) |->
                    IF k = 0 THEN Prose ELSE ReadsItem(t, f[k - 1], items[k])]
<1>1. n \in Nat /\ Prose \in State
  BY DEF Prose, State, Mark, WellPlaced
<1>2. \A k \in 1 .. n : items[k] \in Item /\ items[k].line \in DOMAIN t
  BY DEF WellPlaced
<1>3. F \in [1 .. n -> [State -> State]]
  BY <1>2, ReadsItemState
<1>4. PICK g \in [0 .. n -> State] : Iterates(g, Prose, F, n)
  <2> HIDE DEF F, n
  <2> QED
    BY <1>1, <1>3, Iteration
<1>5. \A k \in 1 .. n : k - 1 \in 0 .. n /\ k \in 0 .. n /\ g[k] = ReadsItem(t, g[k - 1], items[k])
  <2>1. ASSUME NEW k \in 1 .. n PROVE k - 1 \in 0 .. n /\ k \in 0 .. n
    BY <1>1
  <2>2. ASSUME NEW k \in 1 .. n, NEW s \in State PROVE F[k][s] = ReadsItem(t, s, items[k])
    OBVIOUS
  <2> HIDE DEF F
  <2> QED
    BY <1>4, <2>1, <2>2 DEF Iterates
<1>6. Computed(g)
  <2> HIDE DEF F
  <2> QED
    BY <1>1, <1>4, <1>5 DEF Iterates
<1>7. Computed(InPiece(t, items))
  BY <1>6 DEF InPiece
<1>8. InPiece(t, items)[0] = Prose
      /\ \A k \in 1 .. n : InPiece(t, items)[k] = ReadsItem(t, InPiece(t, items)[k - 1], items[k])
  BY <1>1, <1>7
<1> DEFINE Typed == {k \in 0 .. n : InPiece(t, items)[k] \in State}
<1>9. Typed = 0 .. n
  <2>1. Typed \in SUBSET (0 .. n) /\ 0 \in Typed
    BY <1>1, <1>8
  <2>2. ASSUME NEW k \in 1 .. n, k - 1 \in Typed PROVE k \in Typed
    <3>1. InPiece(t, items)[k - 1] \in State /\ items[k] \in Item /\ items[k].line \in DOMAIN t
      BY <1>2, <2>2
    <3>2. ReadsItem(t, InPiece(t, items)[k - 1], items[k]) \in State
      BY <3>1, ReadsItemState
    <3> QED
      BY <1>1, <1>8, <3>2
  <2> HIDE DEF Typed
  <2> QED
    BY <1>1, <2>1, <2>2, UpTo
<1> QED
  BY <1>8, <1>9

(* Reading goes on where it was.                                           *)
LEMMA ReadOn ==
  ASSUME NEW t \in Seq(Line), NEW items, WellPlaced(t, items),
         NEW m \in Item, m.line \in DOMAIN t
  PROVE  LET more == Append(items, m) IN
         /\ WellPlaced(t, more)
         /\ \A k \in 0 .. Len(items) : InPiece(t, more)[k] = InPiece(t, items)[k]
         /\ InPiece(t, more)[Len(more)] = ReadsItem(t, InPiece(t, items)[Len(items)], m)
<1> DEFINE more == Append(items, m)
           n == Len(items)
           Alike == {k \in 0 .. n : InPiece(t, more)[k] = InPiece(t, items)[k]}
<1>1. n \in Nat /\ Len(more) = n + 1 /\ more \in Seq(Item)
      /\ more[n + 1] = m /\ \A k \in 1 .. n : more[k] = items[k]
  BY DEF WellPlaced
<1>2. WellPlaced(t, more)
  BY <1>1 DEF WellPlaced
<1> HIDE DEF more
<1>3. Alike = 0 .. n
  <2>1. Alike \in SUBSET (0 .. n) /\ 0 \in Alike
    BY <1>1, <1>2, InPieceFacts
  <2>2. ASSUME NEW k \in 1 .. n, k - 1 \in Alike PROVE k \in Alike
    <3>1. k \in 1 .. Len(more) /\ k \in 0 .. n
      BY <1>1
    <3>2. InPiece(t, more)[k] = ReadsItem(t, InPiece(t, more)[k - 1], more[k])
      BY <1>2, <3>1, InPieceFacts
    <3>3. InPiece(t, items)[k] = ReadsItem(t, InPiece(t, items)[k - 1], items[k])
      BY InPieceFacts
    <3> QED
      BY <1>1, <2>2, <3>1, <3>2, <3>3
  <2> HIDE DEF Alike
  <2> QED
    BY <1>1, <2>1, <2>2, UpTo
<1>4. \A k \in 0 .. n : InPiece(t, more)[k] = InPiece(t, items)[k]
  BY <1>3
<1>5. InPiece(t, more)[n + 1] = ReadsItem(t, InPiece(t, more)[n], m)
  <2>1. n + 1 \in 1 .. Len(more) /\ (n + 1) - 1 = n
    BY <1>1
  <2>2. InPiece(t, more)[n + 1] = ReadsItem(t, InPiece(t, more)[(n + 1) - 1], more[n + 1])
    BY <1>2, <2>1, InPieceFacts
  <2> QED
    BY <1>1, <2>1, <2>2
<1> QED
  BY <1>1, <1>2, <1>4, <1>5 DEF more

(* A message so far: it shows what is written, and a reader is in state s. *)
Shows(t, items, s) ==
  /\ WellPlaced(t, items)
  /\ InPiece(t, items)[Len(items)] = s
  /\ ShowsAsWritten(t, items)

LEMMA ShowsNothing == ASSUME NEW t \in Seq(Line) PROVE Shows(t, <<>>, Prose)
<1>1. WellPlaced(t, <<>>)
  BY DEF WellPlaced
<1> QED
  BY <1>1, InPieceFacts DEF Shows, ShowsAsWritten

LEMMA ShowsMore ==
  ASSUME NEW t \in Seq(Line), NEW items, NEW s, Shows(t, items, s),
         NEW m \in Item, m.line \in DOMAIN t,
         m.is = "text" /\ t[m.line].mark = "none" =>
           (s # Prose) = (InText(t)[m.line - 1] # Prose)
  PROVE  Shows(t, Append(items, m), ReadsItem(t, s, m))
<1> DEFINE more == Append(items, m)
           n == Len(items)
<1>1. n \in Nat /\ Len(more) = n + 1 /\ DOMAIN more = 1 .. n + 1 /\ DOMAIN items = 1 .. n
      /\ more[n + 1] = m /\ \A k \in 1 .. n : more[k] = items[k]
  BY DEF Shows, WellPlaced
<1>2. /\ WellPlaced(t, more)
      /\ \A k \in 0 .. n : InPiece(t, more)[k] = InPiece(t, items)[k]
      /\ InPiece(t, more)[n + 1] = ReadsItem(t, s, m)
  BY <1>1, ReadOn DEF Shows
<1> HIDE DEF more
<1>3. ASSUME NEW k \in DOMAIN more, more[k].is = "text", t[more[k].line].mark = "none"
      PROVE  (InPiece(t, more)[k - 1] # Prose) = (InText(t)[more[k].line - 1] # Prose)
  <2>1. CASE k \in 1 .. n
    <3>1. k - 1 \in 0 .. n /\ more[k] = items[k] /\ k \in DOMAIN items
      BY <1>1, <2>1
    <3>2. InPiece(t, more)[k - 1] = InPiece(t, items)[k - 1]
      BY <1>2, <3>1
    <3>3. (InPiece(t, items)[k - 1] # Prose) = (InText(t)[items[k].line - 1] # Prose)
      BY <1>3, <3>1 DEF Shows, ShowsAsWritten
    <3> QED
      BY <3>1, <3>2, <3>3
  <2>2. CASE k = n + 1
    <3>1. k - 1 = n /\ n \in 0 .. n
      BY <1>1, <2>2
    <3>2. InPiece(t, more)[k - 1] = s
      BY <1>2, <3>1 DEF Shows
    <3>3. more[k] = m
      BY <1>1, <2>2
    <3> QED
      BY <1>3, <3>2, <3>3
  <2> QED
    BY <1>1, <2>1, <2>2
<1>4. ShowsAsWritten(t, more)
  BY <1>3 DEF ShowsAsWritten
<1> QED
  BY <1>1, <1>2, <1>4 DEF Shows, more

(* What a reader of a message is in when the buffer is.                    *)
FenceState ==
  IF open = 0 THEN Prose ELSE [mark |-> text[open].mark, run |-> text[open].run]
Tracking ==
  /\ cpc \in {"line", "split"} /\ Followed(text, limit, at - 1) =>
       InText(text)[at - 1] = FenceState /\ Shows(text, buf.items, FenceState)
  /\ \A i \in DOMAIN pieces :
       FollowedIn(text, limit, pieces[i]) => Shows(text, pieces[i].items, Prose)

(* A buffer that can be flushed holds the end of the line before.          *)
Holding == \E k \in DOMAIN buf.items : buf.items[k].is = "text" /\ buf.items[k].line = at - 1

FenceInv ==
  /\ ChunkTypeOK
  /\ open < at
  /\ open # 0 => text[open].mark # "none"
  /\ cpc = "split" => /\ at \in DOMAIN text
                      /\ rest = text[at].len \/ text[at].len > limit
  /\ cpc = "line" => at = 1 \/ Holding
  /\ cpc \in {"idle", "sent", "refused"} => at = 1 /\ open = 0 /\ buf = Nothing /\ pieces = <<>>
  /\ Tracking

LEMMA FenceFacts ==
  ASSUME FenceInv
  PROVE  /\ FenceState \in State
         /\ FenceState = Prose <=> open = 0
         /\ open # 0 => open \in DOMAIN text /\ text[open] \in Line
<1>1. open # 0 => open \in DOMAIN text /\ text[open] \in Line
  BY DEF FenceInv, ChunkTypeOK
<1> QED
  BY <1>1 DEF FenceState, State, Prose, Line, Mark, FenceInv

(* flush() closes the fence, and opens it again in the next message.       *)
LEMMA FlushShows ==
  ASSUME FenceInv, Shows(text, buf.items, FenceState)
  PROVE  /\ Shows(text, Flushed.items, Prose)
         /\ Shows(text, Reopened.items, FenceState)
<1>0. text \in Seq(Line)
  BY DEF FenceInv, ChunkTypeOK
<1>1. Shows(text, Nothing.items, Prose)
  BY <1>0, ShowsNothing DEF Nothing
<1>2. CASE open = 0
  BY <1>1, <1>2 DEF Flushed, Reopened, FenceState
<1>3. CASE open # 0
  <2> DEFINE n == text[open].run + (IF EndsLine(buf) THEN 1 ELSE 2)
             c == Fence("close", open, n)  o == Fence("open", open, OpenerLen(open))
             f == [mark |-> text[open].mark, run |-> text[open].run]
  <2>1. open \in DOMAIN text /\ text[open].mark \in Mark \ {"none"} /\ text[open].run \in Nat
    BY <1>3, FenceFacts DEF FenceInv, Line
  <2>2. c \in Item /\ c.line = open /\ c.is = "close" /\ o \in Item /\ o.line = open /\ o.is = "open"
        /\ o.from = 0
    <3>1. n \in Nat /\ OpenerLen(open) \in Nat /\ open \in Nat
      BY <1>0, <2>1, LineFacts
    <3> HIDE DEF n
    <3> QED
      BY <3>1 DEF Fence, Item
  <2>3. FenceState = f
    BY <1>3 DEF FenceState
  <2>4. ReadsItem(text, f, c) = Prose
    BY <2>1, <2>2 DEF ReadsItem, Reads, Prose
  <2>5. ReadsItem(text, Prose, o) = f
    BY <2>1, <2>2 DEF ReadsItem, Reads, Prose
  <2>6. Flushed.items = Append(buf.items, c) /\ Reopened.items = Append(Nothing.items, o)
    BY <1>3 DEF Flushed, Reopened, Plus
  <2> HIDE DEF c, o, f
  <2> QED
    BY <1>0, <1>1, <2>1, <2>2, <2>3, <2>4, <2>5, <2>6, ShowsMore
<1> QED
  BY <1>2, <1>3

(* What is flushed ends with the line before, so the fences were followed  *)
(* up to there if they were up to the end of the message.                  *)
LEMMA FlushFollowed ==
  ASSUME FenceInv, cpc = "line", FollowedIn(text, limit, Flushed)
  PROVE  Followed(text, limit, at - 1)
<1>1. CASE at = 1
  BY <1>1 DEF Followed
<1>2. CASE Holding
  <2>1. PICK k \in DOMAIN buf.items : buf.items[k].is = "text" /\ buf.items[k].line = at - 1
    BY <1>2 DEF Holding
  <2>2. buf.items \in Seq(Item)
    BY DEF FenceInv, ChunkTypeOK, Piece
  <2>3. k \in DOMAIN Flushed.items /\ Flushed.items[k] = buf.items[k]
    <3>1. CASE open = 0
      BY <3>1 DEF Flushed
    <3>2. CASE open # 0
      <4>1. PICK m : Flushed.items = Append(buf.items, m)
        BY <3>2 DEF Flushed, Plus
      <4> QED
        BY <2>2, <4>1
    <3> QED
      BY <3>1, <3>2
  <2> QED
    BY <2>1, <2>3 DEF FollowedIn
<1> QED
  BY <1>1, <1>2 DEF FenceInv

(* Markers are counted one by one.                                         *)
LEMMA ParityStep ==
  ASSUME text \in Seq(Line), NEW i \in 1 .. Len(text), i > 1,
         Tracked(text, i), Tracked(text, i - 1),
         text[i].mark # "none", InText(text)[i - 1] # Prose
  PROVE  InText(text)[i] = Prose
<1> DEFINE M(n) == {k \in 1 .. n : text[k].mark # "none"}
<1>1. i - 1 \in 1 .. Len(text) /\ i \in Nat
  OBVIOUS
<1>2. M(i) = M(i - 1) \cup {i} /\ i \notin M(i - 1)
  BY <1>1
<1>3. IsFiniteSet(M(i - 1))
  <2>1. M(i - 1) \subseteq 1 .. i - 1
    OBVIOUS
  <2>2. 1 \in Int /\ i - 1 \in Int
    BY <1>1
  <2>3. IsFiniteSet(1 .. i - 1)
    BY <2>2, FS_Interval
  <2> HIDE DEF M
  <2> QED
    BY <2>1, <2>3, FS_Subset
<1>4. Cardinality(M(i)) = Cardinality(M(i - 1)) + 1 /\ Cardinality(M(i - 1)) \in Nat
  <2> HIDE DEF M
  <2> QED
    BY <1>2, <1>3, FS_AddElement, FS_CardinalityType
<1>5. Cardinality(M(i - 1)) % 2 = 1
  BY <1>1 DEF Tracked
<1>6. Cardinality(M(i)) % 2 # 1
  <2> HIDE DEF M
  <2> QED
    BY <1>4, <1>5
<1> QED
  BY <1>6 DEF Tracked

LEMMA NextLineTracks == ASSUME FenceInv, NextLine, ChunkTypeOK' PROVE FenceInv'
<1> USE DEF NextLine
<1>1. limit' = limit /\ FenceState' = FenceState
  BY DEF limit, FenceState
<1>2. Tracking'
  <2>1. /\ Followed(text, limit, at - 1) =>
             InText(text)[at - 1] = FenceState /\ Shows(text, buf.items, FenceState)
        /\ \A i \in DOMAIN pieces :
             FollowedIn(text, limit, pieces[i]) => Shows(text, pieces[i].items, Prose)
    BY DEF FenceInv, Tracking
  <2>2. CASE Overflows
    <3>1. Followed(text, limit, at - 1) =>
            Shows(text, Flushed.items, Prose) /\ Shows(text, Reopened.items, FenceState)
      BY <2>1, FlushShows
    <3>2. pieces' = Append(pieces, Flushed) /\ buf' = Reopened /\ pieces \in Seq(Piece)
      BY <2>2 DEF FenceInv, ChunkTypeOK
    <3>3. FollowedIn(text, limit, Flushed) => Shows(text, Flushed.items, Prose)
      BY <3>1, FlushFollowed
    <3>4. \A i \in DOMAIN pieces' :
            FollowedIn(text, limit, pieces'[i]) => Shows(text, pieces'[i].items, Prose)
      BY <2>1, <3>2, <3>3
    <3> QED
      BY <1>1, <2>1, <3>1, <3>2, <3>4 DEF Tracking
  <2>3. CASE ~Overflows
    BY <1>1, <2>1, <2>3 DEF Tracking
  <2> QED
    BY <2>2, <2>3
<1> QED
  BY <1>1, <1>2 DEF FenceInv, ChunkTypeOK

(* A part of a line that is no marker leaves the reader where it was.      *)
LEMMA PartShows ==
  ASSUME FenceInv, cpc = "split", NEW n \in Nat, n <= rest, rest <= text[at].len
  PROVE  /\ at \in 1 .. Len(text) /\ text \in Seq(Line) /\ text[at] \in Line
         /\ PartOf(n) \in Item /\ PartOf(n).line = at /\ PartOf(n).is = "text"
         /\ PartOf(n).from = text[at].len - rest
<1>1. at \in 1 .. Len(text) /\ text \in Seq(Line) /\ rest \in Nat
  BY DEF FenceInv, ChunkTypeOK
<1>2. text[at] \in Line /\ text[at].len \in Nat
  BY <1>1, LineFacts
<1> QED
  BY <1>1, <1>2 DEF PartOf, Item

LEMMA HardSplitTracks ==
  ASSUME FenceInv, HardSplit, ChunkTypeOK', rest <= text[at].len PROVE FenceInv'
<1> USE DEF HardSplit
<1>1. limit' = limit /\ FenceState' = FenceState
  BY DEF limit, FenceState
<1>2. limit \in Nat /\ rest \in Nat
  BY LimitFacts DEF FenceInv, ChunkTypeOK
<1>3. /\ at \in 1 .. Len(text) /\ text \in Seq(Line) /\ text[at] \in Line
      /\ PartOf(limit) \in Item /\ PartOf(limit).line = at /\ PartOf(limit).is = "text"
  BY <1>2, PartShows
<1>4. text[at].len > limit
  BY <1>2, <1>3 DEF Line
<1>5. Tracking'
  <2> DEFINE m == PartOf(limit)  p == Plus(Nothing, m)
  <2>1. ASSUME FollowedIn(text, limit, p) PROVE Shows(text, p.items, Prose)
    <3>0. p.items = <<m>> /\ Append(<<>>, m) = <<m>>
      BY <1>3 DEF Plus, Nothing
    <3>1. InText(text)[m.line - 1] = Prose /\ text[at].mark = "none"
      <4> HIDE DEF m, p
      <4>1. p.items[1] = m /\ 1 \in DOMAIN p.items
        BY <3>0
      <4>2. m.is = "text" /\ m.line = at
        BY <1>3 DEF m
      <4>3. Followed(text, limit, at)
        BY <2>1, <4>1, <4>2 DEF FollowedIn
      <4> QED
        BY <1>3, <1>4, <4>2, <4>3 DEF Followed, Fitting
    <3>2. ReadsItem(text, Prose, m) = Prose
      BY <1>3, <3>1 DEF ReadsItem, Reads
    <3>3. m \in Item /\ m.line \in DOMAIN text /\ text \in Seq(Line)
      BY <1>3
    <3> HIDE DEF m, p
    <3>4. Shows(text, Append(<<>>, m), ReadsItem(text, Prose, m))
      BY <3>1, <3>3, ShowsNothing, ShowsMore
    <3> QED
      BY <3>0, <3>2, <3>4
  <2>2. pieces' = Append(pieces, p) /\ pieces \in Seq(Piece)
    BY DEF FenceInv, ChunkTypeOK
  <2> HIDE DEF p, m
  <2>3. \A i \in DOMAIN pieces :
          FollowedIn(text, limit, pieces[i]) => Shows(text, pieces[i].items, Prose)
    BY DEF FenceInv, Tracking
  <2>4. \A i \in DOMAIN pieces' :
          FollowedIn(text, limit, pieces'[i]) => Shows(text, pieces'[i].items, Prose)
    BY <2>1, <2>2, <2>3
  <2>5. Followed(text, limit, at - 1) =>
          InText(text)[at - 1] = FenceState /\ Shows(text, buf.items, FenceState)
    BY DEF FenceInv, Tracking
  <2> QED
    BY <1>1, <2>4, <2>5 DEF Tracking
<1> QED
  BY <1>1, <1>4, <1>5 DEF FenceInv, ChunkTypeOK

LEMMA TakeLineTracks ==
  ASSUME FenceInv, TakeLine, ChunkTypeOK', rest <= text[at].len PROVE FenceInv'
<1> USE DEF TakeLine
<1>1. limit' = limit
  BY DEF limit
<1> DEFINE m == PartOf(rest)
           l == text[at]
<1>2. /\ at \in 1 .. Len(text) /\ text \in Seq(Line) /\ l \in Line
      /\ m \in Item /\ m.line = at /\ m.is = "text" /\ m.from = l.len - rest
      /\ l.mark \in Mark /\ l.run \in Nat /\ l.len \in Nat /\ l.info \in BOOLEAN
  BY SMTT(20), PartShows DEF FenceInv, ChunkTypeOK, Line
<1>3. open' # 0 => text'[open'].mark # "none"
  BY DEF FenceInv
<1>4. open' < at'
  BY <1>2 DEF FenceInv, ChunkTypeOK
<1>5. buf'.items = Append(buf.items, m) /\ at' - 1 = at /\ buf.items \in Seq(Item)
  BY <1>2 DEF Plus, FenceInv, ChunkTypeOK, Piece
<1>6. Holding'
  <2> HIDE DEF m
  <2>1. /\ Len(buf.items) + 1 \in DOMAIN buf'.items
        /\ buf'.items[Len(buf.items) + 1] = m
    BY <1>2, <1>5
  <2> QED
    BY <1>2, <1>5, <2>1 DEF Holding
<1>7. ASSUME Followed(text, limit, at)
      PROVE  InText(text)[at] = FenceState' /\ Shows(text, buf'.items, FenceState')
  <2>0. /\ Followed(text, limit, at - 1) /\ Tracked(text, at) /\ Fitting(text, limit, at)
        /\ at > 1 => Tracked(text, at - 1)
    BY <1>2, <1>7 DEF Followed
  <2>1. InText(text)[at - 1] = FenceState /\ Shows(text, buf.items, FenceState)
    BY <2>0 DEF FenceInv, Tracking
  <2>2. InText(text)[at] = Reads(FenceState, l.mark, l.run, l.info)
    BY <1>2, <2>1, InTextFacts
  <2>3. ReadsItem(text, FenceState, m) = InText(text)[at]
    <3>1. CASE m.from > 0
      <4>1. l.len > limit
        BY <1>2, <3>1 DEF FenceInv, ChunkTypeOK
      <4>2. l.mark = "none"
        BY <1>2, <2>0, <4>1 DEF Fitting
      <4> QED
        BY <1>2, <2>2, <3>1, <4>2 DEF ReadsItem, Reads
    <3>2. CASE ~(m.from > 0)
      BY <1>2, <2>2, <3>2 DEF ReadsItem
    <3> QED
      BY <3>1, <3>2
  <2>4. InText(text)[at] = FenceState'
    <3>1. CASE l.mark = "none"
      BY <2>2, <3>1 DEF FenceState, Reads
    <3>2. CASE l.mark # "none" /\ open = 0
      BY <1>2, <2>2, <3>2 DEF FenceState, Reads
    <3>3. CASE l.mark # "none" /\ open # 0
      <4>1. InText(text)[at - 1] # Prose
        BY <2>1, <3>3, FenceFacts
      <4>2. at > 1
        BY <1>2, <3>3 DEF FenceInv, ChunkTypeOK
      <4>3. InText(text)[at] = Prose
        BY <1>2, <2>0, <3>3, <4>1, <4>2, ParityStep
      <4> QED
        BY <3>3, <4>3 DEF FenceState
    <3> QED
      BY <3>1, <3>2, <3>3
  <2>5. Shows(text, Append(buf.items, m), InText(text)[at])
    <3> HIDE DEF m
    <3>1. m.is = "text" /\ text[m.line].mark = "none" =>
            (FenceState # Prose) = (InText(text)[m.line - 1] # Prose)
      BY <1>2, <2>1
    <3> QED
      BY <1>2, <2>1, <2>3, <3>1, ShowsMore
  <2> HIDE DEF m
  <2> QED
    BY <1>5, <2>4, <2>5
<1>8. Tracking'
  BY <1>1, <1>5, <1>7 DEF FenceInv, Tracking
<1> QED
  BY <1>1, <1>3, <1>4, <1>6, <1>8 DEF FenceInv

LEMMA LastFlushTracks == ASSUME FenceInv, LastFlush, ChunkTypeOK' PROVE FenceInv'
<1> USE DEF LastFlush
<1>1. limit' = limit
  BY DEF limit
<1>2. /\ Followed(text, limit, at - 1) => Shows(text, buf.items, FenceState)
      /\ \A i \in DOMAIN pieces :
           FollowedIn(text, limit, pieces[i]) => Shows(text, pieces[i].items, Prose)
  BY DEF FenceInv, Tracking
<1>3. FollowedIn(text, limit, Flushed) => Shows(text, Flushed.items, Prose)
  BY <1>2, FlushFollowed, FlushShows
<1>4. pieces' = Append(pieces, Flushed) /\ pieces \in Seq(Piece)
  BY DEF FenceInv, ChunkTypeOK
<1>5. \A i \in DOMAIN pieces' :
        FollowedIn(text, limit, pieces'[i]) => Shows(text, pieces'[i].items, Prose)
  BY <1>2, <1>3, <1>4
<1> QED
  BY <1>1, <1>5 DEF FenceInv, Tracking

(* Where nothing is cut yet there is nothing to show.                      *)
LEMMA EmptyTracks ==
  ASSUME ChunkTypeOK, at = 1, open = 0, buf = Nothing, pieces = <<>>, cpc # "split"
  PROVE  FenceInv
<1>1. text \in Seq(Line)
  BY DEF ChunkTypeOK
<1>2. InText(text)[at - 1] = FenceState /\ FenceState = Prose
  BY <1>1, InTextFacts DEF FenceState
<1>3. Shows(text, buf.items, FenceState)
  BY <1>1, <1>2, ShowsNothing DEF Nothing
<1>4. Tracking
  BY <1>2, <1>3 DEF Tracking
<1> QED
  BY <1>4 DEF FenceInv

LEMMA OthersTrack ==
  ASSUME FenceInv, ChunkTypeOK', Paginate \/ SendPiece \/ UNCHANGED chunkVars
  PROVE  FenceInv'
<1>1. limit' = limit /\ FenceState' = FenceState
  BY DEF limit, FenceState, Paginate, SendPiece, chunkVars
<1>2. Tracking'
  BY <1>1 DEF FenceInv, Tracking, Paginate, SendPiece, chunkVars
<1>3. cpc' = "line" => at' = 1 \/ Holding'
  BY DEF FenceInv, Holding, Paginate, SendPiece, chunkVars
<1> QED
  BY <1>1, <1>2, <1>3 DEF FenceInv, Paginate, SendPiece, chunkVars

-----------------------------------------------------------------------------
(* The next part of the text that has to come is the one at place m.       *)
IsLast(q, x) == x \in Places(q) /\ \A z \in Places(q) : ~Before(x, z)
Expects(t, q, m) ==
  \/ Places(q) = {} /\ Starts(m)
  \/ \E x \in Places(q) : IsLast(q, x) /\ Follows(t, PartAt(q, x), m)
Place(i, c) == [line |-> i, from |-> c]
OfText(t, q) == \A x \in Places(q) : PartAt(q, x).line \in DOMAIN t

(* The same parts in the same places, ...                                  *)
SameParts(q, r) ==
  Places(r) = Places(q) /\ \A x \in Places(q) : PartAt(r, x) = PartAt(q, x)

LEMMA SamePartsKeep ==
  ASSUME NEW t, NEW q, NEW r, SameParts(q, r)
  PROVE  /\ InOrder(t, q) => InOrder(t, r)
         /\ OfText(t, q) => OfText(t, r)
         /\ \A m : Expects(t, q, m) => Expects(t, r, m)
BY DEF SameParts, InOrder, OfText, Expects, IsLast

(* ... or one more, behind all others.                                     *)
OneMore(q, r, y) ==
  /\ y \notin Places(q) /\ Places(r) = Places(q) \cup {y}
  /\ \A x \in Places(q) : PartAt(r, x) = PartAt(q, x) /\ Before(x, y) /\ ~Before(y, x)
  /\ ~Before(y, y)

LEMMA OneMoreKeeps ==
  ASSUME NEW t, NEW q, NEW r, NEW y, OneMore(q, r, y), InOrder(t, q), Expects(t, q, PartAt(r, y)),
         \A x \in Places(q) : x[1] \in Nat /\ x[2] \in Nat
  PROVE  InOrder(t, r) /\ IsLast(r, y)
<1> DEFINE m == PartAt(r, y)
<1>1. IsLast(r, y)
  BY DEF OneMore, IsLast
<1>2. ASSUME NEW x \in Places(r), \A z \in Places(r) : ~Before(z, x) PROVE Starts(PartAt(r, x))
  <2>1. CASE x = y
    <3>1. Places(q) = {}
      BY <1>2, <2>1 DEF OneMore
    <3> QED
      BY <2>1, <3>1 DEF Expects
  <2>2. CASE x \in Places(q)
    BY <1>2, <2>2 DEF OneMore, InOrder
  <2> QED
    BY <2>1, <2>2 DEF OneMore
<1>3. ASSUME NEW x \in Places(r), NEW z \in Places(r), Before(x, z),
             \A w \in Places(r) : ~(Before(x, w) /\ Before(w, z))
      PROVE  Follows(t, PartAt(r, x), PartAt(r, z))
  <2>1. x \in Places(q)
    BY <1>3 DEF OneMore
  <2>2. CASE z \in Places(q)
    BY <1>3, <2>1, <2>2 DEF OneMore, InOrder
  <2>3. CASE z = y
    <3>1. PICK l \in Places(q) : IsLast(q, l) /\ Follows(t, PartAt(q, l), m)
      BY <2>1 DEF Expects
    <3>2. ~Before(x, l) /\ ~Before(l, x)
      BY <1>3, <2>1, <2>3, <3>1 DEF OneMore, IsLast
    <3>3. PartAt(q, x) = PartAt(q, l)
      BY <2>1, <3>2 DEF Before, PartAt
    <3> QED
      BY <2>1, <2>3, <3>1, <3>3 DEF OneMore
  <2> QED
    BY <2>2, <2>3 DEF OneMore
<1> QED
  BY <1>1, <1>2, <1>3 DEF InOrder

(* The places of a sequence of pieces, taken apart.                        *)
Texts(p) == {k \in DOMAIN p.items : p.items[k].is = "text"}

LEMMA PlacesAre ==
  ASSUME NEW q \in Seq(Piece)
  PROVE  /\ \A x \in Places(q) : x[1] \in DOMAIN q /\ x[2] \in Texts(q[x[1]]) /\ x = <<x[1], x[2]>>
         /\ \A i \in DOMAIN q : \A k \in Texts(q[i]) : <<i, k>> \in Places(q)
         /\ \A x \in Places(q) : x[1] \in Nat /\ x[2] \in Nat
<1>1. \A i \in DOMAIN q : q[i].items \in Seq(Item)
  <2>1. \A i \in DOMAIN q : q[i] \in Piece
    OBVIOUS
  <2> QED
    BY <2>1 DEF Piece
<1>2. \A x \in Places(q) : x[1] \in DOMAIN q /\ x[2] \in Texts(q[x[1]]) /\ x = <<x[1], x[2]>>
  BY DEF Places, Texts
<1>3. \A i \in DOMAIN q : \A k \in Texts(q[i]) : <<i, k>> \in Places(q)
  BY DEF Places, Texts
<1> QED
  BY <1>1, <1>2, <1>3 DEF Texts

(* The last piece is replaced by one with the same text, and followed by   *)
(* one without any.                                                        *)
LEMMA FlushParts ==
  ASSUME NEW q \in Seq(Piece), NEW b \in Piece, NEW c \in Piece,
         Texts(c) = Texts(b), \A k \in Texts(b) : c.items[k] = b.items[k]
  PROVE  SameParts(Append(q, b), Append(q, c))
<1> DEFINE r == Append(q, b)
           s == Append(q, c)
           n == Len(q) + 1
<1>1. /\ r \in Seq(Piece) /\ s \in Seq(Piece) /\ DOMAIN r = 1 .. n /\ DOMAIN s = 1 .. n
      /\ r[n] = b /\ s[n] = c /\ n \in Nat
      /\ \A i \in 1 .. n : i # n => r[i] = q[i] /\ s[i] = q[i]
  OBVIOUS
<1> HIDE DEF r, s, n
<1>2. ASSUME NEW x \in Places(r) PROVE x \in Places(s) /\ PartAt(s, x) = PartAt(r, x)
  <2>1. x[1] \in DOMAIN r /\ x[2] \in Texts(r[x[1]]) /\ x = <<x[1], x[2]>>
    BY <1>1, <1>2, PlacesAre
  <2>2. x[2] \in Texts(s[x[1]]) /\ s[x[1]].items[x[2]] = r[x[1]].items[x[2]]
    BY <1>1, <2>1
  <2> QED
    BY <1>1, <2>1, <2>2, PlacesAre DEF PartAt
<1>3. ASSUME NEW x \in Places(s) PROVE x \in Places(r)
  <2>1. x[1] \in DOMAIN s /\ x[2] \in Texts(s[x[1]]) /\ x = <<x[1], x[2]>>
    BY <1>1, <1>3, PlacesAre
  <2>2. x[2] \in Texts(r[x[1]])
    BY <1>1, <2>1
  <2> QED
    BY <1>1, <2>1, <2>2, PlacesAre
<1>4. SameParts(r, s)
  BY <1>2, <1>3 DEF SameParts
<1> QED
  BY <1>4 DEF r, s

LEMMA BlankParts ==
  ASSUME NEW q \in Seq(Piece), NEW b \in Piece, Texts(b) = {}
  PROVE  SameParts(q, Append(q, b)) /\ SameParts(Append(q, b), q)
<1> DEFINE r == Append(q, b)
           n == Len(q) + 1
<1>1. /\ r \in Seq(Piece) /\ DOMAIN r = DOMAIN q \cup {n} /\ r[n] = b /\ n \notin DOMAIN q
      /\ \A i \in DOMAIN q : r[i] = q[i]
  OBVIOUS
<1> HIDE DEF r, n
<1>2. ASSUME NEW x \in Places(r) PROVE x \in Places(q)
  <2>1. x[1] \in DOMAIN r /\ x[2] \in Texts(r[x[1]]) /\ x = <<x[1], x[2]>>
    BY <1>1, <1>2, PlacesAre
  <2>2. x[1] \in DOMAIN q
    BY <1>1, <2>1
  <2> QED
    BY <1>1, <2>1, <2>2, PlacesAre
<1>3. ASSUME NEW x \in Places(q) PROVE x \in Places(r) /\ PartAt(r, x) = PartAt(q, x)
  <2>1. x[1] \in DOMAIN q /\ x[2] \in Texts(q[x[1]]) /\ x = <<x[1], x[2]>>
    BY <1>3, PlacesAre
  <2> QED
    BY <1>1, <2>1, PlacesAre DEF PartAt
<1>4. SameParts(q, r) /\ SameParts(r, q)
  BY <1>2, <1>3 DEF SameParts
<1> QED
  BY <1>4 DEF r

(* A part added to the last piece, and one in a piece of its own.          *)
LEMMA GrowParts ==
  ASSUME NEW q \in Seq(Piece), NEW b \in Piece, NEW c \in Piece, NEW m \in Item,
         m.is = "text", c.items = Append(b.items, m)
  PROVE  LET y == <<Len(q) + 1, Len(b.items) + 1>> IN
         OneMore(Append(q, b), Append(q, c), y) /\ PartAt(Append(q, c), y) = m
<1> DEFINE r == Append(q, b)
           s == Append(q, c)
           n == Len(q) + 1
           k == Len(b.items) + 1
           y == <<n, k>>
<1>1. /\ r \in Seq(Piece) /\ s \in Seq(Piece) /\ DOMAIN r = 1 .. n /\ DOMAIN s = 1 .. n
      /\ r[n] = b /\ s[n] = c /\ n \in Nat
      /\ \A i \in 1 .. n : i # n => r[i] = q[i] /\ s[i] = q[i]
  OBVIOUS
<1>2. /\ b.items \in Seq(Item) /\ k \in Nat /\ DOMAIN b.items = 1 .. k - 1 /\ DOMAIN c.items = 1 .. k
      /\ c.items[k] = m /\ \A i \in 1 .. k - 1 : c.items[i] = b.items[i]
  BY DEF Piece
<1>3. Texts(c) = Texts(b) \cup {k} /\ k \notin Texts(b) /\ Texts(b) \subseteq 1 .. k - 1
  <2> HIDE DEF k
  <2> QED
    BY <1>2 DEF Texts
<1>4. y[1] = n /\ y[2] = k
  OBVIOUS
<1> HIDE DEF r, s, n, k, y
<1>5. ASSUME NEW x \in Places(r)
      PROVE  x \in Places(s) /\ PartAt(s, x) = PartAt(r, x) /\ Before(x, y) /\ ~Before(y, x)
  <2>1. x[1] \in 1 .. n /\ x[2] \in Texts(r[x[1]]) /\ x = <<x[1], x[2]>> /\ x[2] \in Nat
    BY <1>1, <1>5, PlacesAre
  <2>2. CASE x[1] = n
    <3>1. x[2] \in 1 .. k - 1 /\ x[2] \in Texts(s[x[1]])
      BY <1>1, <1>3, <2>1, <2>2
    <3>2. x \in Places(s)
      BY <1>1, <2>1, <3>1, PlacesAre
    <3>3. PartAt(s, x) = PartAt(r, x)
      <4>1. s[x[1]] = c /\ r[x[1]] = b /\ c.items[x[2]] = b.items[x[2]]
        BY <1>1, <1>2, <2>2, <3>1
      <4> QED
        BY <4>1 DEF PartAt
    <3>4. x[2] < k /\ ~(k < x[2]) /\ n \in Nat /\ ~(n < n)
      BY <1>1, <1>2, <3>1
    <3> QED
      BY <1>4, <2>2, <3>2, <3>3, <3>4 DEF Before
  <2>3. CASE x[1] # n
    <3>1. x[1] < n /\ s[x[1]] = r[x[1]]
      BY <1>1, <2>1, <2>3
    <3>2. x \in Places(s)
      BY <1>1, <2>1, <3>1, PlacesAre
    <3> QED
      BY <1>1, <1>4, <2>1, <3>1, <3>2 DEF PartAt, Before
  <2> QED
    BY <2>2, <2>3
<1>6. ASSUME NEW x \in Places(s), x # y PROVE x \in Places(r)
  <2>1. x[1] \in 1 .. n /\ x[2] \in Texts(s[x[1]]) /\ x = <<x[1], x[2]>>
    BY <1>1, <1>6, PlacesAre
  <2>2. x[2] \in Texts(r[x[1]])
    <3>1. CASE x[1] = n
      BY <1>1, <1>3, <1>6, <2>1, <3>1 DEF y
    <3>2. CASE x[1] # n
      BY <1>1, <2>1, <3>2
    <3> QED
      BY <3>1, <3>2
  <2> QED
    BY <1>1, <2>1, <2>2, PlacesAre
<1>7. y \in Places(s) /\ PartAt(s, y) = m /\ y \notin Places(r) /\ ~Before(y, y)
  <2>1. y \in Places(s)
    <3>1. n \in DOMAIN s /\ k \in Texts(s[n])
      BY SMTT(20), <1>1, <1>3
    <3> QED
      BY <1>1, <3>1, PlacesAre DEF y
  <2>2. y \notin Places(r)
    <3> SUFFICES ASSUME y \in Places(r) PROVE FALSE
      OBVIOUS
    <3>1. y[2] \in Texts(r[y[1]])
      BY <1>1, PlacesAre
    <3> QED
      BY <1>1, <1>3, <1>4, <3>1
  <2> QED
    BY <1>1, <1>2, <1>4, <2>1, <2>2 DEF PartAt, Before
<1>8. OneMore(r, s, y) /\ PartAt(s, y) = m
  BY <1>5, <1>6, <1>7 DEF OneMore
<1> QED
  BY <1>8 DEF r, s, y, n, k

(* What is cut so far is the text up to the place where the cutting is.    *)
Cut == IF cpc = "split" THEN text[at].len - rest ELSE 0
SoFar == Append(pieces, buf)
TextInv ==
  /\ ChunkTypeOK
  /\ cpc = "split" => /\ at \in DOMAIN text /\ rest <= text[at].len /\ rest > 0
                      /\ text[at].len > limit => Texts(buf) = {}
  /\ buf.len = 0 => Texts(buf) = {}
  /\ cpc \in {"line", "split"} =>
       InOrder(text, SoFar) /\ OfText(text, SoFar) /\ Expects(text, SoFar, Place(at, Cut))
  /\ cpc \in {"cut", "sending"} => InOrder(text, pieces) /\ ReachesEnd(text, pieces)
  /\ cpc \in {"line", "split", "cut", "sending"} => text # <<>>
  /\ cpc \in {"idle", "sent", "refused"} => buf = Nothing /\ pieces = <<>>

LEMMA NoParts == Nothing \in Piece /\ Texts(Nothing) = {}
BY NothingIsPiece DEF Texts, Nothing

LEMMA EmptyInOrder ==
  Places(Append(<<>>, Nothing)) = {} /\ \A t : InOrder(t, Append(<<>>, Nothing)) /\ OfText(t, Append(<<>>, Nothing))
<1> DEFINE q == Append(<<>>, Nothing)
<1>1. q \in Seq(Piece) /\ DOMAIN q = {1} /\ q[1] = Nothing
  BY NoParts
<1>2. Places(q) = {}
  BY <1>1, NoParts DEF Places, Texts
<1> QED
  BY <1>2 DEF InOrder, OfText

(* flush() adds a fence line, and starts the next piece with another one.  *)
LEMMA FlushTexts ==
  ASSUME ChunkTypeOK
  PROVE  /\ Flushed \in Piece /\ Reopened \in Piece
         /\ Texts(Flushed) = Texts(buf) /\ \A k \in Texts(buf) : Flushed.items[k] = buf.items[k]
         /\ Texts(Reopened) = {}
<1>0. buf \in Piece /\ buf.items \in Seq(Item) /\ Flushed \in Piece /\ Reopened \in Piece
  BY FlushFacts DEF ChunkTypeOK, Piece
<1>1. CASE open = 0
  BY <1>0, <1>1, NoParts DEF Flushed, Reopened
<1>2. CASE open # 0
  <2> DEFINE c == Fence("close", open, text[open].run + (IF EndsLine(buf) THEN 1 ELSE 2))
             o == Fence("open", open, OpenerLen(open))
  <2>1. c.is # "text" /\ o.is # "text"
    BY DEF Fence
  <2>2. Flushed.items = Append(buf.items, c) /\ Reopened.items = Append(<<>>, o)
    BY <1>2 DEF Flushed, Reopened, Plus, Nothing
  <2>3. Flushed.items \in Seq(Item) /\ Reopened.items \in Seq(Item)
    BY <1>0 DEF Piece
  <2> HIDE DEF c, o
  <2>4. /\ DOMAIN Flushed.items = 1 .. Len(buf.items) + 1
        /\ Flushed.items[Len(buf.items) + 1] = c
        /\ \A k \in 1 .. Len(buf.items) : Flushed.items[k] = buf.items[k]
    BY <1>0, <2>2
  <2>5. Texts(Flushed) = Texts(buf) /\ \A k \in Texts(buf) : Flushed.items[k] = buf.items[k]
    BY SMTT(20), <1>0, <2>1, <2>4 DEF Texts
  <2>6. DOMAIN Reopened.items = {1} /\ Reopened.items[1] = o
    BY <2>2
  <2>7. Texts(Reopened) = {}
    BY <2>1, <2>6 DEF Texts
  <2> QED
    BY <1>0, <2>5, <2>7
<1> QED
  BY <1>1, <1>2

LEMMA NextLineCuts == ASSUME TextInv, NextLine, ChunkTypeOK' PROVE TextInv'
<1> USE DEF NextLine
<1>1. /\ ChunkTypeOK /\ text \in Seq(Line) /\ pieces \in Seq(Piece) /\ buf \in Piece
      /\ at \in DOMAIN text /\ text[at].len \in Nat /\ text[at].len > 0 /\ buf.len \in Nat
  BY LineFacts DEF TextInv, ChunkTypeOK, Piece
<1>2. InOrder(text, SoFar) /\ OfText(text, SoFar) /\ Expects(text, SoFar, Place(at, 0))
  BY DEF TextInv, Cut
<1>3. Cut' = 0 /\ text' = text /\ at' = at /\ limit' = limit
  BY <1>1 DEF Cut, limit
<1>4. InOrder(text, SoFar') /\ OfText(text, SoFar') /\ Expects(text, SoFar', Place(at, 0))
      /\ (text[at].len > limit \/ buf'.len = 0 => Texts(buf') = {})
  <2>1. CASE Overflows
    <3> DEFINE r == Append(pieces, Flushed)
    <3>1. SameParts(SoFar, r)
      BY <1>1, FlushTexts, FlushParts DEF SoFar
    <3>2. r \in Seq(Piece) /\ Reopened \in Piece /\ Texts(Reopened) = {}
      BY <1>1, FlushTexts
    <3>3. SameParts(r, Append(r, Reopened))
      <4> HIDE DEF r
      <4> QED
        BY <3>2, BlankParts
    <3>4. SoFar' = Append(r, Reopened) /\ buf' = Reopened
      BY <2>1 DEF SoFar
    <3>5. InOrder(text, r) /\ OfText(text, r) /\ Expects(text, r, Place(at, 0))
      BY <1>2, <3>1, SamePartsKeep
    <3> HIDE DEF r
    <3> QED
      BY <3>2, <3>3, <3>4, <3>5, SamePartsKeep
  <2>2. CASE ~Overflows
    <3>1. buf.len = 0 \/ ~(text[at].len > limit)
      BY <1>1, <2>2, LimitFacts, LengthFacts DEF Overflows
    <3>2. SoFar' = SoFar /\ buf' = buf
      BY <2>2 DEF SoFar
    <3> QED
      BY <1>2, <3>1, <3>2 DEF TextInv
  <2> QED
    BY <2>1, <2>2
<1> QED
  BY <1>1, <1>3, <1>4 DEF TextInv

LEMMA HardSplitCuts == ASSUME TextInv, HardSplit, ChunkTypeOK' PROVE TextInv'
<1> USE DEF HardSplit
<1>1. /\ text \in Seq(Line) /\ pieces \in Seq(Piece) /\ buf \in Piece
      /\ at \in DOMAIN text /\ text[at].len \in Nat /\ rest \in Nat /\ limit \in Nat
      /\ rest <= text[at].len /\ rest > limit /\ at \in Nat
  BY LineFacts, LimitFacts DEF TextInv, ChunkTypeOK
<1>2. limit' = limit /\ Texts(buf) = {}
  BY <1>1 DEF TextInv, limit
<1>3. InOrder(text, SoFar) /\ OfText(text, SoFar) /\ Expects(text, SoFar, Place(at, text[at].len - rest))
  BY DEF TextInv, Cut
<1> DEFINE m == PartOf(limit)
           e == Nothing
           p == Plus(e, m)
           q == Append(pieces, e)
           r == Append(pieces, p)
<1>4. m \in Item /\ m.is = "text" /\ m.line = at /\ m.from = text[at].len - rest
      /\ m.upto = text[at].len - (rest - limit)
  BY <1>1 DEF PartOf, Item
<1>5. e \in Piece /\ Texts(e) = {} /\ e.items = <<>>
  BY NoParts DEF Nothing
<1>6. p \in Piece /\ p.items = Append(e.items, m)
  <2>1. p.items = Append(e.items, m) /\ m.from <= m.upto
    BY <1>1, <1>4 DEF Plus
  <2> HIDE DEF m, e
  <2> QED
    BY <1>4, <1>5, <2>1, PlusPiece DEF e
<1>7. SameParts(SoFar, pieces) /\ SameParts(pieces, q)
  <2> HIDE DEF e
  <2> QED
    BY <1>1, <1>2, <1>5, BlankParts DEF SoFar
<1>8. InOrder(text, q) /\ OfText(text, q) /\ Expects(text, q, Place(at, text[at].len - rest))
  <2> HIDE DEF q
  <2>1. InOrder(text, pieces) /\ OfText(text, pieces)
        /\ Expects(text, pieces, Place(at, text[at].len - rest))
    BY ZenonT(30), <1>3, <1>7, SamePartsKeep
  <2> QED
    BY ZenonT(30), <1>7, <2>1, SamePartsKeep
<1> DEFINE y == <<Len(pieces) + 1, Len(e.items) + 1>>
<1>9. OneMore(q, r, y) /\ PartAt(r, y) = m
  <2> HIDE DEF e, m, p
  <2> QED
    BY <1>1, <1>4, <1>5, <1>6, GrowParts
<1> HIDE DEF e, m, p, y
<1>10. q \in Seq(Piece) /\ r \in Seq(Piece)
  BY <1>1, <1>5, <1>6
<1>11. Expects(text, q, m)
  BY <1>4, <1>8 DEF Expects, Place, Starts, Follows
<1>18. \A x \in Places(q) : x[1] \in Nat /\ x[2] \in Nat
  BY <1>10, PlacesAre
<1> HIDE DEF q
<1>12. InOrder(text, r) /\ IsLast(r, y)
  BY <1>9, <1>10, <1>11, <1>8, <1>18, PlacesAre, OneMoreKeeps
<1>19. OfText(text, r)
  BY <1>1, <1>4, <1>8, <1>9 DEF OfText, OneMore
<1>13. Expects(text, r, Place(at, text[at].len - (rest - limit)))
  BY <1>4, <1>9, <1>12 DEF Expects, Place, Follows, IsLast
<1>14. SoFar' = Append(r, buf) /\ pieces' = r
  BY DEF SoFar, p, m, e
<1>15. SameParts(r, SoFar')
  <2> HIDE DEF r
  <2> QED
    BY <1>1, <1>2, <1>10, <1>14, BlankParts
<1>16. InOrder(text, SoFar') /\ OfText(text, SoFar') /\ Expects(text, SoFar', Place(at, text[at].len - (rest - limit)))
  BY ZenonT(30), <1>12, <1>13, <1>15, <1>19, SamePartsKeep
<1>17. Cut' = text[at].len - (rest - limit)
  BY <1>1 DEF Cut
<1> QED
  BY <1>1, <1>2, <1>16, <1>17 DEF TextInv

LEMMA TakeLineCuts == ASSUME TextInv, TakeLine, ChunkTypeOK' PROVE TextInv'
<1> USE DEF TakeLine
<1>1. /\ text \in Seq(Line) /\ pieces \in Seq(Piece) /\ buf \in Piece /\ buf' \in Piece
      /\ at \in DOMAIN text /\ text[at].len \in Nat /\ rest \in Nat /\ rest > 0
      /\ rest <= text[at].len /\ at \in Nat /\ buf.len \in Nat
  BY LineFacts DEF TextInv, ChunkTypeOK, Piece
<1>2. InOrder(text, SoFar) /\ OfText(text, SoFar) /\ Expects(text, SoFar, Place(at, text[at].len - rest))
  BY DEF TextInv, Cut
<1> DEFINE m == PartOf(rest)
           y == <<Len(pieces) + 1, Len(buf.items) + 1>>
<1>3. m \in Item /\ m.is = "text" /\ m.line = at /\ m.from = text[at].len - rest
      /\ m.upto = text[at].len
  BY <1>1 DEF PartOf, Item
<1>4. buf'.items = Append(buf.items, m) /\ buf'.len = buf.len + rest
  BY <1>1 DEF Plus, Length, PartOf
<1>5. OneMore(SoFar, SoFar', y) /\ PartAt(SoFar', y) = m
  <2> HIDE DEF m
  <2>1. SoFar' = Append(pieces, buf')
    BY DEF SoFar
  <2> QED
    BY <1>1, <1>3, <1>4, <2>1, GrowParts DEF SoFar
<1> HIDE DEF m, y
<1>6. SoFar \in Seq(Piece)
  BY <1>1 DEF SoFar
<1>7. Expects(text, SoFar, m)
  BY <1>2, <1>3 DEF Expects, Place, Starts, Follows
<1>8. InOrder(text, SoFar') /\ IsLast(SoFar', y)
  BY <1>2, <1>5, <1>6, <1>7, PlacesAre, OneMoreKeeps
<1>11. OfText(text, SoFar')
  BY <1>1, <1>2, <1>3, <1>5 DEF OfText, OneMore
<1>9. Expects(text, SoFar', Place(at + 1, 0))
  BY SMTT(20), <1>1, <1>3, <1>5, <1>8 DEF Expects, Place, Follows, IsLast
<1>10. buf'.len # 0 /\ Cut' = 0
  BY <1>1, <1>4 DEF Cut
<1> QED
  BY <1>8, <1>9, <1>10, <1>11 DEF TextInv

LEMMA LastFlushCuts == ASSUME TextInv, LastFlush, ChunkTypeOK' PROVE TextInv'
<1> USE DEF LastFlush
<1>1. /\ ChunkTypeOK /\ text \in Seq(Line) /\ pieces \in Seq(Piece) /\ buf \in Piece /\ at = Len(text) + 1
      /\ Len(text) \in Nat /\ Len(text) > 0
  <2>1. text \in Seq(Line) /\ Len(text) \in Nat
    BY DEF TextInv, ChunkTypeOK
  <2>2. text # <<>>
    BY DEF TextInv
  <2>3. Len(text) > 0
    BY <2>1, <2>2
  <2> QED
    BY <2>1, <2>3 DEF TextInv, ChunkTypeOK
<1>2. InOrder(text, SoFar) /\ OfText(text, SoFar) /\ Expects(text, SoFar, Place(at, 0))
  BY DEF TextInv, Cut
<1> DEFINE r == Append(pieces, Flushed)
<1>3. SameParts(SoFar, r) /\ r \in Seq(Piece)
  BY <1>1, FlushTexts, FlushParts DEF SoFar
<1> HIDE DEF r
<1>4. InOrder(text, r) /\ OfText(text, r) /\ Expects(text, r, Place(at, 0))
  BY <1>2, <1>3, SamePartsKeep
<1>5. PICK x \in Places(r) : IsLast(r, x) /\ Follows(text, PartAt(r, x), Place(at, 0))
  BY <1>1, <1>4 DEF Expects, Starts, Place
<1> DEFINE k == PartAt(r, x)
<1>6. k \in Item
  <2>1. x[1] \in DOMAIN r /\ x[2] \in Texts(r[x[1]])
    BY <1>3, PlacesAre
  <2>2. r[x[1]] \in Piece
    BY <1>3, <2>1
  <2> QED
    BY <2>1, <2>2 DEF PartAt, Texts, Piece
<1>7. k.line \in Nat /\ k.upto \in Nat
  BY <1>6 DEF Item
<1>8. Ends(text, k)
  <2>1. k.line \in DOMAIN text
    BY <1>1, <1>4 DEF OfText
  <2> HIDE DEF k
  <2> QED
    BY <1>1, <1>5, <1>7, <2>1 DEF Follows, Place, Ends, k
<1>9. ReachesEnd(text, r)
  BY <1>5, <1>8 DEF ReachesEnd, IsLast
<1> QED
  BY <1>4, <1>9 DEF TextInv, r
(* Where nothing is cut yet, nothing can be lost.                          *)
LEMMA EmptyCuts ==
  ASSUME ChunkTypeOK, at = 1, buf = Nothing, pieces = <<>>,
         cpc \in {"line", "idle", "sent", "refused"}, cpc = "line" => text # <<>>
  PROVE  TextInv
<1>1. SoFar = Append(<<>>, Nothing) /\ Cut = 0
  BY DEF SoFar, Cut
<1>2. Expects(text, SoFar, Place(at, 0))
  BY <1>1, EmptyInOrder DEF Expects, Starts, Place
<1> QED
  BY <1>1, <1>2, EmptyInOrder, NoParts DEF TextInv

LEMMA OthersCut ==
  ASSUME TextInv, ChunkTypeOK', Paginate \/ SendPiece \/ UNCHANGED chunkVars PROVE TextInv'
<1>1. text' = text /\ pieces' = pieces /\ buf' = buf /\ at' = at /\ rest' = rest /\ limit' = limit
  BY DEF Paginate, SendPiece, chunkVars, limit
<1>2. SoFar' = SoFar
  BY <1>1 DEF SoFar
<1>3. CASE UNCHANGED chunkVars
  <2>1. Cut' = Cut
    BY <1>1, <1>3 DEF Cut, chunkVars
  <2> QED
    BY <1>1, <1>2, <1>3, <2>1 DEF TextInv, chunkVars
<1>4. CASE Paginate \/ SendPiece
  BY <1>1, <1>4 DEF TextInv, Paginate, SendPiece
<1> QED
  BY <1>3, <1>4

-----------------------------------------------------------------------------
(* What the cutting of an answer keeps, whoever it is part of.             *)
CutInv == ChunkInv /\ FenceInv /\ TextInv
CutMoves == ChunkStep \/ (\E t \in Text \cup {<<>>} : BeginBody(t)) \/ Left("idle")

Uncut ==
  /\ ChunkInv
  /\ at = 1 /\ open = 0 /\ buf = Nothing /\ pieces = <<>>
  /\ cpc \in {"line", "idle", "sent", "refused"} /\ (cpc = "line" => text # <<>>)

LEMMA FreshCut == Uncut => CutInv
BY EmptyTracks, EmptyCuts DEF Uncut, CutInv, ChunkInv

LEMMA FreshCutNext == Uncut' => CutInv'
BY FreshCut, PTL

LEMMA CutStart == ChunkInit => CutInv
BY ChunkInitial, FreshCut DEF ChunkInit, Uncut

LEMMA LeftCut == ASSUME NEW how \in {"idle", "sent", "refused"}, Left(how) PROVE CutInv'
<1>1. ChunkInv'
  BY LeavingKeeps
<1>2. at' = 1 /\ open' = 0 /\ buf' = Nothing /\ pieces' = <<>> /\ cpc' = how
  BY DEF Left
<1> QED
  BY <1>1, <1>2, FreshCutNext DEF Uncut

LEMMA CutKeeps == ASSUME CutInv, CutMoves \/ UNCHANGED chunkVars PROVE CutInv'
<1>0. ChunkInv /\ FenceInv /\ TextInv
  BY DEF CutInv
<1>1. ASSUME ChunkStep, ~(BodySent \/ BodyRefused \/ CutPreview) PROVE CutInv'
  <2>1. ChunkInv' /\ ChunkTypeOK'
    BY <1>0, <1>1, ChunkStepKeeps DEF ChunkInv
  <2>2. cpc = "split" => rest <= text[at].len
    BY <1>0 DEF ChunkInv
  <2>3. CASE NextLine
    BY <1>0, <2>1, <2>3, NextLineTracks, NextLineCuts DEF CutInv
  <2>4. CASE HardSplit
    BY <1>0, <2>1, <2>2, <2>4, HardSplitTracks, HardSplitCuts DEF HardSplit, CutInv
  <2>5. CASE TakeLine
    BY <1>0, <2>1, <2>2, <2>5, TakeLineTracks, TakeLineCuts DEF TakeLine, CutInv
  <2>6. CASE LastFlush
    BY <1>0, <2>1, <2>6, LastFlushTracks, LastFlushCuts DEF CutInv
  <2>7. CASE Paginate \/ SendPiece
    BY <1>0, <2>1, <2>7, OthersTrack, OthersCut DEF CutInv
  <2> QED
    BY <1>1, <2>3, <2>4, <2>5, <2>6, <2>7 DEF ChunkStep
<1>2. CASE CutPreview
  <2>1. ChunkInv'
    BY <1>0, <1>2, ChunkStepKeeps DEF ChunkStep
  <2>2. text' # <<>> /\ cpc' = "line" /\ at' = 1 /\ open' = 0 /\ buf' = Nothing /\ pieces' = <<>>
    BY <1>0, <1>2 DEF CutPreview, TextInv
  <2> QED
    BY <2>1, <2>2, FreshCutNext DEF Uncut
<1>3. CASE BodySent \/ BodyRefused \/ Left("idle")
  BY <1>3, LeftCut DEF BodySent, BodyRefused
<1>4. ASSUME NEW t \in Text \cup {<<>>}, BeginBody(t) PROVE CutInv'
  <2>1. ChunkInv'
    BY <1>0, <1>4, BeginBodyKeeps
  <2>2. /\ at' = 1 /\ open' = 0 /\ buf' = Nothing /\ pieces' = <<>>
        /\ cpc' \in {"line", "sent"} /\ (cpc' = "line" => text' # <<>>)
    BY <1>0, <1>4 DEF BeginBody, ChunkInv
  <2> QED
    BY <2>1, <2>2, FreshCutNext DEF Uncut
<1>5. CASE UNCHANGED chunkVars
  <2>1. ChunkInv' /\ ChunkTypeOK'
    BY <1>0, <1>5, ChunkStutterKeeps DEF ChunkInv
  <2> QED
    BY <1>0, <1>5, <2>1, OthersTrack, OthersCut DEF CutInv
<1> QED
  BY <1>1, <1>2, <1>3, <1>4, <1>5 DEF CutMoves

LEMMA CutPromises == CutInv => FencesSurvive /\ NothingLost
<1>1. CutInv => FencesSurvive
  BY DEF CutInv, FenceInv, Tracking, Shows, FencesSurvive, ReadsAlike
<1>2. CutInv => NothingLost
  <2> SUFFICES ASSUME CutInv, cpc \notin {"cut", "sending"} PROVE InOrder(text, Append(pieces, buf))
    BY DEF CutInv, TextInv, NothingLost
  <2>1. CASE cpc \in {"line", "split"}
    BY <2>1 DEF CutInv, TextInv, SoFar
  <2>2. CASE cpc \in {"idle", "sent", "refused"}
    BY <2>2, EmptyInOrder DEF CutInv, TextInv
  <2> QED
    BY <2>1, <2>2 DEF CutInv, TextInv, ChunkTypeOK
<1> QED
  BY <1>1, <1>2

LEMMA CutStays == ChunkSpec => []CutInv
<1>1. CutInv /\ [ChunkNext]_chunkVars => CutInv'
  BY CutKeeps DEF ChunkNext, CutMoves
<1> QED
  BY CutStart, <1>1, PTL DEF ChunkSpec

(* Whatever the text and wherever it is cut: a message up to whose end     *)
(* _chunk follows the fences - its one bit agrees with Markdown at every   *)
(* line, and no fence and no line of code is above the limit - closes what *)
(* it opens and shows as code what is code (outputs.py:528-583).  Of the   *)
(* messages behind a nested fence or a long line of code this says         *)
(* nothing, and FencesAlwaysSurvive is false.                              *)
THEOREM CutMessagesRead == ChunkSpec => []FencesSurvive
BY CutStays, CutPromises, PTL

(* Whatever the text, its fences and the limits: the messages without the  *)
(* lines _chunk added are the text, and while it is being cut what there   *)
(* is so far is its beginning (outputs.py:528-583).                        *)
THEOREM CutLosesNothing == ChunkSpec => []NothingLost
BY CutStays, CutPromises, PTL

-----------------------------------------------------------------------------
(* The cutting ends.                                                       *)

(* Counted down: the stages left, then the lines or the messages left,     *)
(* then what is left of the line.                                          *)
StagesLeft ==
  LET cutting == IF previewing THEN 3 ELSE 5 IN
  IF cpc \in {"line", "split"} THEN cutting
  ELSE IF cpc = "cut" THEN cutting - 1 ELSE IF cpc = "sending" THEN 1 ELSE 0
RoundsLeft == IF cpc = "sending" THEN Len(pieces) - sent ELSE Len(text) + 1 - at
CutRank == <<StagesLeft, RoundsLeft, IF cpc = "line" THEN 1 ELSE 0, rest>>

(* The order of tuples of equal length, by the first place they differ at. *)
Below(r, s) == \E i \in DOMAIN s : r[i] < s[i] /\ \A k \in 1 .. i - 1 : r[k] = s[k]

LEMMA BelowFour ==
  ASSUME NEW a, NEW b, NEW c, NEW d, NEW x, NEW y, NEW z, NEW w,
         \/ a < x
         \/ a = x /\ b < y
         \/ a = x /\ b = y /\ c < z
         \/ a = x /\ b = y /\ c = z /\ d < w
  PROVE  Below(<<a, b, c, d>>, <<x, y, z, w>>)
<1> DEFINE r == <<a, b, c, d>>
           s == <<x, y, z, w>>
<1>1. /\ DOMAIN s = 1 .. 4 /\ s[1] = x /\ s[2] = y /\ s[3] = z /\ s[4] = w
      /\ r[1] = a /\ r[2] = b /\ r[3] = c /\ r[4] = d
  OBVIOUS
<1>2. /\ \A k \in 1 .. 1 - 1 : FALSE
      /\ \A k \in 1 .. 2 - 1 : k = 1
      /\ \A k \in 1 .. 3 - 1 : k = 1 \/ k = 2
      /\ \A k \in 1 .. 4 - 1 : k = 1 \/ k = 2 \/ k = 3
      /\ \A i \in {1, 2, 3, 4} : i \in 1 .. 4
  OBVIOUS
<1> HIDE DEF r, s
<1>3. \E i \in {1, 2, 3, 4} : r[i] < s[i] /\ \A k \in 1 .. i - 1 : r[k] = s[k]
  BY <1>1, <1>2
<1>4. Below(r, s)
  BY <1>1, <1>2, <1>3 DEF Below
<1> QED
  BY <1>4 DEF r, s

LEMMA CutRankType == ASSUME ChunkTypeOK PROVE CutRank \in Nat \X Nat \X Nat \X Nat
<1>1. StagesLeft \in Nat
  BY DEF StagesLeft
<1>2. RoundsLeft \in Nat
  BY DEF ChunkTypeOK, RoundsLeft
<1>3. rest \in Nat
  BY DEF ChunkTypeOK
<1> QED
  BY <1>1, <1>2, <1>3 DEF CutRank

(* Every round of every loop counts down.                                  *)
LEMMA CutDescends ==
  ASSUME ChunkTypeOK, ChunkStep PROVE Below(CutRank', CutRank)
<1> DEFINE Phase == IF cpc = "line" THEN 1 ELSE 0
<1> SUFFICES \/ StagesLeft' < StagesLeft
             \/ StagesLeft' = StagesLeft /\ RoundsLeft' < RoundsLeft
             \/ StagesLeft' = StagesLeft /\ RoundsLeft' = RoundsLeft /\ Phase' < Phase
             \/ StagesLeft' = StagesLeft /\ RoundsLeft' = RoundsLeft /\ Phase' = Phase /\ rest' < rest
  BY BelowFour DEF CutRank
<1>1. /\ previewing \in BOOLEAN /\ rest \in Nat /\ limit \in Nat /\ limit > 0
      /\ at \in Nat /\ sent \in Nat /\ Len(text) \in Nat /\ Len(pieces) \in Nat
  BY ChunkAssumption DEF ChunkTypeOK, limit
<1>2. CASE NextLine
  BY <1>1, <1>2 DEF NextLine, StagesLeft, RoundsLeft
<1>3. CASE HardSplit
  BY <1>1, <1>3 DEF HardSplit, StagesLeft, RoundsLeft
<1>4. CASE TakeLine
  BY <1>1, <1>4 DEF TakeLine, StagesLeft, RoundsLeft
<1>5. CASE LastFlush \/ Paginate \/ CutPreview
  BY <1>1, <1>5 DEF LastFlush, Paginate, CutPreview, StagesLeft
<1>6. CASE SendPiece
  BY <1>1, <1>6 DEF SendPiece, StagesLeft, RoundsLeft
<1>7. CASE BodySent \/ BodyRefused
  BY <1>1, <1>7 DEF BodySent, BodyRefused, Left, StagesLeft
<1> QED
  BY <1>2, <1>3, <1>4, <1>5, <1>6, <1>7 DEF ChunkStep

(* The loops of _chunk and of _send_body_text end: every round counts down *)
(* what is left, in an order that cannot be descended for ever.            *)
THEOREM CuttingComesToAnEnd ==
  ChunkSpec => [](CutRank \in Nat \X Nat \X Nat \X Nat)
                 /\ [][ChunkStep => Below(CutRank', CutRank)]_chunkVars
<1>1. ChunkInv => CutRank \in Nat \X Nat \X Nat \X Nat
  BY CutRankType DEF ChunkInv
<1>2. ChunkInv => [ChunkStep => Below(CutRank', CutRank)]_chunkVars
  BY CutDescends DEF ChunkInv
<1> QED
  BY <1>1, <1>2, CuttingKeeps, PTL

=============================================================================
