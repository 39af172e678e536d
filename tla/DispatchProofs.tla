--------------------------- MODULE DispatchProofs ---------------------------
(***************************************************************************)
(* Proofs about the dispatcher, for any number of messages, channels and   *)
(* slots: the gate never lets in too many and wakes whom it can, the       *)
(* backlog is counted exactly, and with one slot a turn sees what the turn *)
(* before it left.                                                         *)
(*                                                                         *)
(* The gate needs that its waiters are different messages that are really  *)
(* waiting, so that letting one in takes exactly one slot.  The chain of   *)
(* turns needs the gate: nobody else can touch the session between the     *)
(* moment a turn resolves it and the moment it stores its own.             *)
(*                                                                         *)
(* The liveness theorems follow a job through its stations to the end and  *)
(* a waiting one through the places of the queue.                          *)
(***************************************************************************)
EXTENDS Dispatch, FiniteSetTheorems, SequenceTheorems, TLAPS

Inside == InGate \cup {"woken"}
Backlog == {m \in Msg : pc[m] \notin {"new", "allocating", "done"}}

GateInv ==
  /\ IsFiniteSet(holders)
  /\ Cardinality(holders) <= Limit
  /\ holders = {m \in Msg : pc[m] \in Inside}
  /\ \A i \in DOMAIN waiters : pc[waiters[i]] = "waiting"
  /\ \A i, k \in DOMAIN waiters : waiters[i] = waiters[k] => i = k
  /\ waiters # <<>> => Cardinality(holders) = Limit \/ Woken # {}

BacklogInv == IsFiniteSet(Backlog) /\ pending = Cardinality(Backlog)

(* Before a message holds a slot it has resolved no session.               *)
ChainInv ==
  /\ \A m \in Msg : pc[m] # "new" => chan[m] \in Channel
  /\ \A m \in Msg : resume[m] # None => pc[m] \in InGate \cup {"done"}
  /\ TurnsChain

DispatchInv == DispatchTypeOK /\ GateInv /\ BacklogInv /\ ChainInv

-----------------------------------------------------------------------------
LEMMA InitHolds == DispatchInit => DispatchInv
<1> SUFFICES ASSUME DispatchInit PROVE DispatchInv
  OBVIOUS
<1> USE DEF DispatchInit
<1>1. DispatchTypeOK
  <2>1. pc \in [Msg -> PC]
    BY DEF PC
  <2>2. /\ chan \in [Msg -> Channel \cup {None}]
        /\ explicit \in [Msg -> Session \cup {None}]
        /\ resume \in [Msg -> Session \cup {None}]
        /\ got \in [Msg -> Session \cup {None}]
    OBVIOUS
  <2>3. queued \in [Msg -> BOOLEAN]
    OBVIOUS
  <2>4. shown \in [Msg -> {"nothing", "queued", "working"}]
    OBVIOUS
  <2>5. sess \in [Channel -> Session \cup {None}]
    OBVIOUS
  <2>6. waiters \in Seq(Msg)
    OBVIOUS
  <2> QED
    BY <2>1, <2>2, <2>3, <2>4, <2>5, <2>6 DEF DispatchTypeOK
<1>2. GateInv
  BY FS_EmptySet, DispatchAssumption DEF GateInv, Inside, InGate
<1>3. BacklogInv
  <2>1. Backlog = {}
    BY DEF Backlog
  <2> QED
    BY <2>1, FS_EmptySet DEF BacklogInv
<1>4. ChainInv
  BY DEF ChainInv, TurnsChain, InGate
<1> QED
  BY <1>1, <1>2, <1>3, <1>4 DEF DispatchInv

-----------------------------------------------------------------------------
(* The gate.                                                               *)

(* A step of one message that neither takes nor gives back a slot.         *)
LEMMA GateAside ==
  ASSUME DispatchInv, NEW m \in Msg, NEW label \in PC, Goto(m, label),
         UNCHANGED <<holders, waiters>>,
         \/ pc[m] \in InGate /\ label \in InGate
         \/ pc[m] \notin Inside \cup {"waiting"} /\ label \notin Inside
  PROVE  GateInv'
<1>1. pc' = [pc EXCEPT ![m] = label] /\ pc \in [Msg -> PC] /\ waiters \in Seq(Msg)
  BY DEF DispatchInv, DispatchTypeOK, Goto
<1>2. "woken" \notin InGate /\ "waiting" \notin Inside
  BY DEF InGate, Inside
<1>3. {x \in Msg : pc'[x] \in Inside} = {x \in Msg : pc[x] \in Inside}
  BY <1>1 DEF Inside
<1>4. Woken' = Woken
  BY <1>1, <1>2 DEF Woken, Inside
<1>5. \A i \in DOMAIN waiters : pc'[waiters[i]] = "waiting"
  BY <1>1, <1>2 DEF DispatchInv, GateInv, Inside
<1> QED
  BY <1>3, <1>4, <1>5 DEF DispatchInv, GateInv

LEMMA GateStays ==
  ASSUME DispatchInv, UNCHANGED <<pc, holders, waiters>> PROVE GateInv'
BY DEF DispatchInv, GateInv, Woken

LEMMA HolderFacts ==
  ASSUME DispatchInv
  PROVE  /\ IsFiniteSet(holders) /\ Cardinality(holders) \in Nat
         /\ Cardinality(holders) <= Limit /\ Limit \in Nat \ {0}
         /\ holders \subseteq Msg
         /\ \A i \in DOMAIN waiters : waiters[i] \in Msg \ holders
         /\ waiters \in Seq(Msg)
<1>1. "waiting" \notin Inside
  BY DEF Inside, InGate
<1>2. waiters \in Seq(Msg)
  BY DEF DispatchInv, DispatchTypeOK
<1>3. \A i \in DOMAIN waiters : waiters[i] \in Msg
  BY <1>2
<1> QED
  BY <1>1, <1>2, <1>3, FS_CardinalityType, DispatchAssumption DEF DispatchInv, GateInv

LEMMA LeaveKeepsGate ==
  ASSUME DispatchInv, NEW m \in Msg, pc[m] \in InGate \cup {"acking"}, Leave(m)
  PROVE  GateInv'
<1>1. pc \in [Msg -> PC] /\ waiters \in Seq(Msg)
  BY DEF DispatchInv, DispatchTypeOK
<1>2. /\ "woken" \notin InGate /\ "waiting" \notin Inside /\ "done" \notin Inside
      /\ "acking" \notin Inside /\ InGate \subseteq Inside
  BY DEF InGate, Inside
<1> DEFINE left == holders \ {m}
<1>3. /\ IsFiniteSet(left)
      /\ Cardinality(left) = IF m \in holders THEN Cardinality(holders) - 1
                                              ELSE Cardinality(holders)
  BY HolderFacts, FS_RemoveElement
<1>4. m \in holders <=> pc[m] \in InGate
  BY <1>2 DEF DispatchInv, GateInv, Inside
<1>5. CASE m \in holders /\ waiters # <<>>
  <2> DEFINE h == Head(waiters)
  <2>1. holders' = left \cup {h} /\ waiters' = Tail(waiters)
        /\ pc' = [pc EXCEPT ![m] = "done", ![h] = "woken"]
    BY <1>5 DEF Leave
  <2>2. h = waiters[1] /\ 1 \in DOMAIN waiters
    BY <1>1, <1>5
  <2>3. h \in Msg \ holders /\ pc[h] = "waiting" /\ h # m
    BY <2>2, <1>5, HolderFacts DEF DispatchInv, GateInv
  <2>4. /\ Tail(waiters) \in Seq(Msg) /\ Len(Tail(waiters)) = Len(waiters) - 1
        /\ \A i \in DOMAIN Tail(waiters) : i + 1 \in DOMAIN waiters
                                           /\ Tail(waiters)[i] = waiters[i + 1]
    BY <1>1, <1>5, HeadTailProperties
  <2>5. IsFiniteSet(holders') /\ Cardinality(holders') = Cardinality(holders)
    <3>1. h \notin left /\ Cardinality(left) = Cardinality(holders) - 1
      BY <2>3, <1>3, <1>5
    <3>2. IsFiniteSet(left \cup {h}) /\ Cardinality(left \cup {h}) = Cardinality(left) + 1
      BY <3>1, <1>3, FS_AddElement
    <3> HIDE DEF left, h
    <3> QED
      BY <2>1, <3>1, <3>2, HolderFacts
  <2>6. /\ pc'[m] = "done" /\ pc'[h] = "woken"
        /\ \A x \in Msg : x # m /\ x # h => pc'[x] = pc[x]
    BY <2>1, <2>3, <1>1
  <2>7. holders' = {x \in Msg : pc'[x] \in Inside}
    BY <2>1, <2>3, <2>6, <1>2 DEF DispatchInv, GateInv, Inside
  <2>8. ASSUME NEW i \in DOMAIN waiters' PROVE pc'[waiters'[i]] = "waiting"
    <3>1. waiters'[i] = waiters[i + 1] /\ i + 1 \in DOMAIN waiters /\ i + 1 # 1
      BY <2>1, <2>4
    <3>2. waiters[i + 1] # h /\ waiters[i + 1] # m /\ pc[waiters[i + 1]] = "waiting"
          /\ waiters[i + 1] \in Msg
      BY <2>2, <3>1, <1>5, HolderFacts DEF DispatchInv, GateInv
    <3> QED
      BY <3>1, <3>2, <2>6
  <2>9. ASSUME NEW i \in DOMAIN waiters', NEW k \in DOMAIN waiters', waiters'[i] = waiters'[k]
        PROVE  i = k
    <3>1. /\ i + 1 \in DOMAIN waiters /\ waiters'[i] = waiters[i + 1]
          /\ k + 1 \in DOMAIN waiters /\ waiters'[k] = waiters[k + 1]
      BY <2>1, <2>4
    <3>2. i + 1 = k + 1
      BY <3>1, <2>9 DEF DispatchInv, GateInv
    <3>3. i \in Nat /\ k \in Nat
      BY <2>1, <2>4
    <3> QED
      BY <3>2, <3>3
  <2>10. Woken' # {}
    BY <2>3, <2>6 DEF Woken
  <2> QED
    BY <2>5, <2>7, <2>8, <2>9, <2>10, HolderFacts DEF GateInv
<1>6. CASE ~(m \in holders /\ waiters # <<>>)
  <2>1. holders' = left /\ waiters' = waiters /\ pc' = [pc EXCEPT ![m] = "done"]
    BY <1>6 DEF Leave, Goto
  <2>2. holders' = {x \in Msg : pc'[x] \in Inside}
    BY <2>1, <1>1, <1>2 DEF DispatchInv, GateInv
  <2>3. \A i \in DOMAIN waiters : pc'[waiters[i]] = "waiting"
    BY <2>1, <1>1, <1>2, HolderFacts DEF DispatchInv, GateInv, InGate
  <2>4. waiters # <<>> => Cardinality(holders') = Limit \/ Woken' # {}
    <3> SUFFICES ASSUME waiters # <<>> PROVE Cardinality(holders') = Limit \/ Woken' # {}
      OBVIOUS
    <3>1. m \notin holders /\ holders' = holders
      BY <1>6, <2>1
    <3>2. Woken' = Woken
      BY <2>1, <1>1, <3>1, <1>4 DEF Woken, InGate
    <3> QED
      BY <3>1, <3>2 DEF DispatchInv, GateInv
  <2>5. Cardinality(holders') <= Limit
    BY <2>1, <1>3, HolderFacts
  <2> QED
    BY <1>3, <2>1, <2>2, <2>3, <2>4, <2>5 DEF DispatchInv, GateInv
<1> QED
  BY <1>5, <1>6

LEMMA Within ==
  ASSUME NEW a \in Nat, NEW b \in Nat, a <= b PROVE 1 .. a \subseteq 1 .. b
OBVIOUS

(* What is left of a queue of b when a of it are let in.                   *)
LEMMA Rest ==
  ASSUME NEW a \in Nat, NEW b \in Nat, a <= b
  PROVE  /\ (IF a + 1 <= b THEN b - (a + 1) + 1 ELSE 0) = b - a
         /\ \A i \in 1 .. b - a : /\ i \in 1 .. b - (a + 1) + 1
                                /\ (a + 1) + i - 1 = i + a
                                /\ i + a \in 1 .. b /\ i \in Nat /\ i > 0
OBVIOUS

(* Everyone let in takes a slot of his own.                                *)
LEMMA LetInFacts ==
  ASSUME DispatchInv
  PROVE  /\ Admits \in Nat /\ Admits <= Len(waiters)
         /\ Admits = Len(waiters) \/ Cardinality(holders) + Admits = Limit
         /\ Cardinality(holders) + Admits <= Limit
         /\ LetIn \subseteq Msg \ holders
         /\ \A x \in LetIn : pc[x] = "waiting"
         /\ IsFiniteSet(holders \cup LetIn)
         /\ Cardinality(holders \cup LetIn) = Cardinality(holders) + Admits
<1>1. Len(waiters) \in Nat /\ DOMAIN waiters = 1 .. Len(waiters)
  BY HolderFacts
<1>2. /\ Admits \in Nat /\ Admits <= Len(waiters)
      /\ Admits = Len(waiters) \/ Cardinality(holders) + Admits = Limit
      /\ Cardinality(holders) + Admits <= Limit
  BY <1>1, HolderFacts DEF Admits
<1>3. 1 .. Admits \subseteq DOMAIN waiters
  <2>1. Admits \in Nat /\ Len(waiters) \in Nat /\ Admits <= Len(waiters)
    BY <1>1, <1>2
  <2> QED
    BY <1>1, <2>1, Within
<1>4. LetIn \subseteq Msg \ holders
  BY <1>3, HolderFacts DEF LetIn
<1>5. \A x \in LetIn : pc[x] = "waiting"
  BY <1>3 DEF LetIn, DispatchInv, GateInv
<1>6. IsFiniteSet(LetIn) /\ Cardinality(LetIn) = Admits
  <2> DEFINE f == [i \in 1 .. Admits |-> waiters[i]]
  <2>1. IsFiniteSet(1 .. Admits) /\ Cardinality(1 .. Admits) = Admits
    <3>1. 1 \in Int /\ Admits \in Int /\ (1 > Admits => Admits = 0) /\ Admits - 1 + 1 = Admits
      BY <1>2
    <3> QED
      BY <3>1, FS_Interval
  <2>2. f \in [1 .. Admits -> LetIn] /\ \A x \in LetIn : \E i \in 1 .. Admits : f[i] = x
    BY DEF LetIn
  <2>3. \A i, k \in 1 .. Admits : f[i] = f[k] => i = k
    BY <1>3 DEF DispatchInv, GateInv
  <2>4. f \in Surjection(1 .. Admits, LetIn) /\ f \in Injection(1 .. Admits, LetIn)
    BY <2>2, <2>3 DEF Surjection, Injection, IsInjective
  <2> HIDE DEF f
  <2> QED
    BY <2>1, <2>4, FS_Surjection
<1>7. holders \cap LetIn = {}
  BY <1>4
<1>8. /\ IsFiniteSet(holders \cup LetIn)
      /\ Cardinality(holders \cup LetIn)
           = Cardinality(holders) + Cardinality(LetIn) - Cardinality(holders \cap LetIn)
  BY <1>6, HolderFacts, FS_Union
<1>9. Cardinality(holders \cap LetIn) = 0
  BY <1>7, FS_EmptySet
<1>10. Cardinality(holders \cup LetIn) = Cardinality(holders) + Admits
  BY <1>2, <1>6, <1>8, <1>9, HolderFacts
<1> QED
  BY <1>2, <1>4, <1>5, <1>8, <1>10

LEMMA WakeUpKeepsGate ==
  ASSUME DispatchInv, NEW m \in Msg, pc[m] = "woken", WakeUp(m)
  PROVE  GateInv'
<1>1. pc \in [Msg -> PC] /\ waiters \in Seq(Msg) /\ Len(waiters) \in Nat
      /\ DOMAIN waiters = 1 .. Len(waiters)
  BY DEF DispatchInv, DispatchTypeOK
<1>2. "waiting" \notin Inside /\ "woken" \in Inside /\ "preparing" \in Inside
  BY DEF InGate, Inside
<1>3. /\ holders' = holders \cup LetIn
      /\ waiters' = SubSeq(waiters, Admits + 1, Len(waiters))
      /\ pc' = [x \in Msg |-> IF x = m THEN "preparing"
                              ELSE IF x \in LetIn THEN "woken" ELSE pc[x]]
  BY DEF WakeUp
<1>4. m \in holders /\ m \notin LetIn
  BY <1>2, LetInFacts DEF DispatchInv, GateInv
<1>5. IsFiniteSet(holders') /\ Cardinality(holders') <= Limit
  BY <1>3, LetInFacts
<1>6. holders' = {x \in Msg : pc'[x] \in Inside}
  BY <1>2, <1>3, <1>4, LetInFacts DEF DispatchInv, GateInv
<1>7. /\ Len(waiters') = Len(waiters) - Admits
      /\ waiters' \in Seq(Msg)
      /\ \A i \in DOMAIN waiters' : /\ i + Admits \in DOMAIN waiters /\ i \in Nat /\ i > 0
                                    /\ waiters'[i] = waiters[i + Admits]
  <2>1. \A i \in Admits + 1 .. Len(waiters) : waiters[i] \in Msg
    BY <1>1, LetInFacts
  <2>2. Admits + 1 \in Int /\ Len(waiters) \in Int /\ Admits \in Nat /\ Admits <= Len(waiters)
    BY <1>1, LetInFacts
  <2>3. /\ waiters' \in Seq(Msg)
        /\ Len(waiters') = IF Admits + 1 <= Len(waiters)
                             THEN Len(waiters) - (Admits + 1) + 1 ELSE 0
        /\ \A i \in 1 .. Len(waiters) - (Admits + 1) + 1 :
             waiters'[i] = waiters[(Admits + 1) + i - 1]
    BY <2>1, <2>2, <1>3, SubSeqProperties
  <2>4. Len(waiters') = Len(waiters) - Admits
    BY <2>2, <2>3, <1>1, Rest
  <2>5. DOMAIN waiters' = 1 .. Len(waiters')
    BY <2>3
  <2>6. ASSUME NEW i \in DOMAIN waiters'
        PROVE  /\ i + Admits \in DOMAIN waiters /\ i \in Nat /\ i > 0
               /\ waiters'[i] = waiters[i + Admits]
    <3>1. /\ i \in 1 .. Len(waiters) - (Admits + 1) + 1 /\ (Admits + 1) + i - 1 = i + Admits
          /\ i + Admits \in 1 .. Len(waiters) /\ i \in Nat /\ i > 0
      BY <2>2, <2>4, <2>5, <1>1, Rest
    <3> QED
      BY <3>1, <2>2, <2>3, <1>1
  <2> QED
    BY <2>3, <2>4, <2>6
<1>8. \A x \in Msg : x # m /\ x \notin LetIn => pc'[x] = pc[x]
  BY <1>3
<1>9. ASSUME NEW i \in DOMAIN waiters' PROVE pc'[waiters'[i]] = "waiting"
  <2> DEFINE x == waiters[i + Admits]
  <2>1. x \in Msg \ holders /\ pc[x] = "waiting" /\ x # m
    BY <1>4, <1>7, HolderFacts DEF DispatchInv, GateInv
  <2>2. x \notin LetIn
    <3> SUFFICES ASSUME NEW k \in 1 .. Admits, x = waiters[k] PROVE FALSE
      BY DEF LetIn
    <3>1. k \in DOMAIN waiters /\ k # i + Admits
      BY <1>1, <1>7, LetInFacts
    <3> QED
      BY <3>1, <1>7 DEF DispatchInv, GateInv
  <2> QED
    BY <2>1, <2>2, <1>7, <1>8
<1>10. ASSUME NEW i \in DOMAIN waiters', NEW k \in DOMAIN waiters', waiters'[i] = waiters'[k]
       PROVE  i = k
  <2>1. i + Admits = k + Admits
    BY <1>7, <1>10 DEF DispatchInv, GateInv
  <2> QED
    BY <2>1, <1>7, LetInFacts
<1>11. waiters' # <<>> => Cardinality(holders') = Limit
  <2> SUFFICES ASSUME waiters' # <<>> PROVE Cardinality(holders') = Limit
    OBVIOUS
  <2>1. Len(waiters') # 0
    BY <1>7
  <2>2. Admits # Len(waiters)
    BY <1>1, <1>7, <2>1
  <2> QED
    BY <2>2, <1>3, LetInFacts
<1> QED
  BY <1>5, <1>6, <1>9, <1>10, <1>11 DEF GateInv

(* Who finds the gate locked goes to the back of the queue; who does not   *)
(* takes a slot that is free, and nobody is waiting.                       *)
LEMMA AckKeepsGate ==
  ASSUME DispatchInv, NEW m \in Msg, AckSent(m)
  PROVE  GateInv'
<1>1. pc \in [Msg -> PC] /\ waiters \in Seq(Msg) /\ Len(waiters) \in Nat
      /\ DOMAIN waiters = 1 .. Len(waiters)
  BY DEF DispatchInv, DispatchTypeOK
<1>2. "waiting" \notin Inside /\ "acking" \notin Inside /\ "preparing" \in Inside
  BY DEF InGate, Inside
<1>3. pc[m] = "acking" /\ m \notin holders
  BY <1>2 DEF AckSent, DispatchInv, GateInv
<1>4. CASE Locked
  <2>1. waiters' = Append(waiters, m) /\ pc' = [pc EXCEPT ![m] = "waiting"]
        /\ holders' = holders
    BY <1>4 DEF AckSent, Goto
  <2>2. /\ Len(waiters') = Len(waiters) + 1 /\ waiters' \in Seq(Msg)
        /\ \A i \in 1 .. Len(waiters) : waiters'[i] = waiters[i]
        /\ waiters'[Len(waiters) + 1] = m
    BY <2>1, <1>1, AppendProperties
  <2>3. DOMAIN waiters' = 1 .. Len(waiters) + 1
    BY <2>2
  <2>4. \A i \in DOMAIN waiters' :
          i = Len(waiters) + 1 \/ (i \in DOMAIN waiters /\ waiters'[i] = waiters[i])
    BY <2>2, <2>3, <1>1
  <2>5. \A i \in DOMAIN waiters : pc[waiters[i]] = "waiting" /\ waiters[i] \in Msg \ {m}
    BY <1>3, HolderFacts DEF DispatchInv, GateInv
  <2>6. \A i \in DOMAIN waiters' : pc'[waiters'[i]] = "waiting"
    BY <2>1, <2>2, <2>4, <2>5, <1>1
  <2>7. \A i, k \in DOMAIN waiters' : waiters'[i] = waiters'[k] => i = k
    BY <2>2, <2>4, <2>5 DEF DispatchInv, GateInv
  <2>8. holders' = {x \in Msg : pc'[x] \in Inside}
    BY <2>1, <1>1, <1>2, <1>3 DEF DispatchInv, GateInv
  <2>9. Woken' = Woken
    BY <2>1, <1>1, <1>3 DEF Woken
  <2>10. Cardinality(holders) = Limit \/ Woken # {}
    BY <1>4 DEF Locked, DispatchInv, GateInv
  <2> QED
    BY <2>1, <2>6, <2>7, <2>8, <2>9, <2>10 DEF DispatchInv, GateInv
<1>5. CASE ~Locked
  <2>1. waiters' = waiters /\ pc' = [pc EXCEPT ![m] = "preparing"] /\ holders' = holders \cup {m}
    BY <1>5 DEF AckSent, Goto
  <2>2. waiters = <<>> /\ Cardinality(holders) # Limit
    BY <1>5 DEF Locked
  <2>3. IsFiniteSet(holders') /\ Cardinality(holders') = Cardinality(holders) + 1
    BY <2>1, <1>3, HolderFacts, FS_AddElement
  <2>4. Cardinality(holders') <= Limit
    BY <2>2, <2>3, HolderFacts
  <2>5. holders' = {x \in Msg : pc'[x] \in Inside}
    BY <2>1, <1>1, <1>2 DEF DispatchInv, GateInv
  <2> QED
    BY <2>1, <2>2, <2>3, <2>4, <2>5 DEF GateInv
<1> QED
  BY <1>4, <1>5

-----------------------------------------------------------------------------
(* Types.                                                                  *)

LEMMA Beyond ==
  ASSUME NEW a \in Nat, NEW b \in Nat PROVE a + 1 .. b \subseteq 1 .. b
OBVIOUS

(* A message that resumes something resumes a session; it is in a channel. *)
LEMMA ResolveTypes ==
  ASSUME DispatchInv, NEW m \in Msg, pc[m] \in PC \ {"new"}, Resolve(m)
  PROVE  resume' \in [Msg -> Session \cup {None}]
<1>1. chan[m] \in Channel
  BY DEF DispatchInv, ChainInv
<1> QED
  BY <1>1 DEF Resolve, DispatchInv, DispatchTypeOK

LEMMA QueueTypes ==
  ASSUME DispatchInv, NEW m \in Msg
  PROVE  /\ Append(waiters, m) \in Seq(Msg)
         /\ SubSeq(waiters, Admits + 1, Len(waiters)) \in Seq(Msg)
         /\ waiters # <<>> => Head(waiters) \in Msg /\ Tail(waiters) \in Seq(Msg)
<1>1. waiters \in Seq(Msg)
  BY HolderFacts
<1>2. Append(waiters, m) \in Seq(Msg)
  BY <1>1, AppendProperties
<1>3. waiters # <<>> => Head(waiters) \in Msg /\ Tail(waiters) \in Seq(Msg)
  BY <1>1, HeadTailProperties
<1>4. SubSeq(waiters, Admits + 1, Len(waiters)) \in Seq(Msg)
  <2>1. Admits + 1 \in Int /\ Len(waiters) \in Int
    BY <1>1, LetInFacts
  <2>2. \A i \in Admits + 1 .. Len(waiters) : waiters[i] \in Msg
    <3>1. \A i \in Admits + 1 .. Len(waiters) : i \in 1 .. Len(waiters)
      BY <2>1, LetInFacts, Beyond
    <3> QED
      BY <3>1, <1>1
  <2> QED
    BY <2>1, <2>2, SubSeqProperties
<1> QED
  BY <1>2, <1>3, <1>4

LEMMA LeaveTypes ==
  ASSUME DispatchInv, NEW m \in Msg, Leave(m)
  PROVE  /\ pc' \in [Msg -> PC] /\ holders' \subseteq Msg
         /\ waiters' \in Seq(Msg) /\ pending' \in Nat
<1>1. pc \in [Msg -> PC] /\ holders \subseteq Msg /\ waiters \in Seq(Msg) /\ pending \in Nat
  BY DEF DispatchInv, DispatchTypeOK
<1>2. "done" \in PC /\ "woken" \in PC
  BY DEF PC
<1>3. pending' \in Nat
  BY <1>1 DEF Leave
<1>4. CASE m \in holders /\ waiters # <<>>
  BY <1>1, <1>2, <1>3, <1>4, QueueTypes DEF Leave
<1>5. CASE ~(m \in holders /\ waiters # <<>>)
  BY <1>1, <1>2, <1>3, <1>5 DEF Leave, Goto
<1> QED
  BY <1>4, <1>5

LEMMA TypeStep == DispatchInv /\ [DispatchNext]_dispatchVars => DispatchTypeOK'
<1> SUFFICES ASSUME DispatchInv, [DispatchNext]_dispatchVars PROVE DispatchTypeOK'
  OBVIOUS
<1>0. DispatchTypeOK
  BY DEF DispatchInv
<1> USE DEF headVars, gateVars, turnVars
<1>1. ASSUME NEW m \in Msg, NEW c \in Channel, NEW s \in Session \cup {None}, Arrive(m, c, s)
      PROVE  DispatchTypeOK'
  BY <1>0, <1>1 DEF Arrive, Goto, DispatchTypeOK, PC
<1>2. ASSUME NEW m \in Msg, MsgStep(m) PROVE DispatchTypeOK'
  <2>1. CASE Allocated(m)
    <3>1. pending' \in Nat /\ queued' \in [Msg -> BOOLEAN]
      BY <1>0, <2>1 DEF Allocated, DispatchTypeOK, Locked
    <3> QED
      BY <1>0, <2>1, <3>1 DEF Allocated, Goto, DispatchTypeOK, PC
  <2>2. CASE AllocationFails(m)
    BY <1>0, <2>2 DEF AllocationFails, Goto, DispatchTypeOK, PC
  <2>3. CASE AckSent(m)
    <3>1. shown' \in [Msg -> {"nothing", "queued", "working"}]
      BY <1>0, <2>3 DEF AckSent, DispatchTypeOK
    <3>2. CASE Locked
      BY ZenonT(30), <1>0, <2>3, <3>1, <3>2, QueueTypes DEF AckSent, Goto, DispatchTypeOK, PC
    <3>3. CASE ~Locked
      BY <1>0, <2>3, <3>1, <3>3, ResolveTypes DEF AckSent, Goto, DispatchTypeOK, PC, InGate
    <3> QED
      BY <3>2, <3>3
  <2>4. CASE AckFails(m)
    BY <1>0, <2>4, LeaveTypes DEF AckFails, DispatchTypeOK
  <2>5. CASE Admitted(m)
    <3>1. /\ holders' \subseteq Msg /\ waiters' \in Seq(Msg)
          /\ pc' \in [Msg -> PC]
      <4>1. {"preparing", "woken"} \subseteq PC
        BY DEF PC, InGate
      <4> QED
        BY <1>0, <2>5, <4>1, LetInFacts, QueueTypes DEF Admitted, WakeUp, DispatchTypeOK
    <3>2. resume' \in [Msg -> Session \cup {None}]
      BY <2>5, ResolveTypes DEF Admitted, PC
    <3> QED
      BY <1>0, <2>5, <3>1, <3>2 DEF Admitted, DispatchTypeOK
  <2>6. CASE Prepared(m)
    BY <1>0, <2>6 DEF Prepared, Goto, DispatchTypeOK, PC, InGate
  <2>7. CASE WorkdirGone(m)
    BY <1>0, <2>7 DEF WorkdirGone, Remember, DispatchTypeOK
  <2>8. CASE Refused(m)
    BY <1>0, <2>8 DEF Refused, Goto, DispatchTypeOK, PC, InGate
  <2>9. CASE Relabelled(m)
    BY <1>0, <2>9 DEF Relabelled, Goto, DispatchTypeOK, PC, InGate
  <2>10. CASE RunIsStale(m)
    BY <1>0, <2>10 DEF RunIsStale, Remember, DispatchTypeOK
  <2>11. CASE RunEnds(m)
    <3>1. PICK s \in {resume[m], None} \cup (Session \ used) :
            got' = [got EXCEPT ![m] = s] /\ used' = used \cup ({s} \ {None})
      BY <2>11 DEF RunEnds
    <3>2. s \in Session \cup {None}
      BY <1>0, <3>1 DEF DispatchTypeOK
    <3>3. got' \in [Msg -> Session \cup {None}] /\ used' \subseteq Session
      BY <1>0, <3>1, <3>2 DEF DispatchTypeOK
    <3> QED
      BY <1>0, <2>11, <3>3 DEF RunEnds, Goto, DispatchTypeOK, PC, InGate
  <2>12. CASE RunAborts(m)
    BY <1>0, <2>12 DEF RunAborts, Goto, DispatchTypeOK, PC, InGate
  <2>13. CASE Settled(m)
    BY <1>0, <2>13 DEF Settled, Remember, Goto, DispatchTypeOK, PC, InGate
  <2>14. CASE Delivered(m)
    BY <1>0, <2>14, LeaveTypes DEF Delivered, DispatchTypeOK
  <2> QED
    BY <1>2, <2>1, <2>2, <2>3, <2>4, <2>5, <2>6, <2>7, <2>8, <2>9, <2>10, <2>11, <2>12,
       <2>13, <2>14 DEF MsgStep
<1>3. ASSUME NEW c \in Channel, Clear(c) PROVE DispatchTypeOK'
  BY <1>0, <1>3 DEF Clear, Remember, DispatchTypeOK
<1>4. CASE ShutdownBegins
  BY <1>0, <1>4 DEF ShutdownBegins, DispatchTypeOK
<1>5. CASE ShutdownEnds
  BY <1>0, <1>5 DEF ShutdownEnds, DispatchTypeOK
<1>6. CASE UNCHANGED dispatchVars
  BY <1>0, <1>6 DEF dispatchVars, DispatchTypeOK
<1> QED
  BY <1>1, <1>2, <1>3, <1>4, <1>5, <1>6 DEF DispatchNext

-----------------------------------------------------------------------------
(* The gate and the backlog, step by step.                                 *)

LEMMA GateStep == DispatchInv /\ [DispatchNext]_dispatchVars => GateInv'
<1> SUFFICES ASSUME DispatchInv, [DispatchNext]_dispatchVars PROVE GateInv'
  OBVIOUS
<1> USE DEF headVars, gateVars, turnVars
<1> DEFINE Outside == {"new", "allocating", "acking", "done"}
<1>0. /\ InGate \subseteq PC /\ Outside \subseteq PC
      /\ \A x \in Outside : x \notin Inside \cup {"waiting"}
  BY DEF PC, InGate, Inside
<1>1. ASSUME NEW m \in Msg, NEW c \in Channel, NEW s \in Session \cup {None}, Arrive(m, c, s)
      PROVE  GateInv'
  BY <1>0, <1>1, GateAside DEF Arrive
<1>2. ASSUME NEW m \in Msg, MsgStep(m) PROVE GateInv'
  <2>1. CASE Allocated(m) \/ AllocationFails(m)
    BY <1>0, <2>1, GateAside DEF Allocated, AllocationFails
  <2>2. CASE AckSent(m)
    BY <2>2, AckKeepsGate
  <2>3. CASE AckFails(m) \/ Delivered(m)
    BY <2>3, LeaveKeepsGate DEF AckFails, Delivered, InGate
  <2>4. CASE Admitted(m)
    BY <2>4, WakeUpKeepsGate DEF Admitted
  <2>5. CASE Prepared(m)
    <3> DEFINE label == IF queued[m] THEN "relabelling" ELSE "running"
    <3>1. pc[m] \in InGate /\ label \in InGate /\ Goto(m, label)
          /\ UNCHANGED <<holders, waiters>>
      BY <2>5 DEF Prepared, InGate
    <3> HIDE DEF label
    <3> QED
      BY <1>0, <3>1, GateAside
  <2>6. CASE Refused(m) \/ RunAborts(m)
    <3>1. pc[m] \in InGate /\ "excusing" \in InGate
      BY <2>6 DEF Refused, RunAborts, InGate
    <3> QED
      BY <1>0, <2>6, <3>1, GateAside DEF Refused, RunAborts
  <2>7. CASE Relabelled(m)
    <3>1. pc[m] \in InGate /\ "running" \in InGate
      BY <2>7 DEF Relabelled, InGate
    <3> QED
      BY <1>0, <2>7, <3>1, GateAside DEF Relabelled
  <2>8. CASE RunEnds(m)
    <3>1. pc[m] \in InGate /\ "settling" \in InGate
      BY <2>8 DEF RunEnds, InGate
    <3> QED
      BY <1>0, <2>8, <3>1, GateAside DEF RunEnds
  <2>9. CASE Settled(m)
    <3>1. pc[m] \in InGate /\ "delivering" \in InGate
      BY <2>9 DEF Settled, InGate
    <3> QED
      BY <1>0, <2>9, <3>1, GateAside DEF Settled
  <2>10. CASE WorkdirGone(m) \/ RunIsStale(m)
    BY <2>10, GateStays DEF WorkdirGone, RunIsStale
  <2> QED
    BY <1>2, <2>1, <2>2, <2>3, <2>4, <2>5, <2>6, <2>7, <2>8, <2>9, <2>10 DEF MsgStep
<1>3. CASE (\E c \in Channel : Clear(c)) \/ ShutdownBegins \/ ShutdownEnds
           \/ UNCHANGED dispatchVars
  BY <1>3, GateStays DEF Clear, ShutdownBegins, ShutdownEnds, dispatchVars
<1> QED
  BY <1>1, <1>2, <1>3 DEF DispatchNext

Counted == PC \ {"new", "allocating", "done"}

LEMMA BacklogStays ==
  ASSUME DispatchInv, pending' = pending,
         \A x \in Msg : pc'[x] \in Counted <=> pc[x] \in Counted, DispatchTypeOK'
  PROVE  BacklogInv'
<1>1. \A x \in Msg : pc[x] \in PC /\ pc'[x] \in PC
  BY DEF DispatchInv, DispatchTypeOK
<1>2. Backlog' = Backlog
  BY <1>1 DEF Backlog, Counted
<1> QED
  BY <1>2 DEF DispatchInv, BacklogInv

LEMMA LeaveKeepsBacklog ==
  ASSUME DispatchInv, NEW m \in Msg, pc[m] \in InGate \cup {"acking"}, Leave(m)
  PROVE  BacklogInv'
<1>1. pc \in [Msg -> PC] /\ IsFiniteSet(Backlog) /\ pending = Cardinality(Backlog)
  BY DEF DispatchInv, DispatchTypeOK, BacklogInv
<1>2. m \in Backlog
  BY DEF Backlog, InGate
<1>3. /\ IsFiniteSet(Backlog \ {m}) /\ Cardinality(Backlog \ {m}) = Cardinality(Backlog) - 1
      /\ Cardinality(Backlog) \in Nat /\ Cardinality(Backlog \ {m}) \in Nat
  BY <1>1, <1>2, FS_RemoveElement, FS_CardinalityType
<1>4. pending' = pending - 1
  BY <1>1, <1>3 DEF Leave
<1>5. Backlog' = Backlog \ {m}
  <2>1. CASE m \in holders /\ waiters # <<>>
    <3> DEFINE h == Head(waiters)
    <3>1. pc' = [pc EXCEPT ![m] = "done", ![h] = "woken"]
      BY <2>1 DEF Leave
    <3>2. h = waiters[1] /\ 1 \in DOMAIN waiters
      BY <2>1, HolderFacts
    <3>3. h \in Msg /\ h # m /\ pc[h] = "waiting"
      BY <3>2, <2>1, HolderFacts DEF DispatchInv, GateInv
    <3>4. /\ pc'[m] = "done" /\ pc'[h] = "woken"
          /\ \A x \in Msg : x # m /\ x # h => pc'[x] = pc[x]
      BY <3>1, <3>3, <1>1
    <3> QED
      BY <3>3, <3>4 DEF Backlog
  <2>2. CASE ~(m \in holders /\ waiters # <<>>)
    BY <2>2, <1>1 DEF Leave, Goto, Backlog
  <2> QED
    BY <2>1, <2>2
<1> QED
  BY <1>1, <1>3, <1>4, <1>5 DEF BacklogInv

LEMMA BacklogStep == DispatchInv /\ [DispatchNext]_dispatchVars => BacklogInv'
<1> SUFFICES ASSUME DispatchInv, [DispatchNext]_dispatchVars PROVE BacklogInv'
  OBVIOUS
<1> USE DEF headVars, gateVars, turnVars
<1>0. pc \in [Msg -> PC] /\ DispatchTypeOK'
  BY TypeStep DEF DispatchInv, DispatchTypeOK
<1>1. ASSUME NEW m \in Msg, NEW c \in Channel, NEW s \in Session \cup {None}, Arrive(m, c, s)
      PROVE  BacklogInv'
  BY <1>0, <1>1, BacklogStays DEF Arrive, Goto, Counted
<1>2. ASSUME NEW m \in Msg, MsgStep(m) PROVE BacklogInv'
  <2>1. CASE Allocated(m)
    <3>1. IsFiniteSet(Backlog) /\ pending = Cardinality(Backlog) /\ m \notin Backlog
      BY <2>1 DEF DispatchInv, BacklogInv, Allocated, Backlog
    <3>2. IsFiniteSet(Backlog \cup {m})
          /\ Cardinality(Backlog \cup {m}) = Cardinality(Backlog) + 1
      BY <3>1, FS_AddElement
    <3>3. Backlog' = Backlog \cup {m} /\ pending' = pending + 1
      BY <1>0, <2>1 DEF Allocated, Goto, Backlog
    <3> QED
      BY <3>1, <3>2, <3>3 DEF BacklogInv
  <2>2. CASE AllocationFails(m)
    BY <1>0, <2>2, BacklogStays DEF AllocationFails, Goto, Counted
  <2>3. CASE AckSent(m)
    <3>1. \E label \in {"waiting", "preparing"} : pc' = [pc EXCEPT ![m] = label]
      BY <2>3 DEF AckSent, Goto
    <3>2. pc[m] = "acking" /\ pending' = pending
      BY <2>3 DEF AckSent
    <3> QED
      BY <1>0, <3>1, <3>2, BacklogStays DEF Counted, PC, InGate
  <2>4. CASE AckFails(m) \/ Delivered(m)
    BY <2>4, LeaveKeepsBacklog DEF AckFails, Delivered, InGate
  <2>5. CASE Admitted(m)
    <3>1. /\ pc' = [x \in Msg |-> IF x = m THEN "preparing"
                                  ELSE IF x \in LetIn THEN "woken" ELSE pc[x]]
          /\ pc[m] = "woken" /\ pending' = pending
      BY <2>5 DEF Admitted, WakeUp
    <3>2. {"woken", "waiting", "preparing"} \subseteq Counted
      BY DEF Counted, PC, InGate
    <3>3. ASSUME NEW x \in Msg PROVE pc'[x] \in Counted <=> pc[x] \in Counted
      BY <3>1, <3>2, LetInFacts
    <3> QED
      BY <1>0, <3>1, <3>3, BacklogStays
  <2>6. CASE Prepared(m) \/ Refused(m) \/ Relabelled(m) \/ RunEnds(m) \/ RunAborts(m) \/ Settled(m)
    <3>1. \E label \in InGate : pc' = [pc EXCEPT ![m] = label]
      BY <2>6 DEF Prepared, Refused, Relabelled, RunEnds, RunAborts, Settled, Goto, InGate
    <3>2. pc[m] \in InGate /\ pending' = pending
      BY <2>6 DEF Prepared, Refused, Relabelled, RunEnds, RunAborts, Settled, InGate
    <3>3. InGate \subseteq Counted
      BY DEF Counted, PC, InGate
    <3> QED
      BY <1>0, <3>1, <3>2, <3>3, BacklogStays
  <2>7. CASE WorkdirGone(m) \/ RunIsStale(m)
    BY <1>0, <2>7, BacklogStays DEF WorkdirGone, RunIsStale
  <2> QED
    BY <1>2, <2>1, <2>2, <2>3, <2>4, <2>5, <2>6, <2>7 DEF MsgStep
<1>3. CASE (\E c \in Channel : Clear(c)) \/ ShutdownBegins \/ ShutdownEnds
           \/ UNCHANGED dispatchVars
  BY <1>0, <1>3, BacklogStays DEF Clear, ShutdownBegins, ShutdownEnds, dispatchVars
<1> QED
  BY <1>1, <1>2, <1>3 DEF DispatchNext

-----------------------------------------------------------------------------
(* The chain of turns.                                                     *)

(* One slot: whoever is inside is there alone.                             *)
LEMMA InsideAlone ==
  ASSUME DispatchInv, Limit = 1, NEW m \in Msg, pc[m] \in Inside, NEW n \in Msg, pc[n] \in Inside
  PROVE  m = n
<1>1. m \in holders /\ n \in holders
  BY DEF DispatchInv, GateInv
<1>2. Cardinality(holders) # 0
  BY <1>1, HolderFacts, FS_EmptySet
<1>3. Cardinality(holders) = 1
  BY <1>2, HolderFacts
<1>4. \E x : holders = {x}
  BY <1>3, HolderFacts, FS_Singleton
<1> QED
  BY <1>1, <1>4

Bound == InGate \ {"delivering", "excusing"}

(* A step of one message that keeps what it resumes and what is stored.    *)
LEMMA ChainAside ==
  ASSUME DispatchInv, NEW m \in Msg, UNCHANGED <<resume, sess, chan, explicit>>,
         \A x \in Msg \ {m} : pc'[x] \in {pc[x], "woken"},
         pc[m] \in InGate => pc'[m] \in InGate \cup {"done"},
         pc'[m] \in Bound => pc[m] \in Bound,
         \A x \in Msg : pc[x] # pc'[x] => pc'[x] # "woken" \/ pc[x] = "waiting",
         pc[m] \notin {"new", "done"}
  PROVE  ChainInv'
<1>1. "woken" \notin Bound /\ "waiting" \notin InGate
  BY DEF Bound, InGate
<1>2. ASSUME NEW x \in Msg, resume'[x] # None PROVE pc'[x] \in InGate \cup {"done"}
  BY <1>1, <1>2 DEF DispatchInv, ChainInv
<1>3. \A x \in Msg : pc'[x] # "new" => chan'[x] \in Channel
  BY DEF DispatchInv, ChainInv
<1>4. TurnsChain'
  BY <1>1 DEF DispatchInv, ChainInv, TurnsChain, Bound
<1> QED
  BY <1>2, <1>3, <1>4 DEF ChainInv

(* Taking a slot: the turn resumes what its channel has now.               *)
LEMMA ChainResolved ==
  ASSUME DispatchInv, NEW m \in Msg, Resolve(m), UNCHANGED <<sess, chan, explicit>>,
         pc[m] # "new", pc'[m] = "preparing",
         \A x \in Msg \ {m} : pc'[x] = pc[x] \/ (pc[x] = "waiting" /\ pc'[x] = "woken")
  PROVE  ChainInv'
<1>1. /\ "woken" \notin Bound /\ "waiting" \notin InGate \cup {"done"} /\ "preparing" \in InGate
      /\ Bound \subseteq InGate
  BY DEF Bound, InGate
<1>2. /\ \A x \in Msg \ {m} : resume'[x] = resume[x]
      /\ explicit[m] = None => resume'[m] = sess[chan[m]]
  BY DEF Resolve, DispatchInv, DispatchTypeOK
<1>3. \A x \in Msg : resume'[x] # None => pc'[x] \in InGate \cup {"done"}
  BY <1>1, <1>2 DEF DispatchInv, ChainInv
<1>4. \A x \in Msg : pc'[x] # "new" => chan'[x] \in Channel
  BY DEF DispatchInv, ChainInv
<1>5. TurnsChain'
  BY <1>1, <1>2 DEF DispatchInv, ChainInv, TurnsChain, Bound
<1> QED
  BY <1>3, <1>4, <1>5 DEF ChainInv

(* Recovery: the channel forgets its session, and so does the turn.        *)
LEMMA ChainForgets ==
  ASSUME DispatchInv, NEW m \in Msg, pc[m] # "new", UNCHANGED <<pc, chan, explicit>>,
         Remember(chan[m], None), resume' = [resume EXCEPT ![m] = None]
  PROVE  ChainInv'
<1>1. /\ sess' = [sess EXCEPT ![chan[m]] = None]
      /\ sess \in [Channel -> Session \cup {None}] /\ resume \in [Msg -> Session \cup {None}]
  BY DEF Remember, DispatchInv, DispatchTypeOK
<1>2. \A x \in Msg : pc[x] # "new" => chan[x] \in Channel
  BY DEF DispatchInv, ChainInv
<1>3. \A x \in Msg : resume'[x] # None => resume[x] # None /\ resume'[x] = resume[x]
  BY <1>1
<1>4. TurnsChain'
  <2> SUFFICES ASSUME Limit = 1, NEW x \in Msg, pc[x] \in Bound, explicit[x] = None
               PROVE  sess'[chan[x]] \in {resume'[x], None}
    BY DEF TurnsChain, Bound
  <2>1. sess[chan[x]] \in {resume[x], None} /\ chan[x] \in Channel
    BY <1>2 DEF DispatchInv, ChainInv, TurnsChain, Bound, InGate
  <2>2. CASE chan[x] = chan[m]
    BY <1>1, <2>1, <2>2
  <2>3. CASE chan[x] # chan[m]
    BY <1>1, <2>1, <2>3
  <2> QED
    BY <2>2, <2>3
<1> QED
  BY <1>2, <1>3, <1>4 DEF DispatchInv, ChainInv

(* Storing the session of an answer: nobody else is inside to be misled.   *)
LEMMA ChainStores ==
  ASSUME DispatchInv, NEW m \in Msg, Settled(m)
  PROVE  ChainInv'
<1>1. /\ pc \in [Msg -> PC] /\ pc[m] = "settling" /\ pc' = [pc EXCEPT ![m] = "delivering"]
      /\ UNCHANGED <<chan, explicit, resume>>
  BY DEF Settled, Goto, headVars, DispatchInv, DispatchTypeOK
<1>2. Bound \subseteq Inside /\ "settling" \in Inside /\ "delivering" \notin Bound
      /\ "delivering" \in InGate
  BY DEF Bound, Inside, InGate
<1>3. TurnsChain'
  <2> SUFFICES ASSUME Limit = 1, NEW x \in Msg, pc'[x] \in Bound, explicit[x] = None
               PROVE  sess'[chan[x]] \in {resume[x], None}
    BY <1>1 DEF TurnsChain, Bound
  <2>1. x # m /\ pc[x] \in Inside
    BY <1>1, <1>2
  <2> QED
    BY <2>1, <1>1, <1>2, InsideAlone
<1>4. \A x \in Msg : resume'[x] # None => pc'[x] \in InGate \cup {"done"}
  BY <1>1, <1>2 DEF DispatchInv, ChainInv
<1>5. \A x \in Msg : pc'[x] # "new" => chan'[x] \in Channel
  BY <1>1 DEF DispatchInv, ChainInv
<1> QED
  BY <1>3, <1>4, <1>5 DEF ChainInv

LEMMA ChainStep == DispatchInv /\ [DispatchNext]_dispatchVars => ChainInv'
<1> SUFFICES ASSUME DispatchInv, [DispatchNext]_dispatchVars PROVE ChainInv'
  OBVIOUS
<1> USE DEF headVars, gateVars, turnVars
<1>0. /\ pc \in [Msg -> PC] /\ sess \in [Channel -> Session \cup {None}]
      /\ chan \in [Msg -> Channel \cup {None}]
      /\ explicit \in [Msg -> Session \cup {None}]
  BY DEF DispatchInv, DispatchTypeOK
<1>1. ASSUME NEW m \in Msg, NEW c \in Channel, NEW s \in Session \cup {None}, Arrive(m, c, s)
      PROVE  ChainInv'
  <2>1. /\ pc[m] = "new" /\ pc' = [pc EXCEPT ![m] = "allocating"] /\ chan' = [chan EXCEPT ![m] = c]
        /\ explicit' = [explicit EXCEPT ![m] = s] /\ UNCHANGED <<resume, sess>>
    BY <1>1 DEF Arrive, Goto
  <2>2. {"new", "allocating"} \cap (InGate \cup {"done"}) = {}
    BY DEF InGate
  <2>3. /\ pc'[m] = "allocating" /\ chan'[m] = c
        /\ \A x \in Msg \ {m} : pc'[x] = pc[x] /\ chan'[x] = chan[x] /\ explicit'[x] = explicit[x]
    BY <2>1, <1>0
  <2>4. TurnsChain'
    BY <2>1, <2>2, <2>3 DEF DispatchInv, ChainInv, TurnsChain
  <2>5. \A x \in Msg : resume'[x] # None => pc'[x] \in InGate \cup {"done"}
    BY <2>1, <2>2, <2>3 DEF DispatchInv, ChainInv
  <2> QED
    BY <2>3, <2>4, <2>5 DEF DispatchInv, ChainInv
<1>2. ASSUME NEW m \in Msg, MsgStep(m) PROVE ChainInv'
  <2>1. CASE Allocated(m) \/ AllocationFails(m)
    <3>1. \E label \in {"acking", "done"} : pc' = [pc EXCEPT ![m] = label]
      BY <2>1 DEF Allocated, AllocationFails, Goto
    <3>2. pc[m] = "allocating" /\ UNCHANGED <<resume, sess, chan, explicit>>
      BY <2>1 DEF Allocated, AllocationFails
    <3> QED
      BY <1>0, <3>1, <3>2, ChainAside DEF Bound, InGate
  <2>2. CASE AckSent(m)
    <3>1. pc[m] = "acking" /\ UNCHANGED <<sess, chan, explicit>>
      BY <2>2 DEF AckSent
    <3>2. CASE Locked
      <4>1. pc' = [pc EXCEPT ![m] = "waiting"] /\ resume' = resume
        BY <2>2, <3>2 DEF AckSent, Goto
      <4> QED
        BY <1>0, <3>1, <4>1, ChainAside DEF Bound, InGate
    <3>3. CASE ~Locked
      <4>1. pc' = [pc EXCEPT ![m] = "preparing"] /\ Resolve(m)
        BY <2>2, <3>3 DEF AckSent, Goto
      <4> QED
        BY <1>0, <3>1, <4>1, ChainResolved
    <3> QED
      BY <3>2, <3>3
  <2>3. CASE AckFails(m) \/ Delivered(m)
    <3>1. /\ pc[m] \in InGate \cup {"acking"} /\ Leave(m) /\ pc[m] # "new" /\ pc[m] # "done"
          /\ UNCHANGED <<resume, sess, chan, explicit>>
      BY <2>3 DEF AckFails, Delivered, InGate
    <3>2. /\ pc'[m] = "done"
          /\ \A x \in Msg \ {m} : pc'[x] = pc[x] \/ (pc[x] = "waiting" /\ pc'[x] = "woken")
      <4>1. CASE m \in holders /\ waiters # <<>>
        <5> DEFINE h == Head(waiters)
        <5>1. pc' = [pc EXCEPT ![m] = "done", ![h] = "woken"]
          BY <3>1, <4>1 DEF Leave
        <5>2. h = waiters[1] /\ 1 \in DOMAIN waiters
          BY <4>1, HolderFacts
        <5>3. h \in Msg /\ h # m /\ pc[h] = "waiting"
          BY <5>2, <4>1, HolderFacts DEF DispatchInv, GateInv
        <5> QED
          BY <5>1, <5>3, <1>0
      <4>2. CASE ~(m \in holders /\ waiters # <<>>)
        BY <3>1, <4>2, <1>0 DEF Leave, Goto
      <4> QED
        BY <4>1, <4>2
    <3> QED
      BY <3>1, <3>2, ChainAside DEF Bound, InGate
  <2>4. CASE Admitted(m)
    <3>1. /\ pc' = [x \in Msg |-> IF x = m THEN "preparing"
                                  ELSE IF x \in LetIn THEN "woken" ELSE pc[x]]
          /\ pc[m] = "woken" /\ Resolve(m) /\ UNCHANGED <<sess, chan, explicit>>
      BY <2>4 DEF Admitted, WakeUp
    <3>2. \A x \in Msg \ {m} : pc'[x] = pc[x] \/ (pc[x] = "waiting" /\ pc'[x] = "woken")
      BY <3>1, LetInFacts
    <3> QED
      BY <3>1, <3>2, ChainResolved
  <2>5. CASE Prepared(m) \/ Refused(m) \/ Relabelled(m) \/ RunEnds(m) \/ RunAborts(m)
    <3>1. \E label \in InGate : pc' = [pc EXCEPT ![m] = label]
      BY <2>5 DEF Prepared, Refused, Relabelled, RunEnds, RunAborts, Goto, InGate
    <3>2. pc[m] \in Bound /\ UNCHANGED <<resume, sess, chan, explicit>>
      BY <2>5 DEF Prepared, Refused, Relabelled, RunEnds, RunAborts, InGate, Bound
    <3> QED
      BY <1>0, <3>1, <3>2, ChainAside DEF Bound, InGate
  <2>6. CASE WorkdirGone(m) \/ RunIsStale(m)
    BY <2>6, ChainForgets DEF WorkdirGone, RunIsStale
  <2>7. CASE Settled(m)
    BY <2>7, ChainStores
  <2> QED
    BY <1>2, <2>1, <2>2, <2>3, <2>4, <2>5, <2>6, <2>7 DEF MsgStep
<1>3. ASSUME UNCHANGED <<pc, chan, explicit, resume>>,
             \A c \in Channel : sess'[c] \in {sess[c], None}
      PROVE  ChainInv'
  <2>1. \A m \in Msg : pc[m] \in Bound => sess'[chan[m]] \in {sess[chan[m]], None}
    BY <1>3 DEF DispatchInv, ChainInv, Bound, InGate
  <2>2. TurnsChain'
    BY <1>3, <2>1 DEF DispatchInv, ChainInv, TurnsChain, Bound
  <2> QED
    BY <1>3, <2>2 DEF DispatchInv, ChainInv
<1>4. CASE (\E c \in Channel : Clear(c)) \/ ShutdownBegins \/ ShutdownEnds
           \/ UNCHANGED dispatchVars
  BY <1>0, <1>3, <1>4 DEF Clear, Remember, ShutdownBegins, ShutdownEnds, dispatchVars
<1> QED
  BY <1>1, <1>2, <1>4 DEF DispatchNext

-----------------------------------------------------------------------------
LEMMA Invariance == DispatchSpec => []DispatchInv
<1>1. DispatchInv /\ [DispatchNext]_dispatchVars => DispatchInv'
  BY TypeStep, GateStep, BacklogStep, ChainStep DEF DispatchInv
<1> QED
  BY <1>1, InitHolds, PTL DEF DispatchSpec

(* The dispatcher's variables stay what they are taken for, the gate is    *)
(* exact and so is the backlog a queued user is told.                      *)
THEOREM GateAndBacklog == DispatchSpec => [](DispatchTypeOK /\ GateExact /\ PendingExact)
<1>1. DispatchInv => DispatchTypeOK /\ GateExact /\ PendingExact
  BY DEF DispatchInv, GateInv, BacklogInv, Inside, Backlog, GateExact, PendingExact
<1> QED
  BY <1>1, Invariance, PTL

(* With one slot, while a turn runs nobody moves its channel on to a       *)
(* conversation that the turn does not see.                                *)
THEOREM OneSlotChains == DispatchSpec => []TurnsChain
<1>1. DispatchInv => TurnsChain
  BY DEF DispatchInv, ChainInv
<1> QED
  BY <1>1, Invariance, PTL

(* With one slot, recovery forgets the very session that turned out stale. *)
THEOREM RecoveryForgetsTheStale == DispatchSpec => RecoveryDropsItsOwn
<1>1. ASSUME DispatchInv, [DispatchNext]_dispatchVars, Limit = 1, NEW m \in Msg,
             resume[m] # None, resume'[m] = None
      PROVE  sess[chan[m]] \in {resume[m], None}
  <2> USE DEF headVars, gateVars, turnVars
  <2>0. resume \in [Msg -> Session \cup {None}]
    BY <1>1 DEF DispatchInv, DispatchTypeOK
  <2>1. pc[m] \in InGate \cup {"done"} /\ resume' # resume
    BY <1>1 DEF DispatchInv, ChainInv
  <2>2. PICK n \in Msg : AckSent(n) \/ Admitted(n) \/ WorkdirGone(n) \/ RunIsStale(n)
    BY <1>1, <2>1 DEF DispatchNext, dispatchVars, MsgStep, Arrive, Allocated, AllocationFails,
       AckFails, Prepared, Refused, Relabelled, RunEnds, RunAborts, Settled, Delivered, Clear,
       ShutdownBegins, ShutdownEnds
  <2>3. CASE AckSent(n) \/ Admitted(n)
    <3>1. pc[n] \in {"acking", "woken"} /\ (Resolve(n) \/ resume' = resume)
      BY <2>3 DEF AckSent, Admitted
    <3>2. n # m
      BY <2>1, <3>1 DEF InGate
    <3> QED
      BY <1>1, <2>0, <2>1, <3>1, <3>2 DEF Resolve
  <2>4. CASE WorkdirGone(n) \/ RunIsStale(n)
    <3>1. /\ pc[n] \in Bound /\ explicit[n] = None /\ resume' = [resume EXCEPT ![n] = None]
      BY <2>4 DEF WorkdirGone, RunIsStale, Bound, InGate
    <3>2. n = m
      BY <1>1, <2>0, <3>1
    <3> QED
      BY <1>1, <3>1, <3>2 DEF DispatchInv, ChainInv, TurnsChain, Bound
  <2> QED
    BY <2>2, <2>3, <2>4
<1>2. DispatchInv /\ [DispatchNext]_dispatchVars
        => [Limit = 1 => \A m \in Msg : resume[m] # None /\ resume'[m] = None =>
              sess[chan[m]] \in {resume[m], None}]_dispatchVars
  BY <1>1
<1> QED
  BY <1>2, Invariance, PTL DEF DispatchSpec, RecoveryDropsItsOwn

-----------------------------------------------------------------------------
(* Nobody is stuck.  Fairness is written out with the guard of MsgStep, a  *)
(* predicate, instead of ENABLED: a message that is under way and does not *)
(* wait in the queue is stepped on again and again.                        *)
StepsOn(m) ==
  []<>(pc[m] \in {"new", "waiting", "done"}) \/ []<><<MsgStep(m)>>_dispatchVars

(* The stations from a free slot to the end.                               *)
Called(m) == pc[m] = "woken"
Remembered(m) == pc[m] = "preparing" /\ resume[m] # None
Unpacked(m) == pc[m] = "preparing" /\ resume[m] = None
Shown(m) == pc[m] = "relabelling"
Resumed(m) == pc[m] = "running" /\ resume[m] # None
Anew(m) == pc[m] = "running" /\ resume[m] = None
Settling(m) == pc[m] = "settling"
Telling(m) == pc[m] \in {"delivering", "excusing"}
Done(m) == pc[m] = "done"

(* Nobody else moves a message that is under way and does not wait.        *)
LEMMA MovesItself ==
  ASSUME DispatchInv, [DispatchNext]_dispatchVars, NEW m \in Msg, pc[m] \notin {"new", "waiting"},
         ~MsgStep(m)
  PROVE  pc'[m] = pc[m] /\ resume'[m] = resume[m]
<1> USE DEF headVars, gateVars, turnVars
<1>0. /\ pc \in [Msg -> PC] /\ resume \in [Msg -> Session \cup {None}]
      /\ waiters \in Seq(Msg) /\ pc[m] # "new" /\ pc[m] # "waiting"
      /\ \A i \in DOMAIN waiters : waiters[i] # m
  BY DEF DispatchInv, DispatchTypeOK, GateInv
<1>1. ASSUME NEW n \in Msg, n # m, MsgStep(n) PROVE pc'[m] = pc[m] /\ resume'[m] = resume[m]
  <2>1. ASSUME Leave(n) PROVE pc'[m] = pc[m]
    <3>1. waiters # <<>> => Head(waiters) # m
      BY <1>0
    <3> QED
      BY <1>0, <1>1, <2>1, <3>1 DEF Leave, Goto
  <2>2. ASSUME WakeUp(n) PROVE pc'[m] = pc[m]
    BY <1>0, <1>1, <2>2, LetInFacts DEF WakeUp
  <2>3. CASE AckFails(n) \/ Delivered(n)
    BY <2>1, <2>3 DEF AckFails, Delivered
  <2>4. CASE Admitted(n)
    BY <1>0, <1>1, <2>2, <2>4 DEF Admitted, Resolve
  <2>5. CASE AckSent(n)
    BY <1>0, <1>1, <2>5 DEF AckSent, Resolve, Goto
  <2>6. CASE \/ Allocated(n) \/ AllocationFails(n) \/ Prepared(n) \/ Refused(n) \/ Relabelled(n)
             \/ RunEnds(n) \/ RunAborts(n) \/ Settled(n)
    BY <1>0, <1>1, <2>6 DEF Allocated, AllocationFails, Prepared, Refused, Relabelled, RunEnds,
       RunAborts, Settled, Goto
  <2>7. CASE WorkdirGone(n) \/ RunIsStale(n)
    BY <1>0, <1>1, <2>7 DEF WorkdirGone, RunIsStale
  <2> QED
    BY <1>1, <2>3, <2>4, <2>5, <2>6, <2>7 DEF MsgStep
<1>2. ASSUME NEW n \in Msg, NEW c \in Channel, NEW s \in Session \cup {None}, Arrive(n, c, s)
      PROVE pc'[m] = pc[m] /\ resume'[m] = resume[m]
  BY <1>0, <1>2 DEF Arrive, Goto
<1>3. CASE (\E c \in Channel : Clear(c)) \/ ShutdownBegins \/ ShutdownEnds
           \/ UNCHANGED dispatchVars
  BY <1>3 DEF Clear, ShutdownBegins, ShutdownEnds, dispatchVars
<1> QED
  BY <1>1, <1>2, <1>3 DEF DispatchNext

(* Its own steps lead from station to station, never back.                 *)
LEMMA SlotMoves ==
  ASSUME DispatchInv, NEW m \in Msg, MsgStep(m)
  PROVE  /\ Called(m) => (Remembered(m) \/ Unpacked(m))'
         /\ Remembered(m) =>
              (\/ Unpacked(m) \/ Shown(m) \/ Resumed(m) \/ Telling(m))'
         /\ Unpacked(m) => (Shown(m) \/ Anew(m) \/ Telling(m))'
         /\ Shown(m) => (Resumed(m) \/ Anew(m))'
         /\ Resumed(m) => (Anew(m) \/ Settling(m) \/ Telling(m))'
         /\ Anew(m) => (Settling(m) \/ Telling(m))'
         /\ Settling(m) => Telling(m)'
         /\ Telling(m) => Done(m)'
<1> USE DEF headVars, gateVars, turnVars, Called, Remembered, Unpacked, Shown, Resumed, Anew,
            Settling, Telling, Done
<1>0. pc \in [Msg -> PC] /\ resume \in [Msg -> Session \cup {None}] /\ waiters \in Seq(Msg)
  BY DEF DispatchInv, DispatchTypeOK
<1>1. CASE Allocated(m) \/ AllocationFails(m) \/ AckSent(m) \/ AckFails(m)
  BY <1>1 DEF Allocated, AllocationFails, AckSent, AckFails
<1>2. CASE Admitted(m)
  <2>1. pc'[m] = "preparing" /\ pc[m] = "woken"
    BY <1>0, <1>2 DEF Admitted, WakeUp
  <2> QED
    BY <2>1
<1>3. CASE Prepared(m)
  BY <1>0, <1>3 DEF Prepared, Goto
<1>4. CASE WorkdirGone(m) \/ RunIsStale(m)
  BY <1>0, <1>4 DEF WorkdirGone, RunIsStale
<1>5. CASE Refused(m) \/ RunAborts(m) \/ Relabelled(m)
  BY <1>0, <1>5 DEF Refused, RunAborts, Relabelled, Goto
<1>6. CASE RunEnds(m) \/ Settled(m)
  BY <1>0, <1>6 DEF RunEnds, Settled, Goto
<1>7. CASE Delivered(m)
  <2>1. pc[m] \in {"delivering", "excusing"} /\ Leave(m)
    BY <1>7 DEF Delivered
  <2>2. waiters # <<>> => Head(waiters) # m
    <3>1. waiters # <<>> => Head(waiters) = waiters[1] /\ 1 \in DOMAIN waiters
      BY <1>0
    <3> QED
      BY <2>1, <3>1 DEF DispatchInv, GateInv
  <2>3. pc'[m] = "done"
    BY <1>0, <2>1, <2>2 DEF Leave, Goto
  <2> QED
    BY <2>1, <2>3
<1> QED
  BY <1>1, <1>2, <1>3, <1>4, <1>5, <1>6, <1>7 DEF MsgStep

(* With everybody else's steps in between.                                 *)
LEMMA SlotStays ==
  ASSUME DispatchInv, [DispatchNext]_dispatchVars, NEW m \in Msg
  PROVE  /\ Called(m) => (Called(m) \/ Remembered(m) \/ Unpacked(m))'
         /\ Remembered(m) =>
              (\/ Remembered(m) \/ Unpacked(m) \/ Shown(m) \/ Resumed(m) \/ Telling(m))'
         /\ Unpacked(m) => (Unpacked(m) \/ Shown(m) \/ Anew(m) \/ Telling(m))'
         /\ Shown(m) => (Shown(m) \/ Resumed(m) \/ Anew(m))'
         /\ Resumed(m) => (Resumed(m) \/ Anew(m) \/ Settling(m) \/ Telling(m))'
         /\ Anew(m) => (Anew(m) \/ Settling(m) \/ Telling(m))'
         /\ Settling(m) => (Settling(m) \/ Telling(m))'
         /\ Telling(m) => (Telling(m) \/ Done(m))'
<1> USE DEF Called, Remembered, Unpacked, Shown, Resumed, Anew, Settling, Telling, Done
<1>1. CASE MsgStep(m)
  BY <1>1, SlotMoves
<1>2. CASE ~MsgStep(m) /\ m \in holders
  BY <1>2, MovesItself DEF DispatchInv, GateInv, Inside, InGate
<1>3. CASE m \notin holders
  <2>1. pc[m] \notin Inside
    BY <1>3 DEF DispatchInv, GateInv
  <2> QED
    BY <2>1 DEF Inside, InGate
<1> QED
  BY <1>1, <1>2, <1>3

LEMMA SlotStations ==
  ASSUME DispatchInv, NEW m \in Msg
  PROVE  /\ m \in holders <=>
              \/ Called(m) \/ Remembered(m) \/ Unpacked(m) \/ Shown(m) \/ Resumed(m) \/ Anew(m)
              \/ Settling(m) \/ Telling(m)
         /\ m \in holders => pc[m] \notin {"new", "waiting", "done"}
BY DEF DispatchInv, GateInv, Inside, InGate, Called, Remembered, Unpacked, Shown, Resumed, Anew,
       Settling, Telling

GivesBack(m) == m \in holders ~> pc[m] = "done"

(* Whoever got a slot comes to the end of the job and gives it back: no    *)
(* recovery loops, no way out of the gate keeps the slot (_dispatch_job).  *)
THEOREM SlotsAreGivenBack ==
  DispatchSpec /\ (\A m \in Msg : StepsOn(m)) => \A m \in Msg : GivesBack(m)
<1> SUFFICES ASSUME NEW m \in Msg
             PROVE  DispatchSpec /\ StepsOn(m) => (m \in holders ~> pc[m] = "done")
  BY Zenon DEF GivesBack
<1>1. DispatchInv =>
        /\ m \in holders <=>
              \/ Called(m) \/ Remembered(m) \/ Unpacked(m) \/ Shown(m) \/ Resumed(m) \/ Anew(m)
              \/ Settling(m) \/ Telling(m)
        /\ m \in holders => ~(pc[m] \in {"new", "waiting", "done"})
  BY SlotStations
<1>2. DispatchInv /\ [DispatchNext]_dispatchVars =>
         /\ Called(m) => (Called(m) \/ Remembered(m) \/ Unpacked(m))'
         /\ Remembered(m) =>
              (\/ Remembered(m) \/ Unpacked(m) \/ Shown(m) \/ Resumed(m) \/ Telling(m))'
         /\ Unpacked(m) => (Unpacked(m) \/ Shown(m) \/ Anew(m) \/ Telling(m))'
         /\ Shown(m) => (Shown(m) \/ Resumed(m) \/ Anew(m))'
         /\ Resumed(m) => (Resumed(m) \/ Anew(m) \/ Settling(m) \/ Telling(m))'
         /\ Anew(m) => (Anew(m) \/ Settling(m) \/ Telling(m))'
         /\ Settling(m) => (Settling(m) \/ Telling(m))'
         /\ Telling(m) => (Telling(m) \/ Done(m))'
  BY SlotStays
<1>3. DispatchInv /\ <<MsgStep(m)>>_dispatchVars =>
         /\ Called(m) => (Remembered(m) \/ Unpacked(m))'
         /\ Remembered(m) =>
              (\/ Unpacked(m) \/ Shown(m) \/ Resumed(m) \/ Telling(m))'
         /\ Unpacked(m) => (Shown(m) \/ Anew(m) \/ Telling(m))'
         /\ Shown(m) => (Resumed(m) \/ Anew(m))'
         /\ Resumed(m) => (Anew(m) \/ Settling(m) \/ Telling(m))'
         /\ Anew(m) => (Settling(m) \/ Telling(m))'
         /\ Settling(m) => Telling(m)'
         /\ Telling(m) => Done(m)'
  BY SlotMoves
<1>4. DispatchSpec /\ StepsOn(m) =>
        /\ Telling(m) ~> Done(m)
        /\ Settling(m) ~> Telling(m)
        /\ Anew(m) ~> Settling(m) \/ Telling(m)
        /\ Resumed(m) ~> Anew(m) \/ Settling(m) \/ Telling(m)
  <2>0. ~(Telling(m) /\ Done(m)) /\ ~(Settling(m) /\ Telling(m))
        /\ ~(Anew(m) /\ (Settling(m) \/ Telling(m)))
        /\ ~(Resumed(m) /\ (Anew(m) \/ Settling(m) \/ Telling(m)))
    BY DEF Resumed, Anew, Settling, Telling, Done
  <2> QED
    BY <1>1, <1>2, <1>3, <2>0, Invariance, PTL DEF DispatchSpec, StepsOn
<1>5. DispatchSpec /\ StepsOn(m) =>
        /\ Shown(m) ~> Resumed(m) \/ Anew(m)
        /\ Unpacked(m) ~> Shown(m) \/ Anew(m) \/ Telling(m)
        /\ Remembered(m) ~> Unpacked(m) \/ Shown(m) \/ Resumed(m) \/ Telling(m)
        /\ Called(m) ~> Remembered(m) \/ Unpacked(m)
  BY <1>1, <1>2, <1>3, Invariance, PTL DEF DispatchSpec, StepsOn
<1> QED
  BY <1>1, <1>4, <1>5, Invariance, PTL DEF Done

-----------------------------------------------------------------------------
(* The queue: m waits in place n.                                          *)
Waits(m, n) == n \in DOMAIN waiters /\ waiters[n] = m
MovedUp(m, n) == m \in holders \/ \E k \in 1 .. n - 1 : Waits(m, k)

(* Letting in the first a of the queue moves the rest up.                  *)
LEMMA QueueShortens ==
  ASSUME DispatchInv, NEW m \in Msg, NEW n \in Nat \ {0}, Waits(m, n), NEW a \in 0 .. Len(waiters),
         waiters' = SubSeq(waiters, a + 1, Len(waiters)),
         {waiters[i] : i \in 1 .. a} \subseteq holders'
  PROVE  IF a = 0 THEN Waits(m, n)' ELSE MovedUp(m, n)'
<1>1. waiters \in Seq(Msg) /\ Len(waiters) \in Nat /\ n \in 1 .. Len(waiters) /\ waiters[n] = m
  BY DEF DispatchInv, DispatchTypeOK, Waits
<1>2. /\ Len(waiters') = Len(waiters) - a
      /\ \A i \in 1 .. Len(waiters) - a : waiters'[i] = waiters[i + a]
      /\ DOMAIN waiters' = 1 .. Len(waiters) - a
  BY <1>1
<1>3. CASE n <= a
  BY <1>1, <1>3 DEF MovedUp
<1>4. CASE n > a
  <2>1. n - a \in 1 .. Len(waiters) - a /\ (n - a) + a = n
    BY <1>1, <1>4
  <2>2. Waits(m, n - a)'
    BY <1>1, <1>2, <2>1 DEF Waits
  <2>3. CASE a = 0
    BY <1>1, <2>2, <2>3
  <2>4. CASE a # 0
    <3>1. n - a \in 1 .. n - 1
      BY <1>1, <1>4, <2>4
    <3> QED
      BY <2>2, <2>4, <3>1 DEF MovedUp
  <2> QED
    BY <2>3, <2>4
<1> QED
  BY <1>1, <1>3, <1>4

LEMMA HeadLeaves ==
  ASSUME DispatchInv, NEW m \in Msg, NEW n \in Nat \ {0}, Waits(m, n), NEW h \in Msg, Leave(h)
  PROVE  IF h \in holders THEN MovedUp(m, n)' ELSE Waits(m, n)' /\ holders' = holders
<1>1. waiters \in Seq(Msg) /\ Len(waiters) \in Nat /\ n \in 1 .. Len(waiters) /\ waiters[n] = m
  BY DEF DispatchInv, DispatchTypeOK, Waits
<1>2. waiters # <<>> /\ Head(waiters) = waiters[1] /\ 1 \in 0 .. Len(waiters)
  BY <1>1
<1>3. CASE h \in holders
  <2>1. waiters' = Tail(waiters) /\ Head(waiters) \in holders'
    BY <1>2, <1>3 DEF Leave
  <2>2. waiters' = SubSeq(waiters, 1 + 1, Len(waiters))
    BY <1>1, <1>2, <2>1
  <2>3. {waiters[i] : i \in 1 .. 1} \subseteq holders'
    BY <1>2, <2>1
  <2> QED
    BY <1>2, <1>3, <2>2, <2>3, QueueShortens
<1>4. CASE h \notin holders
  BY <1>4 DEF Leave, Waits
<1> QED
  BY <1>3, <1>4

(* No step moves anybody back (asyncio.Semaphore is fair).                 *)
LEMMA QueueStep ==
  ASSUME DispatchInv, [DispatchNext]_dispatchVars, NEW m \in Msg, NEW n \in Nat \ {0}, Waits(m, n)
  PROVE  (holders \subseteq holders' /\ Waits(m, n)') \/ MovedUp(m, n)'
<1> USE DEF headVars, gateVars, turnVars
<1>0. waiters \in Seq(Msg) /\ Len(waiters) \in Nat
  BY DEF DispatchInv, DispatchTypeOK
<1>1. ASSUME UNCHANGED <<holders, waiters>> PROVE holders \subseteq holders' /\ Waits(m, n)'
  BY <1>1 DEF Waits
<1>2. ASSUME NEW x \in Msg, MsgStep(x) PROVE (holders \subseteq holders' /\ Waits(m, n)') \/ MovedUp(m, n)'
  <2>1. CASE AckFails(x) \/ Delivered(x)
    BY <2>1, HeadLeaves DEF AckFails, Delivered
  <2>2. CASE AckSent(x)
    <3>1. holders \subseteq holders' /\ (waiters' = waiters \/ waiters' = Append(waiters, x))
      BY <2>2 DEF AckSent
    <3>2. Waits(m, n)'
      BY <1>0, <3>1 DEF Waits
    <3> QED
      BY <3>1, <3>2
  <2>3. CASE Admitted(x)
    <3>1. /\ holders' = holders \cup LetIn /\ waiters' = SubSeq(waiters, Admits + 1, Len(waiters))
          /\ Admits \in 0 .. Len(waiters)
      BY <1>0, <2>3, LetInFacts DEF Admitted, WakeUp
    <3>2. {waiters[i] : i \in 1 .. Admits} \subseteq holders'
      BY <3>1 DEF LetIn
    <3> QED
      BY <3>1, <3>2, QueueShortens
  <2>4. CASE \/ Allocated(x) \/ AllocationFails(x) \/ Prepared(x) \/ WorkdirGone(x) \/ Refused(x)
             \/ Relabelled(x) \/ RunIsStale(x) \/ RunEnds(x) \/ RunAborts(x) \/ Settled(x)
    BY <1>1, <2>4 DEF Allocated, AllocationFails, Prepared, WorkdirGone, Refused, Relabelled,
                      RunIsStale, RunEnds, RunAborts, Settled
  <2> QED
    BY <1>2, <2>1, <2>2, <2>3, <2>4 DEF MsgStep
<1>3. CASE \/ \E x \in Msg, c \in Channel, s \in Session \cup {None} : Arrive(x, c, s)
           \/ \E c \in Channel : Clear(c)
           \/ ShutdownBegins \/ ShutdownEnds \/ UNCHANGED dispatchVars
  BY <1>1, <1>3 DEF Arrive, Clear, ShutdownBegins, ShutdownEnds, dispatchVars
<1> QED
  BY <1>2, <1>3 DEF DispatchNext

(* Whoever waits has a place in the queue.                                 *)
LineInv == \A m \in Msg : pc[m] = "waiting" => \E n \in Nat \ {0} : Waits(m, n)

LEMMA LineStep ==
  ASSUME DispatchInv, DispatchInv', LineInv, [DispatchNext]_dispatchVars PROVE LineInv'
<1> SUFFICES ASSUME NEW m \in Msg, pc'[m] = "waiting"
             PROVE  \E n \in Nat \ {0} : Waits(m, n)'
  BY DEF LineInv
<1>0. m \notin holders'
  BY DEF DispatchInv, GateInv, Inside, InGate
<1>1. CASE pc[m] = "waiting"
  <2>1. PICK n \in Nat \ {0} : Waits(m, n)
    BY <1>1 DEF LineInv
  <2> QED
    BY <1>0, <2>1, QueueStep DEF MovedUp
<1>2. CASE pc[m] # "waiting"
  <2>0. pc \in [Msg -> PC] /\ waiters \in Seq(Msg)
    BY DEF DispatchInv, DispatchTypeOK
  <2>1. ASSUME NEW x \in Msg, NEW label, Goto(x, label)
        PROVE  pc'[m] = IF x = m THEN label ELSE pc[m]
    BY <2>0, <2>1 DEF Goto
  <2>2. ASSUME NEW x \in Msg, AckFails(x) \/ Delivered(x) \/ Admitted(x) PROVE FALSE
    <3>1. pc'[m] # pc[m]
      BY <1>2
    <3>2. CASE Admitted(x)
      BY <2>0, <3>1, <3>2 DEF Admitted, WakeUp
    <3>3. CASE AckFails(x) \/ Delivered(x)
      BY <2>0, <3>1, <3>3 DEF AckFails, Delivered, Leave, Goto
    <3> QED
      BY <2>2, <3>2, <3>3
  <2>3. AckSent(m) /\ Locked
    <3>1. pc'[m] # pc[m] /\ pc' # pc
      BY <1>2
    <3>2. ASSUME NEW x \in Msg, NEW c \in Channel, NEW s \in Session \cup {None}, Arrive(x, c, s)
          PROVE  FALSE
      BY <2>1, <3>1, <3>2 DEF Arrive
    <3>3. PICK x \in Msg : MsgStep(x)
      BY <3>1, <3>2 DEF DispatchNext, Clear, ShutdownBegins, ShutdownEnds, dispatchVars
    <3>4. CASE AckSent(x)
      <4>1. IF Locked THEN Goto(x, "waiting") ELSE Goto(x, "preparing")
        BY <3>4 DEF AckSent
      <4>2. x = m /\ Locked
        BY <2>0, <3>1, <4>1 DEF Goto
      <4> QED
        BY <3>4, <4>2
    <3>5. CASE \/ Allocated(x) \/ AllocationFails(x) \/ Prepared(x) \/ WorkdirGone(x) \/ Refused(x)
               \/ Relabelled(x) \/ RunIsStale(x) \/ RunEnds(x) \/ RunAborts(x) \/ Settled(x)
      BY <2>1, <3>1, <3>5 DEF Allocated, AllocationFails, Prepared, WorkdirGone, Refused,
                              Relabelled, RunIsStale, RunEnds, RunAborts, Settled
    <3> QED
      BY <2>2, <3>3, <3>4, <3>5 DEF MsgStep
  <2>4. waiters' = Append(waiters, m)
    BY <2>3 DEF AckSent
  <2>5. Len(waiters) + 1 \in DOMAIN waiters' /\ waiters'[Len(waiters) + 1] = m
        /\ Len(waiters) + 1 \in Nat \ {0}
    BY <2>0, <2>4
  <2> QED
    BY <2>5 DEF Waits
<1> QED
  BY <1>1, <1>2

LEMMA LineInvariance == DispatchSpec => []LineInv
<1>1. DispatchInit => LineInv
  BY DEF DispatchInit, LineInv
<1>2. DispatchInv /\ DispatchInv' /\ LineInv /\ [DispatchNext]_dispatchVars => LineInv'
  BY LineStep
<1> QED
  BY <1>1, <1>2, Invariance, PTL DEF DispatchSpec

(* A new job comes to the gate: to its queue, or past it, or to its end.   *)
Coming(m) == pc[m] = "allocating"
Asking(m) == pc[m] = "acking"
AtTheGate(m) == pc[m] \in {"waiting", "preparing", "done"}

LEMMA ComingMoves ==
  ASSUME DispatchInv, NEW m \in Msg
  PROVE  /\ MsgStep(m) => /\ Coming(m) => (Asking(m) \/ AtTheGate(m))'
                          /\ Asking(m) => AtTheGate(m)'
         /\ [DispatchNext]_dispatchVars =>
              /\ Coming(m) => (Coming(m) \/ Asking(m) \/ AtTheGate(m))'
              /\ Asking(m) => (Asking(m) \/ AtTheGate(m))'
<1> USE DEF Coming, Asking, AtTheGate
<1>0. pc \in [Msg -> PC] /\ waiters \in Seq(Msg)
      /\ \A i \in DOMAIN waiters : pc[waiters[i]] = "waiting"
  BY DEF DispatchInv, DispatchTypeOK, GateInv
<1>1. ASSUME MsgStep(m), Coming(m) \/ Asking(m)
      PROVE  /\ Coming(m) => (Asking(m) \/ AtTheGate(m))'
             /\ Asking(m) => AtTheGate(m)'
  <2>1. CASE Allocated(m) \/ AllocationFails(m) \/ AckSent(m)
    BY <1>0, <2>1 DEF Allocated, AllocationFails, AckSent, Goto
  <2>2. CASE AckFails(m)
    <3>1. pc[m] = "acking" /\ Leave(m)
      BY <2>2 DEF AckFails
    <3>2. waiters # <<>> => Head(waiters) # m
      <4>1. waiters # <<>> => Head(waiters) = waiters[1] /\ 1 \in DOMAIN waiters
        BY <1>0
      <4> QED
        BY <1>0, <3>1, <4>1
    <3>3. pc'[m] = "done"
      BY <1>0, <3>1, <3>2 DEF Leave, Goto
    <3> QED
      BY <3>1, <3>3
  <2> QED
    BY <1>1, <2>1, <2>2 DEF MsgStep, Admitted, Prepared, WorkdirGone, Refused, Relabelled,
                            RunIsStale, RunEnds, RunAborts, Settled, Delivered
<1>2. ASSUME [DispatchNext]_dispatchVars, ~MsgStep(m), Coming(m) \/ Asking(m)
      PROVE  pc'[m] = pc[m]
  BY <1>2, MovesItself
<1> QED
  BY <1>1, <1>2

ComesToTheGate(m) == Coming(m) \/ Asking(m) ~> AtTheGate(m)

LEMMA JobsComeToTheGate ==
  DispatchSpec /\ (\A m \in Msg : StepsOn(m)) => \A m \in Msg : ComesToTheGate(m)
<1> SUFFICES ASSUME NEW m \in Msg PROVE DispatchSpec /\ StepsOn(m) => ComesToTheGate(m)
  BY Zenon
<1>1. DispatchInv /\ <<MsgStep(m)>>_dispatchVars =>
        /\ Coming(m) => (Asking(m) \/ AtTheGate(m))'
        /\ Asking(m) => AtTheGate(m)'
  BY ComingMoves
<1>2. DispatchInv /\ [DispatchNext]_dispatchVars =>
        /\ Coming(m) => (Coming(m) \/ Asking(m) \/ AtTheGate(m))'
        /\ Asking(m) => (Asking(m) \/ AtTheGate(m))'
  BY ComingMoves
<1>3. Coming(m) \/ Asking(m) => ~(pc[m] \in {"new", "waiting", "done"})
  BY DEF Coming, Asking
<1>4. ~(Coming(m) /\ Asking(m))
  BY DEF Coming, Asking
<1> QED
  BY <1>1, <1>2, <1>3, <1>4, Invariance, PTL DEF DispatchSpec, StepsOn, ComesToTheGate

(* Every job comes to the gate; whoever waits there has a place in the     *)
(* queue; while anybody waits somebody holds a slot; and then whoever      *)
(* waits gets in or moves up.  That every job finishes (EveryJobFinishes)  *)
(* follows by induction on the place in the queue.                         *)
THEOREM QueueMovesOn ==
  DispatchSpec /\ (\A m \in Msg : StepsOn(m)) =>
    /\ \A m \in Msg : ComesToTheGate(m)
    /\ []LineInv /\ [](waiters # <<>> => holders # {})
    /\ \A h \in Msg, m \in Msg, n \in Nat \ {0} :
         h \in holders /\ Waits(m, n) ~> MovedUp(m, n)
<1>1. DispatchSpec => [](waiters # <<>> => holders # {})
  <2>1. DispatchInv => (waiters # <<>> => holders # {})
    <3> SUFFICES ASSUME DispatchInv, waiters # <<>>, holders = {} PROVE FALSE
      OBVIOUS
    <3>1. Woken \subseteq holders /\ Limit # 0
      BY DispatchAssumption DEF DispatchInv, GateInv, Woken, Inside
    <3> QED
      BY <3>1, FS_EmptySet DEF DispatchInv, GateInv
  <2> QED
    BY <2>1, Invariance, PTL
<1>2. ASSUME NEW h \in Msg, NEW m \in Msg, NEW n \in Nat \ {0}
      PROVE  DispatchSpec /\ (\A x \in Msg : StepsOn(x)) =>
               (h \in holders /\ Waits(m, n) ~> MovedUp(m, n))
  <2>1. DispatchSpec /\ (\A x \in Msg : StepsOn(x)) => GivesBack(h)
    BY SlotsAreGivenBack, Zenon
  <2>2. DispatchInv => ~(h \in holders /\ pc[h] = "done")
    BY SlotStations
  <2>3. DispatchInv /\ [DispatchNext]_dispatchVars /\ h \in holders /\ Waits(m, n) =>
          ((h \in holders)' /\ Waits(m, n)') \/ MovedUp(m, n)'
    BY QueueStep
  <2> QED
    BY <2>1, <2>2, <2>3, Invariance, PTL DEF DispatchSpec, GivesBack
<1> QED
  BY <1>1, <1>2, JobsComeToTheGate, LineInvariance, Zenon

=============================================================================
