--------------------------- MODULE WarmPoolProofs ---------------------------
(***************************************************************************)
(* Proofs about the warm pool, for any number of processes, keys, sessions *)
(* and any capacity.  PoolInv is inductive: each of its conjuncts is what  *)
(* another one rests on when a process is popped or parked.                *)
(***************************************************************************)
EXTENDS WarmPool, FiniteSetTheorems, TLAPS

PoolInv ==
  /\ PoolTypeOK
  /\ SlotsAgree
  /\ OneParkedPerConversation
  /\ SlotTellsTheTruth
  /\ TimersMatchIdle
  /\ WithinCapacity

-----------------------------------------------------------------------------
(* What is parked is a process, and is parked under its recorded slot.     *)
LEMMA IdleFacts ==
  ASSUME PoolTypeOK, SlotsAgree
  PROVE  /\ Idle \subseteq Proc
         /\ IsFiniteSet(Idle)
         /\ \A q \in Idle : slot[q] \in Slot /\ idle[slot[q]] = q
         /\ \A q \in Proc : q \in Idle <=> slot[q] \in Slot
<1>1. Idle \subseteq Proc
  BY DEF Idle, Values, PoolTypeOK
<1>2. IsFiniteSet(Idle)
  BY <1>1, PoolAssumption, FS_Subset
<1>3. \A q \in Idle : slot[q] \in Slot /\ idle[slot[q]] = q
  BY <1>1 DEF Idle, Values, SlotsAgree
<1>4. \A q \in Proc : slot[q] \in Slot => q \in Idle
  <2> SUFFICES ASSUME NEW q \in Proc, slot[q] \in Slot PROVE q \in Idle
    OBVIOUS
  <2>1. idle[slot[q]] = q
    BY DEF SlotsAgree
  <2>2. q # None
    BY PoolAssumption
  <2> QED
    BY <2>1, <2>2 DEF Idle, Values
<1> QED
  BY <1>1, <1>2, <1>3, <1>4

(* Popping any set of slots keeps the invariant.                           *)
LEMMA PopKeepsInv ==
  ASSUME PoolInv, NEW S \in SUBSET Slot, Pop(S)
  PROVE  PoolInv'
<1> DEFINE gone == {idle[x] : x \in S}
<1> USE DEF PoolInv
<1>0. /\ idle' = Without(idle, S)
      /\ older' = {o \in older : o[1] \notin gone /\ o[2] \notin gone}
      /\ slot' = [p \in Proc |-> IF p \in gone THEN None ELSE slot[p]]
      /\ timer' = timer \ gone
      /\ session' = session /\ key' = key /\ live' = live
  BY DEF Pop
<1>1. \A x \in Slot : idle'[x] = IF x \in S THEN None ELSE idle[x]
  BY <1>0 DEF Without
<1>2. PoolTypeOK'
  BY <1>0 DEF PoolTypeOK, Without
<1>3. SlotsAgree'
  <2> SUFFICES ASSUME NEW p \in Proc, NEW x \in Slot
               PROVE  idle'[x] = p <=> slot'[p] = x
    BY DEF SlotsAgree
  <2>1. p # None /\ x # None
    BY PoolAssumption
  <2>2. idle[x] = p <=> slot[p] = x
    BY DEF SlotsAgree
  <2>3. \A y \in Slot : idle[y] = p <=> slot[p] = y
    BY DEF SlotsAgree
  <2>4. CASE p \in gone
    <3>1. PICK y \in S : idle[y] = p
      BY <2>4
    <3>2. slot[p] = y
      BY <3>1, <2>3
    <3>3. slot'[p] = None
      BY <1>0, <2>4
    <3>4. idle'[x] # p
      BY <1>1, <2>1, <2>2, <3>1, <3>2
    <3> QED
      BY <3>3, <3>4, <2>1
  <2>5. CASE p \notin gone
    <3>1. slot'[p] = slot[p]
      BY <1>0, <2>5
    <3>2. idle[x] = p => x \notin S
      BY <2>5
    <3> QED
      BY <3>1, <3>2, <1>1, <2>1, <2>2
  <2> QED
    BY <2>4, <2>5
<1>4. OneParkedPerConversation'
  BY <1>1 DEF OneParkedPerConversation
<1>5. SlotTellsTheTruth'
  BY <1>0, <1>1 DEF SlotTellsTheTruth
<1>6. Idle' = Idle \ gone
  <2>1. \A x \in Slot : idle'[x] # None => idle'[x] \in Idle \ gone
    <3> SUFFICES ASSUME NEW x \in Slot, idle'[x] # None
                 PROVE  idle'[x] \in Idle \ gone
      OBVIOUS
    <3>1. x \notin S /\ idle'[x] = idle[x] /\ idle[x] \in Proc
      BY <1>1 DEF PoolTypeOK
    <3>2. \A y \in S : idle[y] # idle[x]
      BY <3>1 DEF SlotsAgree
    <3> QED
      BY <3>1, <3>2 DEF Idle, Values
  <2>2. \A x \in Slot : idle[x] \notin gone => idle'[x] = idle[x]
    BY <1>1
  <2> QED
    BY <2>1, <2>2 DEF Idle, Values
<1>7. TimersMatchIdle'
  BY <1>0, <1>6 DEF TimersMatchIdle
<1>8. WithinCapacity'
  <2>1. IsFiniteSet(Idle) /\ Idle' \subseteq Idle
    BY <1>6, IdleFacts
  <2>2. Cardinality(Idle') <= Cardinality(Idle) /\ IsFiniteSet(Idle')
    BY <2>1, FS_Subset
  <2>3. Cardinality(Idle) \in Nat /\ Cardinality(Idle') \in Nat
    BY <2>1, <2>2, FS_CardinalityType
  <2> QED
    BY <2>2, <2>3, PoolAssumption DEF WithinCapacity
<1> QED
  BY <1>2, <1>3, <1>4, <1>5, <1>7, <1>8

-----------------------------------------------------------------------------
(* What park leaves in the dict keeps the invariant: p under its own slot, *)
(* and elsewhere only entries of other conversations that were there.      *)
LEMMA SettleKeepsInv ==
  ASSUME PoolInv,
         NEW p \in Proc \ Idle, key[p] \in Key, NEW s \in Session,
         NEW dict \in [Slot -> Proc \cup {None}],
         dict[<<key[p], s>>] = p,
         \A x \in Slot : \/ x = <<key[p], s>>
                         \/ dict[x] = None
                         \/ dict[x] = idle[x] /\ x[2] # s,
         Cardinality(Values(dict)) <= Capacity,
         Settle(p, s, dict)
  PROVE  PoolInv'
<1> DEFINE own == <<key[p], s>>
           kept == Values(dict) \ {p}
<1> USE DEF PoolInv
<1>0. /\ idle' = dict
      /\ older' = {o \in older : o[1] \in kept /\ o[2] \in kept} \cup (kept \X {p})
      /\ slot' = [q \in Proc |-> IF q = p THEN own
                                 ELSE IF q \in Idle \ kept THEN None ELSE slot[q]]
      /\ timer' = (timer \ Idle) \cup (timer \cap kept) \cup {p}
      /\ session' = [session EXCEPT ![p] = s]
      /\ key' = key /\ live' = live
  BY DEF Settle, Armed, SlotNames
<1>1. /\ own \in Slot /\ own[1] = key[p] /\ own[2] = s
      /\ p # None /\ own # None
  BY PoolAssumption DEF Slot
<1>2. slot[p] \notin Slot
  BY IdleFacts
<1>3. \A x \in Slot : x # own => dict[x] # p
  <2> SUFFICES ASSUME NEW x \in Slot, x # own, dict[x] = p PROVE FALSE
    OBVIOUS
  <2>1. idle[x] = p
    BY <1>1
  <2> QED
    BY <2>1, <1>2 DEF SlotsAgree
<1>4. kept \subseteq Idle
  <2> SUFFICES ASSUME NEW q \in kept PROVE q \in Idle
    OBVIOUS
  <2>1. PICK x \in Slot : dict[x] = q
    BY DEF Values
  <2>2. q # None /\ q # p /\ x # own
    BY <2>1 DEF Values
  <2> QED
    BY <2>1, <2>2 DEF Idle, Values
<1>5. PoolTypeOK'
  <2>1. kept \subseteq Proc
    BY DEF Values
  <2>2. older' \subseteq Proc \X Proc
    BY <1>0, <2>1 DEF PoolTypeOK
  <2>3. slot' \in [Proc -> Slot \cup {None}]
    BY <1>0, <1>1 DEF PoolTypeOK
  <2> QED
    BY <1>0, <2>2, <2>3 DEF PoolTypeOK
<1>6. SlotsAgree'
  <2> SUFFICES ASSUME NEW q \in Proc, NEW x \in Slot
               PROVE  dict[x] = q <=> slot'[q] = x
    BY <1>0 DEF SlotsAgree
  <2>1. q # None /\ x # None
    BY PoolAssumption
  <2>2. CASE q = p
    BY <1>0, <1>1, <1>3, <2>2
  <2>3. CASE q # p /\ q \in kept
    <3>1. slot'[q] = slot[q]
      BY <1>0, <2>3
    <3>2. PICK y \in Slot : dict[y] = q
      BY <2>3 DEF Values
    <3>3. y # own /\ idle[y] = q
      BY <3>2, <2>3, <2>1
    <3>4. slot[q] = y
      BY <3>3 DEF SlotsAgree
    <3>5. dict[x] = q => idle[x] = q
      BY <2>3, <2>1
    <3>6. dict[x] = q => slot[q] = x
      BY <3>5 DEF SlotsAgree
    <3> QED
      BY <3>1, <3>2, <3>4, <3>6
  <2>4. CASE q # p /\ q \notin kept
    <3>1. dict[x] # q
      BY <2>1, <2>4 DEF Values
    <3>2. slot'[q] = IF q \in Idle THEN None ELSE slot[q]
      BY <1>0, <2>4
    <3>3. q \notin Idle => slot[q] \notin Slot
      BY IdleFacts
    <3> QED
      BY <3>1, <3>2, <3>3, <2>1
  <2> QED
    BY <2>2, <2>3, <2>4
<1>7. OneParkedPerConversation'
  <2> SUFFICES ASSUME NEW a \in Slot, NEW b \in Slot, a[2] = b[2],
                      dict[a] # None, dict[b] # None
               PROVE  a = b
    BY <1>0 DEF OneParkedPerConversation
  <2>1. CASE a = own \/ b = own
    BY <2>1, <1>1
  <2>2. CASE a # own /\ b # own
    <3>1. idle[a] # None /\ idle[b] # None
      BY <2>2
    <3> QED
      BY <3>1 DEF OneParkedPerConversation
  <2> QED
    BY <2>1, <2>2
<1>8. SlotTellsTheTruth'
  <2> SUFFICES ASSUME NEW x \in Slot, dict[x] # None
               PROVE  key[dict[x]] = x[1] /\ session'[dict[x]] = x[2]
    BY <1>0 DEF SlotTellsTheTruth
  <2>1. CASE x = own
    BY <2>1, <1>0, <1>1 DEF PoolTypeOK
  <2>2. CASE x # own
    <3>1. dict[x] = idle[x] /\ idle[x] # p /\ idle[x] \in Proc
      BY <2>2, <1>3 DEF PoolTypeOK
    <3>2. key[idle[x]] = x[1] /\ session[idle[x]] = x[2]
      BY <3>1, <1>1 DEF SlotTellsTheTruth
    <3>3. session'[idle[x]] = session[idle[x]]
      BY <3>1, <1>0 DEF PoolTypeOK
    <3> QED
      BY <3>1, <3>2, <3>3
  <2> QED
    BY <2>1, <2>2
<1>9. Idle' = kept \cup {p}
  <2>1. p \in Values(dict)
    BY <1>1 DEF Values
  <2>2. Idle' = Values(dict)
    BY <1>0 DEF Idle, Values
  <2> QED
    BY <2>1, <2>2
<1>10. TimersMatchIdle'
  BY <1>0, <1>4, <1>9 DEF TimersMatchIdle
<1>11. WithinCapacity'
  <2>1. Idle' = Values(dict)
    BY <1>0 DEF Idle, Values
  <2> QED
    BY <2>1, PoolAssumption DEF WithinCapacity
<1> QED
  BY <1>5, <1>6, <1>7, <1>8, <1>10, <1>11

(* Parking a process that is out of the pool.                              *)
LEMMA ParkKeepsInv ==
  ASSUME PoolInv,
         NEW p \in Proc \ Idle, key[p] # None, NEW s \in Session \cup {None},
         Park(p, s)
  PROVE  PoolInv'
<1> DEFINE own == <<key[p], s>>
           full == Parked(p, s)
<1> USE DEF PoolInv
<1>1. key[p] \in Key
  BY DEF PoolTypeOK
<1>2. CASE ParkRefused(p, s)
  <2>1. /\ UNCHANGED <<idle, older, slot, timer, key, live>>
        /\ session' = [session EXCEPT ![p] = s]
    BY <1>2 DEF ParkRefused
  <2>2. Idle' = Idle
    BY <2>1 DEF Idle, Values
  <2>3. SlotTellsTheTruth'
    <3> SUFFICES ASSUME NEW x \in Slot, idle[x] # None
                 PROVE  key[idle[x]] = x[1] /\ session'[idle[x]] = x[2]
      BY <2>1 DEF SlotTellsTheTruth
    <3>1. idle[x] # p /\ idle[x] \in Proc
      BY PoolAssumption DEF Idle, Values, PoolTypeOK
    <3> QED
      BY <3>1, <2>1 DEF SlotTellsTheTruth, PoolTypeOK
  <2> QED
    BY <2>1, <2>2, <2>3 DEF PoolTypeOK, SlotsAgree, OneParkedPerConversation,
                            TimersMatchIdle, WithinCapacity
<1>3. ASSUME ~Refuses(p, s)
      PROVE  /\ s \in Session /\ own \in Slot
             /\ full \in [Slot -> Proc \cup {None}]
             /\ full[own] = p
             /\ \A x \in Slot : \/ x = own
                                \/ full[x] = None
                                \/ full[x] = idle[x] /\ x[2] # s
  <2>1. s \in Session /\ own \in Slot
    BY <1>1, <1>3 DEF Refuses, Slot
  <2>2. \A x \in Slot : x \in SameConversation(s) <=> x[2] = s
    BY DEF SameConversation
  <2>3. full = [x \in Slot |-> IF x = own THEN p
                              ELSE IF x[2] = s THEN None ELSE idle[x]]
    BY <2>1, <2>2 DEF Parked, Without
  <2> QED
    BY <2>1, <2>3 DEF PoolTypeOK
<1>4. CASE ParkFits(p, s)
  BY <1>1, <1>3, <1>4, SettleKeepsInv DEF ParkFits
<1>5. CASE ParkEvicts(p, s)
  <2>1. ~Refuses(p, s)
    BY <1>5 DEF ParkEvicts
  <2>2. PICK q \in Idle : /\ IsOldest(q, full, p)
                          /\ Settle(p, s, Without(full, {slot[q]}))
    BY <1>5 DEF ParkEvicts
  <2> DEFINE dict == Without(full, {slot[q]})
  <2>3. q # p /\ slot[q] \in Slot /\ idle[slot[q]] = q
    BY IdleFacts
  <2>4. own \in Slot /\ own # slot[q]
    <3>1. PICK x \in Slot : full[x] = q
      BY <2>2 DEF IsOldest, Values
    <3>2. x # own /\ idle[x] = q /\ x[2] # s
      BY <3>1, <2>1, <2>3, <1>3, PoolAssumption DEF Idle, Values
    <3>3. slot[q] = x
      BY <3>2, <2>3 DEF SlotsAgree, Idle, Values, PoolTypeOK
    <3> QED
      BY <3>2, <3>3, <2>1, <1>3
  <2>5. dict = [x \in Slot |-> IF x = slot[q] THEN None ELSE full[x]]
    BY DEF Without
  <2>6. /\ dict \in [Slot -> Proc \cup {None}]
        /\ dict[own] = p
        /\ \A x \in Slot : \/ x = own
                           \/ dict[x] = None
                           \/ dict[x] = idle[x] /\ x[2] # s
    BY <2>1, <2>4, <2>5, <1>3
  <2>7. Cardinality(Values(dict)) <= Capacity
    <3>1. Values(dict) \subseteq (Idle \ {q}) \cup {p}
      <4> SUFFICES ASSUME NEW x \in Slot, dict[x] # None, x # own
                   PROVE  dict[x] \in Idle \ {q}
        BY ZenonT(30), <2>6 DEF Values
      <4>1. dict[x] = idle[x] /\ x # slot[q] /\ idle[x] \in Proc
        BY <2>5, <2>6 DEF PoolTypeOK
      <4>2. idle[x] # q
        BY <4>1 DEF SlotsAgree
      <4> QED
        BY <4>1, <4>2 DEF Idle, Values
    <3>2. IsFiniteSet(Idle)
      BY IdleFacts
    <3>3. /\ IsFiniteSet(Idle \ {q})
          /\ Cardinality(Idle \ {q}) = Cardinality(Idle) - 1
      BY <3>2, FS_RemoveElement
    <3>4. /\ IsFiniteSet((Idle \ {q}) \cup {p})
          /\ Cardinality((Idle \ {q}) \cup {p}) = Cardinality(Idle \ {q}) + 1
      BY <3>3, FS_AddElement
    <3>5. /\ IsFiniteSet(Values(dict))
          /\ Cardinality(Values(dict)) <= Cardinality((Idle \ {q}) \cup {p})
      BY <3>1, <3>4, FS_Subset
    <3>6. Cardinality(Idle) \in Nat /\ Cardinality(Values(dict)) \in Nat
      BY <3>2, <3>5, FS_CardinalityType
    <3>7. Cardinality(Idle) <= Capacity
      BY DEF WithinCapacity
    <3> QED
      BY <3>3, <3>4, <3>5, <3>6, <3>7, PoolAssumption
  <2>8. s \in Session /\ Settle(p, s, dict)
    BY <1>3, <2>1, <2>2
  <2> HIDE DEF dict
  <2> QED
    BY <1>1, <2>6, <2>7, <2>8, SettleKeepsInv
<1> QED
  BY <1>2, <1>4, <1>5 DEF Park

(* Forgetting one process, parked or not.                                  *)
LEMMA ForgetKeepsInv ==
  ASSUME PoolInv, NEW p \in Proc, Forget(p)
  PROVE  PoolInv'
<1> USE DEF PoolInv
<1>1. CASE slot[p] \in Slot
  <2>1. OwnSlot(p) = {slot[p]} /\ idle[slot[p]] = p
    BY <1>1 DEF OwnSlot, SlotsAgree
  <2>2. {idle[x] : x \in OwnSlot(p)} = {p}
    BY <2>1
  <2>3. slot' = [q \in Proc |-> IF q \in {p} THEN None ELSE slot[q]]
    BY DEF Forget, PoolTypeOK
  <2>4. older' = {o \in older : o[1] \notin {p} /\ o[2] \notin {p}}
    BY DEF Forget
  <2>5. Pop(OwnSlot(p))
    BY <2>2, <2>3, <2>4 DEF Forget, Pop
  <2> QED
    BY <2>1, <2>5, <1>1, PopKeepsInv
<1>2. CASE slot[p] \notin Slot
  <2>1. slot[p] = None /\ p \notin Idle
    BY <1>2, IdleFacts DEF PoolTypeOK
  <2>2. OwnSlot(p) = {}
    BY <1>2 DEF OwnSlot
  <2>3. idle' = idle /\ slot' = slot /\ timer' = timer
    BY <2>1, <2>2 DEF Forget, Without, PoolTypeOK, TimersMatchIdle
  <2>4. session' = session /\ key' = key /\ live' = live /\ older' \subseteq older
    BY DEF Forget
  <2>5. Idle' = Idle
    BY <2>3 DEF Idle, Values
  <2> QED
    BY <2>3, <2>4, <2>5 DEF PoolTypeOK, SlotsAgree, OneParkedPerConversation,
                            SlotTellsTheTruth, TimersMatchIdle, WithinCapacity
<1> QED
  BY <1>1, <1>2

(* A spawn does not concern the pool: the object it creates is not in it.  *)
LEMMA AdoptKeepsInv ==
  ASSUME PoolInv, NEW p \in Proc, NEW k \in Key \cup {None}, Adopt(p, k)
  PROVE  PoolInv'
<1> USE DEF PoolInv
<1>1. /\ UNCHANGED <<idle, older, slot, timer>>
      /\ live' = live \cup {p}
      /\ key' = [key EXCEPT ![p] = k]
      /\ session' = [session EXCEPT ![p] = None]
      /\ p \notin Idle
  BY DEF Adopt
<1>2. Idle' = Idle
  BY <1>1 DEF Idle, Values
<1>3. SlotTellsTheTruth'
  <2> SUFFICES ASSUME NEW x \in Slot, idle[x] # None
               PROVE  key'[idle[x]] = x[1] /\ session'[idle[x]] = x[2]
    BY <1>1 DEF SlotTellsTheTruth
  <2>1. idle[x] # p /\ idle[x] \in Proc
    BY <1>1 DEF Idle, Values, PoolTypeOK
  <2> QED
    BY <2>1, <1>1 DEF SlotTellsTheTruth, PoolTypeOK
<1> QED
  BY <1>1, <1>2, <1>3 DEF PoolTypeOK, SlotsAgree, OneParkedPerConversation,
                          TimersMatchIdle, WithinCapacity

(* Nothing the pool reads of its own state changes.                        *)
LEMMA SameKeepsInv ==
  ASSUME PoolInv, UNCHANGED <<idle, older, slot, timer, session, key>>,
         live' \subseteq live
  PROVE  PoolInv'
<1>1. Idle' = Idle
  BY DEF Idle, Values
<1> QED
  BY <1>1 DEF PoolInv, PoolTypeOK, SlotsAgree, OneParkedPerConversation,
              SlotTellsTheTruth, TimersMatchIdle, WithinCapacity

-----------------------------------------------------------------------------
(* The empty pool satisfies the invariant, ...                             *)
LEMMA PoolInitInv ==
  PoolInit => PoolInv
<1> SUFFICES ASSUME PoolInit PROVE PoolInv
  OBVIOUS
<1>1. Idle = {}
  BY DEF PoolInit, Idle, Values
<1>2. Cardinality({}) = 0
  BY FS_EmptySet
<1> QED
  BY <1>1, <1>2, PoolAssumption
  DEF PoolInit, PoolInv, PoolTypeOK, SlotsAgree, OneParkedPerConversation,
      SlotTellsTheTruth, TimersMatchIdle, WithinCapacity

(* ... and every operation on the pool preserves it.                       *)
LEMMA PoolNextInv ==
  PoolInv /\ [PoolNext]_poolVars => PoolInv'
<1> SUFFICES ASSUME PoolInv, [PoolNext]_poolVars PROVE PoolInv'
  OBVIOUS
<1>1. CASE \E k \in Key, s \in Session : Checkout(k, s) \/ AcquireDead(k, s)
  <2>1. PICK k \in Key, s \in Session : Pop({<<k, s>>})
    BY <1>1 DEF Checkout, AcquireDead
  <2>2. {<<k, s>>} \in SUBSET Slot
    BY DEF Slot
  <2> QED
    BY <2>1, <2>2, PopKeepsInv
<1>2. CASE \E p \in Proc \ Idle, s \in Session \cup {None} : key[p] # None /\ Park(p, s)
  BY <1>2, ParkKeepsInv
<1>3. CASE \E p \in Proc : Expire(p)
  <2>1. PICK p \in Proc : Pop(OwnSlot(p))
    BY <1>3 DEF Expire
  <2>2. OwnSlot(p) \in SUBSET Slot
    BY DEF OwnSlot
  <2> QED
    BY <2>1, <2>2, PopKeepsInv
<1>4. CASE \E p \in Proc : Forget(p)
  BY <1>4, ForgetKeepsInv
<1>5. CASE \E p \in Proc : Exit(p)
  BY <1>5, SameKeepsInv DEF Exit
<1>6. CASE \E targets \in SUBSET Proc : Discard(targets)
  <2>1. PICK targets \in SUBSET Proc : Discard(targets)
    BY <1>6
  <2>2. {x \in Slot : idle[x] \in targets} \in SUBSET Slot
    OBVIOUS
  <2> QED
    BY <2>1, <2>2, PopKeepsInv DEF Discard
<1>7. CASE Reset
  BY <1>7, PopKeepsInv DEF Reset
<1>8. CASE \E p \in Proc, k \in Key \cup {None} : Adopt(p, k)
  BY <1>8, AdoptKeepsInv
<1>9. CASE UNCHANGED poolVars
  BY <1>9, SameKeepsInv DEF poolVars
<1> QED
  BY <1>1, <1>2, <1>3, <1>4, <1>5, <1>6, <1>7, <1>8, <1>9 DEF PoolNext

(* The inductive invariant holds in every reachable state of the pool,     *)
(* whatever turns, timers and commands do with it.                         *)
THEOREM PoolInvariance == PoolSpec => []PoolInv
<1>1. PoolInv /\ [PoolNext]_poolVars => PoolInv'
  BY PoolNextInv
<1> QED
  BY PoolInitInv, <1>1, PTL DEF PoolSpec

(* The pool's state always has the shape warm_pool.py gives it.            *)
THEOREM PoolTypeInvariance == PoolSpec => []PoolTypeOK
<1>1. PoolInv => PoolTypeOK
  BY DEF PoolInv
<1> QED
  BY PoolInvariance, <1>1, PTL

(* park never leaves two processes of one conversation in the pool.        *)
THEOREM OneProcessPerConversation == PoolSpec => []OneParkedPerConversation
<1>1. PoolInv => OneParkedPerConversation
  BY DEF PoolInv
<1> QED
  BY PoolInvariance, <1>1, PTL

(* Dict and parked_slot agree, and the slot tells what the process holds.  *)
THEOREM SlotsAreTrue == PoolSpec => [](SlotsAgree /\ SlotTellsTheTruth)
<1>1. PoolInv => SlotsAgree /\ SlotTellsTheTruth
  BY DEF PoolInv
<1> QED
  BY PoolInvariance, <1>1, PTL

(* No process is parked without an idle timer and no timer runs for a      *)
(* process that is out.                                                    *)
THEOREM TimersExact == PoolSpec => []TimersMatchIdle
<1>1. PoolInv => TimersMatchIdle
  BY DEF PoolInv
<1> QED
  BY PoolInvariance, <1>1, PTL

(* The pool never exceeds its capacity: one eviction per park is enough.   *)
THEOREM CapacityHolds == PoolSpec => []WithinCapacity
<1>1. PoolInv => WithinCapacity
  BY DEF PoolInv
<1> QED
  BY PoolInvariance, <1>1, PTL

-----------------------------------------------------------------------------
(* Taking slots out of the dict puts nothing into the pool.                *)
LEMMA PopShrinks ==
  ASSUME NEW S \in SUBSET Slot, Pop(S)
  PROVE  Idle' \subseteq Idle
BY DEF Pop, Without, Idle, Values

(* Every operation but a successful park leaves the pool as it is or       *)
(* smaller.                                                                *)
LEMMA OnlyParkAdds ==
  ASSUME PoolNext \/ UNCHANGED poolVars,
         NEW p \in Idle' \ Idle
  PROVE  \E r \in Proc \ Idle, s \in Session :
           key[r] # None /\ (ParkFits(r, s) \/ ParkEvicts(r, s))
<1> DEFINE Shrinks == Idle' \subseteq Idle
<1>0. ASSUME idle' = idle PROVE Shrinks
  BY <1>0 DEF Idle, Values
<1>1. ~Shrinks
  OBVIOUS
<1>2. ASSUME NEW k \in Key, NEW s \in Session, Checkout(k, s) \/ AcquireDead(k, s)
      PROVE  Shrinks
  <2>1. {<<k, s>>} \in SUBSET Slot
    BY DEF Slot
  <2> QED
    BY <1>2, <2>1, PopShrinks DEF Checkout, AcquireDead
<1>3. ASSUME NEW r \in Proc, Expire(r) \/ Forget(r) \/ Exit(r)
      PROVE  Shrinks
  <2>1. OwnSlot(r) \in SUBSET Slot
    BY DEF OwnSlot
  <2>2. CASE Expire(r)
    BY <2>1, <2>2, PopShrinks DEF Expire
  <2>3. CASE Forget(r)
    BY <2>1, <2>3 DEF Forget, Without, Idle, Values
  <2>4. CASE Exit(r)
    BY <2>4, <1>0 DEF Exit
  <2> QED
    BY <1>3, <2>2, <2>3, <2>4
<1>4. ASSUME NEW targets \in SUBSET Proc, Discard(targets) PROVE Shrinks
  BY <1>4, PopShrinks DEF Discard
<1>5. ASSUME Reset PROVE Shrinks
  BY <1>5, PopShrinks DEF Reset
<1>6. ASSUME NEW r \in Proc, NEW k \in Key \cup {None}, Adopt(r, k) PROVE Shrinks
  BY <1>6, <1>0 DEF Adopt
<1>7. ASSUME UNCHANGED poolVars PROVE Shrinks
  BY <1>7, <1>0 DEF poolVars
<1>8. PICK r \in Proc \ Idle, s \in Session \cup {None} : key[r] # None /\ Park(r, s)
  BY <1>1, <1>2, <1>3, <1>4, <1>5, <1>6, <1>7 DEF PoolNext
<1>9. ~ParkRefused(r, s)
  BY <1>0, <1>1 DEF ParkRefused
<1>10. s \in Session
  BY <1>8, <1>9 DEF Park, ParkFits, ParkEvicts, Refuses
<1> QED
  BY <1>8, <1>9, <1>10 DEF Park

(* A park that fits pushes out nothing but the conversation it parks.      *)
LEMMA FitsDisplacesItsOwn ==
  ASSUME PoolInv,
         NEW r \in Proc \ Idle, NEW s \in Session, key[r] # None, ParkFits(r, s),
         NEW q \in Idle \ Idle'
  PROVE  session[q] = s
<1>1. PICK x \in Slot : idle[x] = q /\ q # None
  BY DEF Idle, Values
<1>2. idle' = Parked(r, s)
  BY DEF ParkFits, Settle
<1>3. Parked(r, s)[x] # q
  BY <1>1, <1>2 DEF Idle, Values
<1>4. x \in SameConversation(s)
  <2> SUFFICES ASSUME x \notin SameConversation(s) PROVE FALSE
    OBVIOUS
  <2>1. x # <<key[r], s>>
    BY DEF SameConversation
  <2>2. Parked(r, s)[x] = idle[x]
    BY <2>1 DEF Parked, Without
  <2> QED
    BY <1>1, <1>3, <2>2
<1> QED
  BY <1>1, <1>4 DEF PoolInv, SlotTellsTheTruth, SameConversation

(* A park that has to evict found no other process of its conversation, or *)
(* displacing it would have made room.                                     *)
LEMMA EvictionMeansNew ==
  ASSUME PoolInv,
         NEW r \in Proc \ Idle, NEW s \in Session, key[r] # None, ParkEvicts(r, s),
         NEW x \in SameConversation(s)
  PROVE  idle[x] = None
<1> DEFINE full == Parked(r, s)
<1> SUFFICES ASSUME idle[x] # None PROVE FALSE
  OBVIOUS
<1>1. x \in Slot /\ idle[x] \in Idle
  BY DEF SameConversation, Idle, Values
<1>2. idle[x] \notin Values(full)
  <2> SUFFICES ASSUME NEW y \in Slot, full[y] = idle[x] PROVE FALSE
    BY DEF Values
  <2>1. y # <<key[r], s>> \/ full[y] = r
    BY DEF Parked, Without
  <2>2. full[y] # r
    BY <1>1
  <2>3. y \notin SameConversation(s) /\ full[y] = idle[y]
    BY <2>1, <2>2 DEF Parked, Without
  <2>4. idle[x] \in Proc
    BY <1>1, IdleFacts DEF PoolInv
  <2>5. slot[idle[x]] = x /\ slot[idle[x]] = y
    BY <2>3, <2>4, <1>1 DEF PoolInv, SlotsAgree
  <2> QED
    BY <2>3, <2>5 DEF SameConversation
<1>3. Values(full) \subseteq (Idle \ {idle[x]}) \cup {r}
  <2>1. ASSUME NEW y \in Slot PROVE full[y] \in {None, r, idle[y]}
    BY DEF Parked, Without
  <2> QED
    BY <2>1, <1>2 DEF Values, Idle
<1>4. /\ IsFiniteSet(Idle) /\ IsFiniteSet(Idle \ {idle[x]})
      /\ Cardinality(Idle \ {idle[x]}) = Cardinality(Idle) - 1
      /\ Cardinality(Idle) \in Nat
  BY <1>1, IdleFacts, FS_RemoveElement, FS_CardinalityType DEF PoolInv
<1>5. /\ IsFiniteSet((Idle \ {idle[x]}) \cup {r})
      /\ Cardinality((Idle \ {idle[x]}) \cup {r}) = Cardinality(Idle)
  <2> DEFINE rest == Idle \ {idle[x]}
  <2>1. IsFiniteSet(rest) /\ r \notin rest /\ Cardinality(rest) + 1 = Cardinality(Idle)
    BY <1>4
  <2> HIDE DEF rest
  <2>2. IsFiniteSet(rest \cup {r}) /\ Cardinality(rest \cup {r}) = Cardinality(rest) + 1
    BY <2>1, FS_AddElement
  <2> QED
    BY <2>1, <2>2 DEF rest
<1>6. Cardinality(Values(full)) <= Cardinality(Idle) /\ Cardinality(Values(full)) \in Nat
  BY <1>3, <1>5, FS_Subset, FS_CardinalityType
<1>7. Cardinality(Values(full)) > Capacity
  BY DEF ParkEvicts
<1> QED
  BY <1>4, <1>6, <1>7, PoolAssumption DEF PoolInv, WithinCapacity

(* What an eviction takes out is the front of the dict, and nothing else.  *)
LEMMA EvictsTheFront ==
  ASSUME PoolInv,
         NEW r \in Proc \ Idle, NEW s \in Session, key[r] # None, ParkEvicts(r, s),
         NEW q \in Idle \ Idle', NEW o \in Idle \ {q}
  PROVE  o \in Idle' /\ <<q, o>> \in older
<1> DEFINE full == Parked(r, s)
<1>1. PICK v \in Idle : IsOldest(v, full, r) /\ Settle(r, s, Without(full, {slot[v]}))
  BY DEF ParkEvicts
<1>2. idle' = Without(full, {slot[v]})
  BY <1>1 DEF Settle
<1>3. ASSUME NEW x \in Slot, idle[x] # None PROVE full[x] = idle[x]
  <2>1. x \notin SameConversation(s)
    BY <1>3, EvictionMeansNew
  <2> QED
    BY <2>1 DEF Parked, Without, SameConversation
<1>4. ASSUME NEW u \in Idle, u # v PROVE u \in Idle' /\ u \in Values(full)
  <2>1. PICK x \in Slot : idle[x] = u /\ u # None
    BY DEF Idle, Values
  <2>2. u \in Proc /\ v \in Proc
    BY IdleFacts DEF PoolInv
  <2>3. x # slot[v]
    BY <2>1, <2>2, <1>4 DEF PoolInv, SlotsAgree
  <2>4. idle'[x] = u /\ full[x] = u
    BY <1>2, <1>3, <2>1, <2>3 DEF Without
  <2> QED
    BY <2>1, <2>4 DEF Idle, Values
<1>5. q = v
  BY <1>4
<1>6. o # r
  OBVIOUS
<1> QED
  BY <1>1, <1>4, <1>5, <1>6 DEF IsOldest

(* Parking pushes another conversation out only when it is the longest     *)
(* parked, and one at most: the eviction loop never overshoots.            *)
THEOREM EvictionIsFair == PoolSpec => EvictsOldestOnly
<1> DEFINE Step == \A p \in Idle' \ Idle, q \in Idle \ Idle' :
                     session[q] # session'[p] =>
                       \A r \in Idle \ {q} : r \in Idle' /\ <<q, r>> \in older
<1>1. ASSUME PoolInv, [PoolNext]_poolVars PROVE Step
  <2> SUFFICES ASSUME NEW p \in Idle' \ Idle, NEW q \in Idle \ Idle',
                      session[q] # session'[p],
                      NEW r \in Idle \ {q}
               PROVE  r \in Idle' /\ <<q, r>> \in older
    OBVIOUS
  <2>1. PICK t \in Proc \ Idle, s \in Session :
           key[t] # None /\ (ParkFits(t, s) \/ ParkEvicts(t, s))
    BY <1>1, OnlyParkAdds
  <2>2. CASE ParkEvicts(t, s)
    BY <1>1, <2>1, <2>2, EvictsTheFront
  <2>3. CASE ParkFits(t, s)
    <3>1. session[q] = s
      BY <1>1, <2>1, <2>3, FitsDisplacesItsOwn
    <3>2. idle' = Parked(t, s) /\ session' = [session EXCEPT ![t] = s]
      BY <2>3 DEF ParkFits, Settle
    <3>3. p = t
      BY <3>2 DEF Parked, Without, Idle, Values
    <3>4. session'[p] = s
      BY <1>1, <3>2, <3>3 DEF PoolInv, PoolTypeOK
    <3> QED
      BY <3>1, <3>4
  <2> QED
    BY <2>1, <2>2, <2>3
<1>2. PoolInv /\ [PoolNext]_poolVars => [Step]_poolVars
  BY <1>1
<1>3. PoolSpec => [][Step]_poolVars
  BY PoolInvariance, <1>2, PTL DEF PoolSpec
<1> QED
  BY <1>3 DEF EvictsOldestOnly

=============================================================================
