------------------------- MODULE SessionStoreProofs -------------------------
(***************************************************************************)
(* The session store implements the map of SessionMap, for any number of   *)
(* workers, channels, sessions and any clock, through crashes and failing  *)
(* saves.                                                                  *)
(*                                                                         *)
(* The invariant follows a call through its save: nobody else holds the    *)
(* lock, the cache is what the file holds, the draft is an outcome of the  *)
(* call on that very cache, and before the rename it is what the temporary *)
(* file holds.  So the rename changes the map as the call says, and any    *)
(* other end of a save leaves it alone.                                    *)
(***************************************************************************)
EXTENDS SessionStore, FiniteSetTheorems, TLAPS

(* The draft of a call is what the map allows the call to leave behind.    *)
Drafted(w) ==
  /\ call[w] \in Calls
  /\ draft[w] \in Store
  /\ cache # None
  /\ call[w].op = "set" =>
       \E e \in Entry : /\ e.session = call[w].session
                        /\ draft[w] = [cache EXCEPT ![call[w].channel] = e]
  /\ call[w].op \in {"get", "clear"} => draft[w] = [cache EXCEPT ![call[w].channel] = None]
  /\ call[w].op = "clearAll" => draft[w] = Empty

Saving(w) ==
  IF pc[w] = "idle" THEN call[w] = None
  ELSE /\ lock = w
       /\ Drafted(w)
       /\ pc[w] = "renaming" => tmp = draft[w]

StoreInv ==
  /\ StoreTypeOK
  /\ cache # None => cache = Parse(disk)
  /\ \A w \in Worker : Saving(w)

-----------------------------------------------------------------------------
LEMMA EmptyIsStore == Empty \in Store /\ Empty # None
BY StoreAssumption DEF Empty, Store

LEMMA ParseIsStore == ASSUME NEW f PROVE Parse(f) \in Store /\ Parse(f) # None
BY EmptyIsStore, StoreAssumption DEF Parse

LEMMA SizeIsNat == ASSUME NEW s PROVE Size(s) \in Nat
<1>1. IsFiniteSet({c \in Channel : s[c] # None})
  BY FS_Subset, StoreAssumption
<1> QED
  BY <1>1, FS_CardinalityType DEF Size

LEMMA InitHolds == StoreInit => StoreInv
<1> SUFFICES ASSUME StoreInit PROVE StoreInv
  OBVIOUS
<1>1. disk \in Store \cup {Corrupt, Undecodable, Missing}
  <2>1. ASSUME NEW c \in Channel, NEW s \in Session, NEW t \in {0, None}
        PROVE  [Empty EXCEPT ![c] = [session |-> s, at |-> t]] \in Store
    <3>1. [session |-> s, at |-> t] \in Entry
      BY StoreAssumption DEF Entry
    <3> QED
      BY <3>1, EmptyIsStore DEF Store
  <2>2. CASE disk \in {Corrupt, Undecodable, Missing}
    BY <2>2
  <2>3. CASE disk \notin {Corrupt, Undecodable, Missing}
    <3>1. PICK c \in Channel, s \in Session, t \in {0, None} :
            disk = [Empty EXCEPT ![c] = [session |-> s, at |-> t]]
      BY <2>3 DEF StoreInit
    <3> QED
      BY <3>1, <2>1
  <2> QED
    BY <2>2, <2>3
<1>2. StoreTypeOK
  <2>1. clock \in 0 .. MaxClock
    BY StoreAssumption DEF StoreInit
  <2>2. /\ pc \in [Worker -> {"idle", "saving", "writing", "renaming"}]
        /\ call \in [Worker -> Calls \cup {None}]
        /\ draft \in [Worker -> Store \cup {None}]
        /\ cleared \in [Worker -> Nat]
    BY DEF StoreInit
  <2>3. tmp = Missing /\ cache = None /\ lock = None /\ raised = FALSE
    BY DEF StoreInit
  <2> QED
    BY <1>1, <2>1, <2>2, <2>3 DEF StoreTypeOK
<1>3. \A w \in Worker : Saving(w)
  BY DEF StoreInit, Saving
<1> QED
  BY <1>2, <1>3 DEF StoreInit, StoreInv

(* A load, with a file that can be read, does not change the map.          *)
LEMMA LoadKeeps ==
  ASSUME StoreInv, ~ReadErrors, Load
  PROVE  /\ cache' \in Store /\ cache' # None
         /\ disk' \in Store \cup {Corrupt, Undecodable, Missing}
         /\ cache' = Parse(disk')
         /\ cache' = view
<1>1. CASE cache # None
  BY <1>1 DEF Load, StoreInv, StoreTypeOK, view
<1>2. CASE cache = None /\ disk \notin {Corrupt, Undecodable} /\ cache' = Parse(disk) /\ disk' = disk
  BY <1>2, ParseIsStore DEF StoreInv, StoreTypeOK, view
<1>3. CASE cache = None /\ disk = Corrupt /\ cache' = Empty /\ disk' \in {Missing, disk}
  BY <1>3, EmptyIsStore, StoreAssumption DEF StoreInv, StoreTypeOK, view, Parse
<1> QED
  BY <1>1, <1>2, <1>3 DEF Load

LEMMA EditedIsDraft ==
  ASSUME StoreTypeOK, NEW x \in Calls, NEW store \in Store
  PROVE  /\ Edited(x, store) \in Store
         /\ x.op = "set" => \E e \in Entry :
              e.session = x.session /\ Edited(x, store) = [store EXCEPT ![x.channel] = e]
         /\ x.op \in {"get", "clear"} => Edited(x, store) = [store EXCEPT ![x.channel] = None]
         /\ x.op = "clearAll" => Edited(x, store) = Empty
<1>1. CASE x.op = "set"
  <2>1. x.channel \in Channel /\ x.session \in Session
    BY <1>1 DEF Calls
  <2>2. [session |-> x.session, at |-> clock] \in Entry
    BY <2>1 DEF Entry, StoreTypeOK
  <2> QED
    BY <1>1, <2>1, <2>2 DEF Edited, Store
<1>2. CASE x.op \in {"get", "clear"}
  <2>1. x.channel \in Channel
    BY <1>2 DEF Calls
  <2> QED
    BY <1>2, <2>1 DEF Edited, Store
<1>3. CASE x.op = "clearAll"
  BY <1>3, EmptyIsStore DEF Edited
<1> QED
  BY <1>1, <1>2, <1>3 DEF Calls

-----------------------------------------------------------------------------
(* One lemma for every action: it keeps the invariant, and is a step of    *)
(* the map or leaves it alone.                                             *)
Stays == UNCHANGED <<view, call>>

LEMMA OthersIdle ==
  ASSUME StoreInv, NEW w \in Worker, lock = w \/ lock = None
  PROVE  \A v \in Worker : v # w => pc[v] = "idle" /\ call[v] = None
BY StoreAssumption DEF StoreInv, Saving

LEMMA CallKeeps ==
  ASSUME StoreInv, ~ReadErrors, NEW w \in Worker, NEW x \in Calls, Call(w, x)
  PROVE  StoreInv' /\ (Stays \/ Map!Ask(w, x))
<1>1. /\ cache' \in Store /\ cache' # None
      /\ disk' \in Store \cup {Corrupt, Undecodable, Missing}
      /\ cache' = Parse(disk') /\ cache' = view
  BY LoadKeeps DEF Call
<1>2. pc[w] = "idle" /\ call[w] = None /\ w \in Worker
  BY DEF Call, StoreInv, Saving
<1>3. \A v \in Worker : pc[v] = "idle" /\ call[v] = None
  BY <1>2, OthersIdle DEF Call
<1>4. cleared' \in [Worker -> Nat]
  BY DEF Call, StoreInv, StoreTypeOK
<1>6. view' = view
  BY <1>1 DEF view
<1>7. CASE OnlyReads(x, cache')
  <2>1. UNCHANGED <<lock, pc, call, draft, tmp, clock, raised>>
    BY <1>7 DEF Call
  <2>2. \A v \in Worker : Saving(v)'
    BY <1>3, <2>1 DEF Saving
  <2> QED
    BY <1>1, <1>4, <1>6, <2>1, <2>2 DEF StoreInv, StoreTypeOK, Stays, Parse
<1>8. CASE ~OnlyReads(x, cache')
  <2>1. /\ lock' = w
        /\ pc' = [pc EXCEPT ![w] = "saving"]
        /\ call' = [call EXCEPT ![w] = x]
        /\ draft' = [draft EXCEPT ![w] = Edited(x, cache')]
        /\ UNCHANGED <<tmp, clock, raised>>
    BY <1>8 DEF Call
  <2>2. /\ Edited(x, cache') \in Store
        /\ x.op = "set" => \E e \in Entry :
             e.session = x.session /\ Edited(x, cache') = [cache' EXCEPT ![x.channel] = e]
        /\ x.op \in {"get", "clear"} => Edited(x, cache') = [cache' EXCEPT ![x.channel] = None]
        /\ x.op = "clearAll" => Edited(x, cache') = Empty
    BY <1>1, EditedIsDraft DEF StoreInv
  <2>3. StoreTypeOK'
    BY <1>1, <1>4, <2>1, <2>2 DEF StoreInv, StoreTypeOK
  <2>4. call'[w] = x /\ draft'[w] = Edited(x, cache') /\ pc'[w] = "saving"
    BY <2>1 DEF StoreInv, StoreTypeOK
  <2>5. Drafted(w)'
    BY <1>1, <2>2, <2>4, EmptyIsStore DEF Drafted
  <2>6. \A v \in Worker : Saving(v)'
    <3>1. Saving(w)'
      BY <2>1, <2>4, <2>5 DEF Saving
    <3>2. ASSUME NEW v \in Worker, v # w PROVE Saving(v)'
      BY <1>3, <2>1, <3>2 DEF Saving, StoreInv, StoreTypeOK
    <3> QED
      BY <3>1, <3>2
  <2>7. Map!Ask(w, x)
    BY <1>2, <1>6, <2>1 DEF Map!Ask
  <2> QED
    BY <1>1, <2>3, <2>6, <2>7 DEF StoreInv, Parse
<1> QED
  BY <1>7, <1>8

LEMMA RaisingKeeps ==
  ASSUME StoreInv, NEW w \in Worker, CallRaises(w) PROVE StoreInv' /\ Stays
<1>1. UNCHANGED <<disk, tmp, cache, clock, lock, pc, call, draft, cleared>> /\ raised' = TRUE
  BY DEF CallRaises
<1>2. StoreTypeOK'
  BY <1>1 DEF StoreInv, StoreTypeOK
<1>3. \A v \in Worker : Saving(v)'
  BY <1>1 DEF StoreInv, Saving, Drafted
<1> QED
  BY <1>1, <1>2, <1>3 DEF StoreInv, Stays, view, Parse

(* The two steps of a save before the rename.                              *)
LEMMA TmpKeeps ==
  ASSUME StoreInv, NEW w \in Worker, OpenTmp(w) \/ WriteTmp(w) PROVE StoreInv' /\ Stays
<1>1. UNCHANGED <<disk, cache, clock, lock, call, draft, cleared, raised>>
  BY DEF OpenTmp, WriteTmp
<1>2. pc[w] # "idle" /\ lock = w /\ draft[w] \in Store
  BY DEF OpenTmp, WriteTmp, StoreInv, Saving, Drafted
<1>3. PICK step \in {"writing", "renaming"} :
        /\ pc' = [pc EXCEPT ![w] = step]
        /\ tmp' \in Store \cup {Torn}
        /\ step = "renaming" => tmp' = draft[w]
  BY <1>2 DEF OpenTmp, WriteTmp
<1>4. StoreTypeOK'
  BY <1>1, <1>3 DEF StoreInv, StoreTypeOK
<1>5. \A v \in Worker : v # w => pc[v] = "idle" /\ call[v] = None
  BY <1>2, OthersIdle
<1>6. \A v \in Worker : Saving(v)'
  <2>1. Saving(w)'
    BY <1>1, <1>2, <1>3 DEF StoreInv, StoreTypeOK, Saving, Drafted
  <2>2. ASSUME NEW v \in Worker, v # w PROVE Saving(v)'
    BY <1>1, <1>3, <1>5, <2>2 DEF StoreInv, StoreTypeOK, Saving
  <2> QED
    BY <2>1, <2>2
<1> QED
  BY <1>1, <1>4, <1>6 DEF StoreInv, Stays, view, Parse

(* After a call has returned nobody is in one.                             *)
LEMMA ReturnKeeps ==
  ASSUME StoreInv, NEW w \in Worker, lock = w, NEW n \in Nat, Return(w, n),
         disk' \in Store \cup {Corrupt, Undecodable, Missing},
         tmp' \in Store \cup {Torn, Missing}, cache' \in Store,
         cache' = Parse(disk'), UNCHANGED <<clock, raised>>
  PROVE  StoreInv'
<1>1. /\ cleared' \in [Worker -> Nat] /\ lock' = None
      /\ pc' = [pc EXCEPT ![w] = "idle"]
      /\ call' = [call EXCEPT ![w] = None]
      /\ draft' = [draft EXCEPT ![w] = None]
  BY DEF Return, StoreInv, StoreTypeOK
<1>2. StoreTypeOK'
  BY <1>1 DEF StoreInv, StoreTypeOK
<1>3. \A v \in Worker : v # w => pc[v] = "idle" /\ call[v] = None
  BY OthersIdle
<1>4. \A v \in Worker : Saving(v)'
  BY <1>1, <1>3 DEF Saving, StoreInv, StoreTypeOK
<1> QED
  BY <1>2, <1>4 DEF StoreInv, Parse

LEMMA ReplaceKeeps ==
  ASSUME StoreInv, NEW w \in Worker, Replace(w)
  PROVE  /\ StoreInv' /\ Map!Succeed(w)
         /\ call[w].op = "clearAll" => Parse(disk') = Empty
<1>1. /\ pc[w] = "renaming" /\ lock = w /\ tmp = draft[w] /\ Drafted(w)
  BY DEF Replace, StoreInv, Saving
<1>2. draft[w] \in Store /\ draft[w] # None /\ call[w] \in Calls /\ call[w] # None
  BY <1>1, StoreAssumption DEF Drafted
<1>3. disk' = draft[w] /\ tmp' = Missing /\ cache' = draft[w] /\ UNCHANGED <<clock, raised>>
  BY <1>1 DEF Replace
<1>4. cache' = Parse(disk')
  BY <1>2, <1>3 DEF Parse
<1>5. PICK n \in Nat : Return(w, n)
  BY SizeIsNat DEF Replace
<1>6. StoreInv'
  BY <1>1, <1>2, <1>3, <1>4, <1>5, ReturnKeeps
<1>7. view = cache /\ view' = draft[w]
  BY <1>1, <1>2, <1>3 DEF view, Drafted
<1>8. draft[w] \in Map!Outcomes(call[w])
  <2>1. CASE call[w].op = "set"
    <3>1. PICK e \in Entry : /\ e.session = call[w].session
                             /\ draft[w] = [view EXCEPT ![call[w].channel] = e]
      BY <1>1, <1>7, <2>1 DEF Drafted
    <3>2. Map!Outcomes(call[w]) =
            {[view EXCEPT ![call[w].channel] = f] :
               f \in {g \in Entry : g.session = call[w].session}}
      BY <2>1 DEF Map!Outcomes
    <3> QED
      BY <3>1, <3>2
  <2>2. CASE call[w].op \in {"get", "clear"}
    <3>1. draft[w] = [view EXCEPT ![call[w].channel] = None]
      BY <1>1, <1>7, <2>2 DEF Drafted
    <3>2. Map!Outcomes(call[w]) = {[view EXCEPT ![call[w].channel] = None]}
      BY <2>2 DEF Map!Outcomes
    <3> QED
      BY <3>1, <3>2
  <2>3. CASE call[w].op = "clearAll"
    <3>1. draft[w] = Empty
      BY <1>1, <2>3 DEF Drafted
    <3>2. Map!Outcomes(call[w]) = {[c \in Channel |-> None]}
      BY <2>3 DEF Map!Outcomes
    <3> QED
      BY <3>1, <3>2 DEF Empty
  <2> QED
    BY <1>2, <2>1, <2>2, <2>3 DEF Calls
<1>9. Map!Succeed(w)
  BY <1>2, <1>5, <1>7, <1>8 DEF Map!Succeed, Return
<1>10. call[w].op = "clearAll" => Parse(disk') = Empty
  BY <1>1, <1>3, <1>4 DEF Drafted
<1> QED
  BY <1>6, <1>9, <1>10

LEMMA SaveFailsKeeps ==
  ASSUME StoreInv, NEW w \in Worker, SaveFails(w) PROVE StoreInv' /\ Map!Fail(w)
<1>1. pc[w] # "idle" /\ lock = w /\ Drafted(w) /\ cache # None
  BY DEF SaveFails, StoreInv, Saving, Drafted
<1>2. Return(w, 0) /\ tmp' \in {tmp, Missing} /\ UNCHANGED <<disk, cache, clock, raised>>
  BY DEF SaveFails
<1>3. cache \in Store /\ cache = Parse(disk)
  BY <1>1 DEF StoreInv, StoreTypeOK
<1>4. cache' = Parse(disk')
  BY <1>2, <1>3
<1>5. StoreInv'
  <2>1. /\ disk' \in Store \cup {Corrupt, Undecodable, Missing}
        /\ tmp' \in Store \cup {Torn, Missing} /\ cache' \in Store
    BY <1>2, <1>3 DEF StoreInv, StoreTypeOK
  <2> QED
    BY <1>1, <1>2, <1>4, <2>1, ReturnKeeps
<1>6. call[w] # None
  BY <1>1, StoreAssumption DEF Drafted
<1> QED
  BY <1>2, <1>5, <1>6 DEF Map!Fail, Return, view, Parse

LEMMA CrashKeeps == ASSUME StoreInv, Crash PROVE StoreInv' /\ Map!Restart
<1>1. /\ cache' = None /\ lock' = None
      /\ pc' = [w \in Worker |-> "idle"]
      /\ call' = [w \in Worker |-> None]
      /\ draft' = [w \in Worker |-> None]
      /\ cleared' = [w \in Worker |-> 0]
      /\ UNCHANGED <<disk, tmp, clock, raised>>
  BY DEF Crash
<1>2. StoreTypeOK'
  BY <1>1 DEF StoreInv, StoreTypeOK
<1>3. \A w \in Worker : Saving(w)'
  BY <1>1 DEF Saving
<1>4. view' = view
  BY <1>1 DEF StoreInv, view, Parse
<1> QED
  BY <1>1, <1>2, <1>3, <1>4 DEF StoreInv, Map!Restart

LEMMA TickKeeps == ASSUME StoreInv, Tick PROVE StoreInv' /\ Stays
<1>1. /\ clock' \in 0 .. MaxClock
      /\ UNCHANGED <<disk, tmp, cache, lock, pc, call, draft, cleared, raised>>
  BY StoreAssumption DEF Tick, StoreInv, StoreTypeOK
<1>2. StoreTypeOK'
  BY <1>1 DEF StoreInv, StoreTypeOK
<1>3. \A w \in Worker : Saving(w)'
  BY <1>1 DEF StoreInv, Saving, Drafted
<1> QED
  BY <1>1, <1>2, <1>3 DEF StoreInv, Stays, view, Parse

LEMMA NextKeeps ==
  ASSUME StoreInv, ~ReadErrors, [StoreNext]_storeVars
  PROVE  StoreInv' /\ [Map!MapNext]_<<view, call>>
<1>1. CASE UNCHANGED storeVars
  <2>1. UNCHANGED <<disk, tmp, cache, clock, lock, pc, call, draft, cleared, raised>>
    BY <1>1 DEF storeVars
  <2>2. StoreTypeOK'
    BY <2>1 DEF StoreInv, StoreTypeOK
  <2>3. \A w \in Worker : Saving(w)'
    BY <2>1 DEF StoreInv, Saving, Drafted
  <2> QED
    BY <2>1, <2>2, <2>3 DEF StoreInv, view, Parse
<1>2. ASSUME NEW w \in Worker, NEW x \in Calls, Call(w, x)
      PROVE  StoreInv' /\ [Map!MapNext]_<<view, call>>
  BY <1>2, CallKeeps DEF Stays, Map!MapNext
<1>3. ASSUME NEW w \in Worker,
             CallRaises(w) \/ OpenTmp(w) \/ WriteTmp(w) \/ Replace(w) \/ SaveFails(w)
      PROVE  StoreInv' /\ [Map!MapNext]_<<view, call>>
  BY <1>3, RaisingKeeps, TmpKeeps, ReplaceKeeps, SaveFailsKeeps DEF Stays, Map!MapNext
<1>4. CASE Crash \/ Tick
  BY <1>4, CrashKeeps, TickKeeps DEF Stays, Map!MapNext
<1> QED
  BY <1>1, <1>2, <1>3, <1>4 DEF StoreNext

-----------------------------------------------------------------------------
(* The invariant holds in every reachable state, as long as good files can *)
(* be read (_load).                                                        *)
THEOREM StoreInvariance == ~ReadErrors /\ StoreSpec => []StoreInv
<1> SUFFICES ASSUME ~ReadErrors PROVE StoreSpec => []StoreInv
  OBVIOUS
<1>1. StoreInit => StoreInv
  BY InitHolds
<1>2. StoreInv /\ [StoreNext]_storeVars => StoreInv'
  BY NextKeeps
<1> QED
  BY <1>1, <1>2, PTL DEF StoreSpec

(* The store's state keeps its types; between calls, and during one as     *)
(* well, the cache is what a restart would read (_save).                   *)
THEOREM StoreIsConsistent ==
  ~ReadErrors /\ StoreSpec => [](StoreTypeOK /\ CacheMatchesDisk)
<1>1. StoreInv => StoreTypeOK /\ CacheMatchesDisk
  BY DEF StoreInv, CacheMatchesDisk
<1> QED
  BY <1>1, StoreInvariance, PTL

(* Every behaviour of the store is one of the map: its calls are atomic and *)
(* whole, failed saves and crashes change nothing (_store_lock, _save).    *)
THEOREM StoreImplementsMap == ~ReadErrors /\ StoreSpec => MapSpec
<1> SUFFICES ASSUME ~ReadErrors PROVE StoreSpec => MapSpec
  OBVIOUS
<1>1. StoreInit => Map!MapInit
  <2> SUFFICES ASSUME StoreInit PROVE Map!MapInit
    OBVIOUS
  <2>1. view \in Store
    BY ParseIsStore DEF StoreInit, view
  <2> QED
    BY <2>1 DEF StoreInit, Map!MapInit, Store
<1>2. StoreInv /\ [StoreNext]_storeVars => [Map!MapNext]_<<view, call>>
  BY NextKeeps
<1> QED
  BY <1>1, <1>2, StoreInvariance, PTL DEF StoreSpec, MapSpec, Map!MapSpec

(* What clear_all_sessions counts as cleared is gone from the file         *)
(* (sessions.py:290-292).                                                  *)
THEOREM ClearsAreReal == ~ReadErrors /\ StoreSpec => ReportedClearIsReal
<1>1. StoreInv /\ [StoreNext]_storeVars =>
        [\A w \in Worker : cleared'[w] > cleared[w] => Parse(disk') = Empty]_storeVars
  <2> SUFFICES ASSUME StoreInv, StoreNext, NEW w \in Worker, cleared'[w] > cleared[w]
               PROVE  Parse(disk') = Empty
    OBVIOUS
  <2>1. cleared \in [Worker -> Nat]
    BY DEF StoreInv, StoreTypeOK
  <2>2. ~(cleared'[w] \in {0, cleared[w]})
    BY <2>1
  <2>3. ASSUME NEW v \in Worker, Replace(v) PROVE Parse(disk') = Empty
    <3>1. cleared' = [cleared EXCEPT ![v] = IF call[v].op = "clearAll" THEN Size(cache) ELSE 0]
      BY <2>3 DEF Replace, Return
    <3>2. call[v].op = "clearAll"
      BY <2>1, <2>2, <3>1
    <3> QED
      BY <2>3, <3>2, ReplaceKeeps
  <2>4. ASSUME NEW v \in Worker, NEW x \in Calls, Call(v, x) PROVE FALSE
    BY <2>1, <2>2, <2>4 DEF Call
  <2>5. ASSUME NEW v \in Worker, CallRaises(v) \/ OpenTmp(v) \/ WriteTmp(v) \/ SaveFails(v)
        PROVE  FALSE
    BY <2>1, <2>2, <2>5 DEF CallRaises, OpenTmp, WriteTmp, SaveFails, Return
  <2>6. ~Crash /\ ~Tick
    BY <2>1, <2>2 DEF Crash, Tick
  <2> QED
    BY <2>3, <2>4, <2>5, <2>6 DEF StoreNext
<1> QED
  BY <1>1, StoreInvariance, PTL DEF StoreSpec, ReportedClearIsReal

=============================================================================
