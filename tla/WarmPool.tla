------------------------------ MODULE WarmPool ------------------------------
(***************************************************************************)
(* The pool of idle warm `claude` processes (src/src/warm_pool.py).        *)
(*                                                                         *)
(* A warm process serves a turn, is parked in the pool under the slot      *)
(* <<key, session>>, and leaves it by being checked out for the next turn  *)
(* of the same conversation, by being displaced or evicted when another    *)
(* process is parked, by its idle timer, or because the bot drops it.      *)
(* Every method of WarmClaudePool runs without an await, so each one is    *)
(* one action.  What the caller does with the processes that leave the     *)
(* pool (retire, terminate, use) is the business of Runner.tla, which      *)
(* composes these actions with the turns.                                  *)
(***************************************************************************)
EXTENDS Naturals, FiniteSets

CONSTANTS
  Proc,         \* process objects; an object may be reused once it is gone
  Key,          \* WarmKey values: what is fixed when a process is spawned
  Session,      \* session ids the CLI hands out
  None,         \* Python's None
  WarmEnabled,  \* WARM_CLAUDE
  Capacity      \* WARM_CLAUDE_MAX_PROCESSES, 0 meaning "never reuse"

Slot == Key \X Session

ASSUME PoolAssumption ==
  /\ IsFiniteSet(Proc)
  /\ None \notin Proc \cup Key \cup Session \cup Slot
  /\ WarmEnabled \in BOOLEAN
  /\ Capacity \in Nat

VARIABLES
  idle,     \* _idle: slot -> the process parked there, or None
  older,    \* the insertion order of _idle: <<p, q>> when p was parked before q
  slot,     \* WarmProcess.parked_slot
  timer,    \* the processes whose _expiry_task is armed
  session,  \* WarmProcess.session_id
  key,      \* WarmProcess.key
  live      \* the processes whose returncode is None

poolVars == <<idle, older, slot, timer, session, key, live>>

Values(dict) == {dict[s] : s \in Slot} \ {None}
Idle == Values(idle)

PoolTypeOK ==
  /\ idle \in [Slot -> Proc \cup {None}]
  /\ older \subseteq Proc \X Proc
  /\ slot \in [Proc -> Slot \cup {None}]
  /\ timer \subseteq Proc
  /\ session \in [Proc -> Session \cup {None}]
  /\ key \in [Proc -> Key \cup {None}]
  /\ live \subseteq Proc

PoolInit ==
  /\ idle = [s \in Slot |-> None]
  /\ older = {}
  /\ slot = [p \in Proc |-> None]
  /\ timer = {}
  /\ session = [p \in Proc |-> None]
  /\ key = [p \in Proc |-> None]
  /\ live = {}

-----------------------------------------------------------------------------
(* The dict, and leaving it: every removal clears parked_slot and cancels  *)
(* the idle timer of the processes that go.                                *)

Without(dict, S) == [s \in Slot |-> IF s \in S THEN None ELSE dict[s]]

Pop(S) ==
  LET gone == {idle[s] : s \in S} IN
  /\ idle' = Without(idle, S)
  /\ older' = {o \in older : o[1] \notin gone /\ o[2] \notin gone}
  /\ slot' = [p \in Proc |-> IF p \in gone THEN None ELSE slot[p]]
  /\ timer' = timer \ gone
  /\ UNCHANGED <<session, key, live>>

CheckoutPeeks(k, s) ==      \* mutant: looks the process up and leaves it parked
  WarmEnabled /\ idle[<<k, s>>] \in live /\ UNCHANGED poolVars

CheckoutUnchecked(k, s) ==  \* mutant: does not look whether it is alive
  WarmEnabled /\ idle[<<k, s>>] # None /\ Pop({<<k, s>>})

(* acquire: a live process holding the conversation is checked out, ...    *)
Checkout(k, s) ==
  /\ WarmEnabled
  /\ idle[<<k, s>>] \in live
  /\ Pop({<<k, s>>})

(* ... one that died while parked is popped and handed to the retire path. *)
AcquireDead(k, s) ==
  /\ WarmEnabled
  /\ idle[<<k, s>>] \in Proc \ live
  /\ Pop({<<k, s>>})

Parks(k, s) == s # None /\ WarmEnabled /\ idle[<<k, s>>] # None

-----------------------------------------------------------------------------
(* park: the runner records the session the turn ended with (None when the *)
(* CLI never named one) and returns the process.                           *)

Refuses(p, s) == ~WarmEnabled \/ p \notin live \/ s = None \/ Capacity = 0

ParkRefused(p, s) ==
  /\ Refuses(p, s)
  /\ session' = [session EXCEPT ![p] = s]
  /\ UNCHANGED <<idle, older, slot, timer, key, live>>

SameConversation(s) == {x \in Slot : x[2] = s}

ParkedByKey(p, s) ==        \* mutant: pops its own slot only
  [idle EXCEPT ![<<key[p], s>>] = p]

ParkedByResumed(p, s) ==    \* mutant: files it under what the turn resumed
  LET old == IF session[p] = None THEN s ELSE session[p] IN
  [Without(idle, SameConversation(s)) EXCEPT ![<<key[p], old>>] = p]

(* The dict once every slot of the conversation is popped and p is inserted *)
(* last.                                                                   *)
Parked(p, s) == [Without(idle, SameConversation(s)) EXCEPT ![<<key[p], s>>] = p]

NewestInstead(q, dict, p) ==  \* mutant: evicts from the back
  /\ q \in Values(dict) \ {p}
  /\ \A r \in Values(dict) \ {p, q} : <<r, q>> \in older

(* The front of the dict, once p has been added behind everything in it.   *)
IsOldest(q, dict, p) ==
  /\ q \in Values(dict) \ {p}
  /\ \A r \in Values(dict) \ {p, q} : <<q, r>> \in older

ArmedLate(p, kept) ==       \* mutant: does not arm the timer
  (timer \ Idle) \cup (timer \cap kept)

ArmedTwice(p, kept) ==      \* mutant: does not cancel the displaced ones
  timer \cup {p}

(* The timers, once p is armed and what park pushed out is disarmed.       *)
Armed(p, kept) == (timer \ Idle) \cup (timer \cap kept) \cup {p}

(* parked_slot of every process, once dict is what the pool holds.         *)
SlotNames(p, s, dict) ==
  [q \in Proc |-> IF q = p THEN <<key[p], s>>
                 ELSE IF q \in Idle \ Values(dict) THEN None ELSE slot[q]]

(* dict is what the pool holds when park returns.                          *)
Settle(p, s, dict) ==
  LET kept == Values(dict) \ {p} IN
  /\ idle' = dict
  /\ older' = {o \in older : o[1] \in kept /\ o[2] \in kept} \cup (kept \X {p})
  /\ slot' = SlotNames(p, s, dict)
  /\ timer' = Armed(p, kept)
  /\ session' = [session EXCEPT ![p] = s]
  /\ UNCHANGED <<key, live>>

ParkFitsLoosely(p, s) ==    \* mutant: off by one
  /\ ~Refuses(p, s)
  /\ Cardinality(Values(Parked(p, s))) <= Capacity + 1
  /\ Settle(p, s, Parked(p, s))

ParkFits(p, s) ==
  /\ ~Refuses(p, s)
  /\ Cardinality(Values(Parked(p, s))) <= Capacity
  /\ Settle(p, s, Parked(p, s))

(* The eviction loop runs at most once: WithinCapacity held before the     *)
(* insertion.                                                              *)
ParkEvicts(p, s) ==
  /\ ~Refuses(p, s)
  /\ Cardinality(Values(Parked(p, s))) > Capacity
  /\ \E q \in Idle :
       /\ IsOldest(q, Parked(p, s), p)
       /\ Settle(p, s, Without(Parked(p, s), {slot[q]}))

Park(p, s) == ParkRefused(p, s) \/ ParkFits(p, s) \/ ParkEvicts(p, s)

-----------------------------------------------------------------------------
(* forget and _expire_later remove through the recorded slot, and only when *)
(* the dict still holds this very process there.                           *)
OwnSlot(p) == {s \in Slot : s = slot[p] /\ idle[s] = p}

Forget(p) ==
  /\ idle' = Without(idle, OwnSlot(p))
  /\ older' = {o \in older : p \notin {o[1], o[2]}}
  /\ slot' = [slot EXCEPT ![p] = None]
  /\ timer' = timer \ {p}
  /\ UNCHANGED <<session, key, live>>

(* The TTL ran out with the timer still armed.                             *)
Expire(p) ==
  /\ p \in timer
  /\ OwnSlot(p) # {}
  /\ Pop(OwnSlot(p))

Discard(targets) == Pop({s \in Slot : idle[s] \in targets})

Reset == Pop(Slot)

-----------------------------------------------------------------------------
(* Processes: a spawn wrapped in a WarmProcess, and the end of a process,  *)
(* which may come at any time and which the pool is not told about.        *)
Adopt(p, k) ==
  /\ p \notin live \cup Idle
  /\ live' = live \cup {p}
  /\ key' = [key EXCEPT ![p] = k]
  /\ session' = [session EXCEPT ![p] = None]
  /\ UNCHANGED <<idle, older, slot, timer>>

Exit(p) ==
  /\ p \in live
  /\ live' = live \ {p}
  /\ UNCHANGED <<idle, older, slot, timer, session, key>>

PoolNext ==
  \/ \E k \in Key, s \in Session : Checkout(k, s) \/ AcquireDead(k, s)
  \/ \E p \in Proc \ Idle, s \in Session \cup {None} :
       key[p] # None /\ Park(p, s)
  \/ \E p \in Proc : Expire(p) \/ Forget(p) \/ Exit(p)
  \/ \E targets \in SUBSET Proc : Discard(targets)
  \/ Reset
  \/ \E p \in Proc, k \in Key \cup {None}: Adopt(p, k)

PoolSpec == PoolInit /\ [][PoolNext]_poolVars

-----------------------------------------------------------------------------
(* Safety.                                                                 *)

(* One conversation, one parked process, whatever key it was parked under: *)
(* otherwise a rotation of working directories leaves a process that missed *)
(* a turn where the next acquire finds it (park, warm_pool.py:327-338).    *)
OneParkedPerConversation ==
  \A a, b \in Slot :
    a[2] = b[2] /\ idle[a] # None /\ idle[b] # None => a = b

(* The dict and the slot recorded on each process tell the same story, so  *)
(* that a removal through parked_slot never misses (warm_pool.py:123-127). *)
SlotsAgree ==
  \A p \in Proc : \A s \in Slot : idle[s] = p <=> slot[p] = s

(* What is parked under a slot really was spawned with that key and really *)
(* holds that conversation: acquire compares nothing but the slot.         *)
SlotTellsTheTruth ==
  \A s \in Slot : idle[s] # None => key[idle[s]] = s[1] /\ session[idle[s]] = s[2]

(* A parked process always has a running idle timer (or it would be parked *)
(* for ever) and a process outside the pool never has one (or the timer    *)
(* could retire a process a turn is using).                                *)
TimersMatchIdle == timer = Idle

(* park evicts enough: the pool never stays above its configured size.     *)
WithinCapacity == Cardinality(Idle) <= Capacity

(* Parking a process pushes out another conversation only when that one is *)
(* the longest parked of all, and never more than one of them.             *)
EvictsOldestOnly ==
  [][\A p \in Idle' \ Idle, q \in Idle \ Idle' :
       session[q] # session'[p] =>
         \A r \in Idle \ {q} : r \in Idle' /\ <<q, r>> \in older]_poolVars

=============================================================================
