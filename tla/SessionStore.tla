---------------------------- MODULE SessionStore ----------------------------
(***************************************************************************)
(* The session store of src/src/sessions.py: a JSON file, the process-local *)
(* cache trusted in its place, and read-modify-write calls under one lock. *)
(*                                                                         *)
(* A call takes the lock, loads, and either returns or saves: it writes a  *)
(* temporary file, renames it over the store and adopts it as the cache.   *)
(* The bot may crash between any two of these steps, and each of the file  *)
(* operations may fail.  Calls come from Worker threads: today only the    *)
(* event-loop thread calls, and the lock is there for the day others do.   *)
(***************************************************************************)
EXTENDS Naturals, FiniteSets

CONSTANTS
  Worker,      \* threads that call the store
  Channel,     \* Discord channels
  Session,     \* session ids
  None,
  Corrupt,     \* a file that does not parse to an object
  Undecodable, \* a file that is not UTF-8
  Torn,        \* a file whose write was cut short
  Missing,     \* no file
  ReadErrors,  \* whether reading a good file may fail
  TTL,         \* _effective_ttl_seconds
  MaxClock     \* bound on time

Entry == [session : Session, at : (0 .. MaxClock) \cup {None}]
Store == [Channel -> Entry \cup {None}]
Empty == [c \in Channel |-> None]

Calls == [op : {"get", "set", "clear"}, channel : Channel, session : Session]
           \cup [op : {"clearAll"}]

ASSUME StoreAssumption ==
  /\ IsFiniteSet(Channel)
  /\ TTL \in Nat /\ MaxClock \in Nat
  /\ ReadErrors \in BOOLEAN
  /\ None \notin Worker \cup Entry \cup Store \cup Calls
  /\ {Corrupt, Undecodable, Torn, Missing} \cap Store = {}

VARIABLES
  disk,    \* the store file
  tmp,     \* the temporary file of this process
  cache,   \* _store_cache, None until the first load
  clock,
  lock,    \* who holds _store_lock, or None
  pc,      \* where each worker is
  call,    \* the call it is making
  draft,   \* the store it is about to save
  cleared, \* what clear_all_sessions last told each worker
  raised   \* a call has ended with an exception

storeVars == <<disk, tmp, cache, clock, lock, pc, call, draft, cleared, raised>>

StoreTypeOK ==
  /\ disk \in Store \cup {Corrupt, Undecodable, Missing}
  /\ tmp \in Store \cup {Torn, Missing}
  /\ cache \in Store \cup {None}
  /\ clock \in 0 .. MaxClock
  /\ lock \in Worker \cup {None}
  /\ pc \in [Worker -> {"idle", "saving", "writing", "renaming"}]
  /\ call \in [Worker -> Calls \cup {None}]
  /\ draft \in [Worker -> Store \cup {None}]
  /\ cleared \in [Worker -> Nat]
  /\ raised \in BOOLEAN

(* The file is whatever an earlier run of the bot, an older version (plain *)
(* ids without a date) or an accident left there.                          *)
StoreInit ==
  /\ disk \in {Corrupt, Undecodable, Missing} \cup
       {[Empty EXCEPT ![c] = [session |-> s, at |-> t]] :
          c \in Channel, s \in Session, t \in {0, None}}
  /\ tmp = Missing
  /\ cache = None
  /\ clock = 0
  /\ lock = None
  /\ pc = [w \in Worker |-> "idle"]
  /\ call = [w \in Worker |-> None]
  /\ draft = [w \in Worker |-> None]
  /\ cleared = [w \in Worker |-> 0]
  /\ raised = FALSE

Parse(file) == IF file \in Store THEN file ELSE Empty

(* _load: the cache, or else the file; one that cannot be read is moved    *)
(* aside, or stays when even that fails, and the store starts empty.       *)
Load ==
  IF cache # None THEN UNCHANGED <<cache, disk>>
  ELSE \/ /\ disk \notin {Corrupt, Undecodable}
          /\ cache' = Parse(disk)
          /\ UNCHANGED disk
       \/ /\ disk = Corrupt \/ (ReadErrors /\ disk \in Store)
          /\ cache' = Empty
          /\ disk' \in {Missing, disk}

Expired(e) == e.at # None /\ clock - e.at > TTL

Size(store) == Cardinality({c \in Channel : store[c] # None})

(* The calls that return without a save: a session that is not there or not *)
(* too old, and clearing an empty store.                                   *)
OnlyReads(x, store) ==
  \/ x.op = "get" /\ (store[x.channel] = None \/ ~Expired(store[x.channel]))
  \/ x.op = "clearAll" /\ store = Empty

Edited(x, store) ==
  CASE x.op = "set" ->
         [store EXCEPT ![x.channel] = [session |-> x.session, at |-> clock]]
    [] x.op \in {"get", "clear"} -> [store EXCEPT ![x.channel] = None]
    [] x.op = "clearAll" -> Empty

Call(w, x) ==
  /\ pc[w] = "idle" /\ lock = None
  /\ Load
  /\ cleared' = [cleared EXCEPT ![w] = 0]
  /\ IF OnlyReads(x, cache')
     THEN UNCHANGED <<lock, pc, call, draft>>
     ELSE /\ lock' = w
          /\ pc' = [pc EXCEPT ![w] = "saving"]
          /\ call' = [call EXCEPT ![w] = x]
          /\ draft' = [draft EXCEPT ![w] = Edited(x, cache')]
  /\ UNCHANGED <<tmp, clock, raised>>

(* json.loads gets no further than read_text: UnicodeDecodeError is none   *)
(* of the errors _load catches, and leaves the store as it is.             *)
CallRaises(w) ==
  /\ pc[w] = "idle" /\ lock = None
  /\ cache = None /\ disk = Undecodable
  /\ raised' = TRUE
  /\ UNCHANGED <<disk, tmp, cache, clock, lock, pc, call, draft, cleared>>

(* Only clear_all_sessions tells its caller whether the save landed.       *)
Return(w, count) ==
  /\ cleared' = [cleared EXCEPT ![w] = count]
  /\ lock' = None
  /\ pc' = [pc EXCEPT ![w] = "idle"]
  /\ call' = [call EXCEPT ![w] = None]
  /\ draft' = [draft EXCEPT ![w] = None]

OpenStore(w) ==             \* mutant: writes the store in place
  /\ pc[w] = "saving"
  /\ disk' = Corrupt
  /\ tmp' = Torn
  /\ pc' = [pc EXCEPT ![w] = "writing"]
  /\ UNCHANGED <<cache, clock, lock, call, draft, cleared, raised>>

OpenToRename(w) ==          \* mutant: renames before the write is done
  /\ pc[w] = "saving"
  /\ tmp' = Torn
  /\ pc' = [pc EXCEPT ![w] = "renaming"]
  /\ UNCHANGED <<disk, cache, clock, lock, call, draft, cleared, raised>>

(* _save: write_text opens and truncates the temporary file, ...           *)
OpenTmp(w) ==
  /\ pc[w] = "saving"
  /\ tmp' = Torn
  /\ pc' = [pc EXCEPT ![w] = "writing"]
  /\ UNCHANGED <<disk, cache, clock, lock, call, draft, cleared, raised>>

(* ... fills it, ...                                                       *)
WriteTmp(w) ==
  /\ pc[w] = "writing"
  /\ tmp' = draft[w]
  /\ pc' = [pc EXCEPT ![w] = "renaming"]
  /\ UNCHANGED <<disk, cache, clock, lock, call, draft, cleared, raised>>

(* ... and os.replace puts it in the place of the store; the cache follows. *)
Replace(w) ==
  /\ pc[w] = "renaming"
  /\ disk' = tmp
  /\ tmp' = Missing
  /\ cache' = draft[w]
  /\ Return(w, IF call[w].op = "clearAll" THEN Size(cache) ELSE 0)
  /\ UNCHANGED <<clock, raised>>

FailsAdopted(w) ==          \* mutant: the cache follows before the rename
  /\ pc[w] # "idle"
  /\ tmp' \in {tmp, Missing}
  /\ cache' = draft[w]
  /\ Return(w, 0)
  /\ UNCHANGED <<disk, clock, raised>>

FailsUnreported(w) ==       \* mutant: counts what it did not clear
  /\ pc[w] # "idle"
  /\ tmp' \in {tmp, Missing}
  /\ Return(w, IF call[w].op = "clearAll" THEN Size(cache) ELSE 0)
  /\ UNCHANGED <<disk, cache, clock, raised>>

(* Any of the three fails: the temporary file is unlinked, as well as that *)
(* works, and neither the store nor the cache has changed.                 *)
SaveFails(w) ==
  /\ pc[w] # "idle"
  /\ tmp' \in {tmp, Missing}
  /\ Return(w, 0)
  /\ UNCHANGED <<disk, cache, clock, raised>>

Crash ==
  /\ cache' = None
  /\ lock' = None
  /\ pc' = [w \in Worker |-> "idle"]
  /\ call' = [w \in Worker |-> None]
  /\ draft' = [w \in Worker |-> None]
  /\ cleared' = [w \in Worker |-> 0]
  /\ UNCHANGED <<disk, tmp, clock, raised>>

Tick ==
  /\ clock < MaxClock
  /\ clock' = clock + 1
  /\ UNCHANGED <<disk, tmp, cache, lock, pc, call, draft, cleared, raised>>

StoreNext ==
  \/ \E w \in Worker, x \in Calls : Call(w, x)
  \/ \E w \in Worker : CallRaises(w) \/ OpenTmp(w) \/ WriteTmp(w) \/ Replace(w) \/ SaveFails(w)
  \/ Crash
  \/ Tick

StoreSpec == StoreInit /\ [][StoreNext]_storeVars

-----------------------------------------------------------------------------
(* What the bot would answer from: the cache, or the file before the first *)
(* load after a start.                                                     *)
view == IF cache # None THEN cache ELSE Parse(disk)

(* The calls implement a map in which each of them happens whole or not at *)
(* all and changes only what it names, whatever fails and wherever the bot *)
(* crashes: no session of another channel is lost, none comes back         *)
(* (_store_lock, _save).  Reads of a good file must not fail.              *)
Map == INSTANCE SessionMap WITH sessions <- view
MapSpec == Map!MapSpec

(* Between calls the cache, which is never checked against the file again, *)
(* is what the file holds (_save adopts it only once the rename is done).  *)
CacheMatchesDisk ==
  cache # None /\ lock = None => cache = Parse(disk)

(* clear_all_sessions reports sessions as cleared only when the file no    *)
(* longer holds any (sessions.py:290-292).                                 *)
ReportedClearIsReal ==
  [][\A w \in Worker : cleared'[w] > cleared[w] => Parse(disk') = Empty]_storeVars

=============================================================================
