---------------------------- MODULE BufferCache ----------------------------
(***************************************************************************)
(* filesys/cache.c: the write-back cache between inode.c and the disk.     *)
(* Clients are threads that call read_cache(), write_cache() and, when a   *)
(* process exits, save_cachetable().  cache_globallock serialises lookup,  *)
(* loading, eviction and saving; the reader and writer counts pin a slot   *)
(* while its bytes are copied outside the lock.  A sector's content is one *)
(* value; disk transfers sleep, so they are steps of their own.            *)
(***************************************************************************)
EXTENDS Integers, FiniteSets

CONSTANTS
  Client,      \* threads that use the cache
  Sector,      \* block_sector_t
  Value,       \* contents of a sector
  Zero,        \* the content every sector starts with
  NoSector,    \* -1, the bid of a slot that never held a block
  NoClient,    \* cache_globallock is free
  cache_size   \* 64 in the code

ASSUME CacheAssumption ==
  /\ IsFiniteSet(Client)
  /\ Zero \in Value
  /\ NoSector \notin Sector
  /\ NoClient \notin Client
  /\ cache_size \in Nat \ {0}

Slot == 0..cache_size - 1

Block == [bid: Sector \cup {NoSector}, data: Value, dirty: BOOLEAN,
          accessed: BOOLEAN, reader: Int, writer: Int]

PC == {"idle", "find", "add", "evict", "writeback", "load", "loaded", "pin",
       "copy", "mark", "unpin", "save"}

VARIABLES
  cache,        \* cache[i], with the bytes at kpage as data
  cache_table,  \* the bitmap: slots in use
  globallock,   \* cache_globallock->holder
  disk,         \* fs_device
  pc,           \* where a client is in cache.c
  op,           \* "read" or "write", the call it is in
  sector,       \* its bid argument
  value,        \* what it writes, or has read
  slot,         \* get in read_cache and write_cache; i in the loops
  latest,       \* history: the last value copied into each sector's block
  raced         \* history: one of the two races below has happened

vars == <<cache, cache_table, globallock, disk, pc, op, sector, value, slot,
          latest, raced>>

callVars == <<op, sector, value>>
history  == <<latest, raced>>

Init ==
  /\ cache = [i \in Slot |-> [bid |-> NoSector, data |-> Zero, dirty |-> FALSE,
                              accessed |-> FALSE, reader |-> 0, writer |-> 0]]
  /\ cache_table = {}
  /\ globallock = NoClient
  /\ disk = [s \in Sector |-> Zero]
  /\ pc = [t \in Client |-> "idle"]
  /\ op = [t \in Client |-> "read"]
  /\ sector = [t \in Client |-> NoSector]
  /\ value = [t \in Client |-> Zero]
  /\ slot = [t \in Client |-> 0]
  /\ latest = [s \in Sector |-> Zero]
  /\ raced = FALSE

Goto(t, from, to) == pc[t] = from /\ pc' = [pc EXCEPT ![t] = to]
SetSlot(t, i)     == slot' = [slot EXCEPT ![t] = i]
Acquire(t)        == globallock = NoClient /\ globallock' = t
Release(t)        == globallock' = NoClient

Free         == Slot \ cache_table
LowestOf(S)  == CHOOSE i \in S : \A j \in S : i <= j
Holding(s)   == {i \in Slot : cache[i].bid = s}
Unpinned(i)  == cache[i].reader = 0 /\ cache[i].writer = 0

(* t has been told its slot and has not yet raised a count on it. *)
AboutToPin(t, i) == pc[t] = "pin" /\ slot[t] = i

-----------------------------------------------------------------------------
(* A file-system call reaches read_cache(), write_cache(), or              *)
(* save_cachetable().                                                      *)
Call(t, o, s, v) ==
  /\ Goto(t, "idle", "find")
  /\ op' = [op EXCEPT ![t] = o]
  /\ sector' = [sector EXCEPT ![t] = s]
  /\ value' = [value EXCEPT ![t] = v]
  /\ UNCHANGED <<cache, cache_table, globallock, disk, slot, history>>

(* Raise or lower the count that op asks for. *)
Count(t, i, n) ==
  cache' = IF op[t] = "read" THEN [cache EXCEPT ![i].reader = @ + n]
                             ELSE [cache EXCEPT ![i].writer = @ + n]

(* Mutant: find_sector() ignores rw. *)
FindHitAsReader(t) ==
  /\ globallock = NoClient
  /\ Holding(sector[t]) # {}
  /\ Goto(t, "find", "copy")
  /\ LET i == LowestOf(Holding(sector[t])) IN
       SetSlot(t, i) /\ cache' = [cache EXCEPT ![i].reader = @ + 1]
  /\ UNCHANGED <<cache_table, globallock, disk, callVars, history>>

(* find_sector(): the scan stops at the first slot with the sector's       *)
(* number.  Nobody else gets the lock in between.                          *)
FindHit(t) ==
  /\ globallock = NoClient
  /\ Holding(sector[t]) # {}
  /\ Goto(t, "find", "copy")
  /\ LET i == LowestOf(Holding(sector[t])) IN SetSlot(t, i) /\ Count(t, i, 1)
  /\ UNCHANGED <<cache_table, globallock, disk, callVars, history>>

FindMiss(t) ==
  /\ globallock = NoClient
  /\ Holding(sector[t]) = {}
  /\ Goto(t, "find", "add")
  /\ UNCHANGED <<cache, cache_table, globallock, disk, callVars, slot, history>>

-----------------------------------------------------------------------------
(* add_cache(): take the lock and, if no slot is free, evict one. *)
AddCache(t) ==
  /\ Acquire(t)
  /\ Goto(t, "add", IF Free = {} THEN "evict" ELSE "load")
  /\ SetSlot(t, IF Free = {} THEN 0 ELSE LowestOf(Free))
  /\ UNCHANGED <<cache, cache_table, disk, callVars, history>>

(* Mutant: no second chance, the accessed flag is never cleared. *)
EvictSkipNoClear(t) ==
  LET i == slot[t] IN
  /\ Goto(t, "evict", "evict")
  /\ cache[i].accessed \/ ~Unpinned(i)
  /\ SetSlot(t, (i + 1) % cache_size)
  /\ UNCHANGED <<cache, cache_table, globallock, disk, callVars, history>>

(* evict_cache(): second chance, round and round until a slot is unpinned  *)
(* and not recently accessed.                                              *)
EvictSkip(t) ==
  LET i == slot[t] IN
  /\ Goto(t, "evict", "evict")
  /\ cache[i].accessed \/ ~Unpinned(i)
  /\ cache' = IF Unpinned(i) THEN [cache EXCEPT ![i].accessed = FALSE] ELSE cache
  /\ SetSlot(t, (i + 1) % cache_size)
  /\ UNCHANGED <<cache_table, globallock, disk, callVars, history>>

(* Mutant: a slot in use is evicted all the same. *)
EvictVictimPinned(t) ==
  LET i == slot[t] IN
  /\ ~cache[i].accessed
  /\ Goto(t, "evict", IF cache[i].dirty THEN "writeback" ELSE "load")
  /\ cache' = IF cache[i].dirty THEN [cache EXCEPT ![i].writer = @ + 1] ELSE cache
  /\ cache_table' = IF cache[i].dirty THEN cache_table ELSE cache_table \ {i}
  /\ raced' = (raced \/ \E u \in Client : AboutToPin(u, i))
  /\ UNCHANGED <<globallock, disk, callVars, slot, latest>>

(* Mutant: without bitmap_set (cache_table, idx, false) for a clean slot. *)
EvictVictimKeepsBit(t) ==
  LET i == slot[t] IN
  /\ Unpinned(i)
  /\ ~cache[i].accessed
  /\ Goto(t, "evict", IF cache[i].dirty THEN "writeback" ELSE "load")
  /\ cache' = IF cache[i].dirty THEN [cache EXCEPT ![i].writer = @ + 1] ELSE cache
  /\ raced' = (raced \/ \E u \in Client : AboutToPin(u, i))
  /\ UNCHANGED <<cache_table, globallock, disk, callVars, slot, latest>>

(* writeback_cache() sleeps in block_write() if the victim is dirty. *)
EvictVictim(t) ==
  LET i == slot[t] IN
  /\ Unpinned(i)
  /\ ~cache[i].accessed
  /\ Goto(t, "evict", IF cache[i].dirty THEN "writeback" ELSE "load")
  /\ cache' = IF cache[i].dirty THEN [cache EXCEPT ![i].writer = @ + 1] ELSE cache
  /\ cache_table' = IF cache[i].dirty THEN cache_table ELSE cache_table \ {i}
  /\ raced' = (raced \/ \E u \in Client : AboutToPin(u, i))
  /\ UNCHANGED <<globallock, disk, callVars, slot, latest>>

WriteBack(t) ==
  LET i == slot[t] IN
  /\ Goto(t, "writeback", "load")
  /\ disk' = [disk EXCEPT ![cache[i].bid] = cache[i].data]
  /\ cache' = [cache EXCEPT ![i].writer = @ - 1]
  /\ cache_table' = cache_table \ {i}
  /\ UNCHANGED <<globallock, callVars, slot, history>>

(* block_read() into the free slot, then the bookkeeping and lock_release. *)
Load(t) ==
  /\ Goto(t, "load", "loaded")
  /\ SetSlot(t, LowestOf(Free))
  /\ cache' = [cache EXCEPT ![LowestOf(Free)].data = disk[sector[t]]]
  /\ UNCHANGED <<cache_table, globallock, disk, callVars, history>>

Loaded(t) ==
  LET i == slot[t] IN
  /\ Goto(t, "loaded", "pin")
  /\ cache' = [cache EXCEPT ![i].dirty = FALSE, ![i].accessed = FALSE,
                            ![i].bid = sector[t]]
  /\ cache_table' = cache_table \cup {i}
  /\ Release(t)
  /\ raced' = (raced \/ Holding(sector[t]) \ {i} # {})
  /\ UNCHANGED <<disk, callVars, slot, latest>>

(* cache[get]->reader++ or writer++ in read_cache() and write_cache(), with *)
(* the lock no longer held.                                                 *)
Pin(t) ==
  /\ Goto(t, "pin", "copy")
  /\ Count(t, slot[t], 1)
  /\ UNCHANGED <<cache_table, globallock, disk, callVars, slot, history>>

-----------------------------------------------------------------------------
(* The memcpy, in either direction. *)
CopyOut(t) ==
  /\ op[t] = "read"
  /\ Goto(t, "copy", "mark")
  /\ value' = [value EXCEPT ![t] = cache[slot[t]].data]
  /\ UNCHANGED <<cache, cache_table, globallock, disk, op, sector, slot, history>>

CopyIn(t) ==
  /\ op[t] = "write"
  /\ Goto(t, "copy", "mark")
  /\ cache' = [cache EXCEPT ![slot[t]].data = value[t]]
  /\ latest' = [latest EXCEPT ![sector[t]] = value[t]]
  /\ UNCHANGED <<cache_table, globallock, disk, callVars, slot, raced>>

(* Mutant: write_cache() leaves the block clean. *)
MarkClean(t) ==
  /\ Goto(t, "mark", "unpin")
  /\ cache' = [cache EXCEPT ![slot[t]].accessed = TRUE]
  /\ UNCHANGED <<cache_table, globallock, disk, callVars, slot, history>>

Mark(t) ==
  /\ Goto(t, "mark", "unpin")
  /\ cache' = [cache EXCEPT ![slot[t]].accessed = TRUE,
                            ![slot[t]].dirty = @ \/ op[t] = "write"]
  /\ UNCHANGED <<cache_table, globallock, disk, callVars, slot, history>>

Unpin(t) ==
  /\ Goto(t, "unpin", "idle")
  /\ Count(t, slot[t], -1)
  /\ op' = [op EXCEPT ![t] = "read"]
  /\ sector' = [sector EXCEPT ![t] = NoSector]
  /\ value' = [value EXCEPT ![t] = Zero]
  /\ SetSlot(t, 0)
  /\ UNCHANGED <<cache_table, globallock, disk, history>>

-----------------------------------------------------------------------------
(* save_cachetable(), from process_exit() or filesys_done(). *)
SaveBegin(t) ==
  /\ Acquire(t)
  /\ Goto(t, "idle", "save")
  /\ SetSlot(t, 0)
  /\ UNCHANGED <<cache, cache_table, disk, callVars, history>>

SaveSlot(t) ==
  LET i == slot[t] IN
  /\ Goto(t, "save", IF i = cache_size - 1 THEN "idle" ELSE "save")
  /\ disk' = IF i \in cache_table /\ cache[i].dirty
             THEN [disk EXCEPT ![cache[i].bid] = cache[i].data] ELSE disk
  /\ IF i = cache_size - 1
     THEN Release(t) /\ SetSlot(t, 0)
     ELSE SetSlot(t, i + 1) /\ UNCHANGED globallock
  /\ UNCHANGED <<cache, cache_table, callVars, history>>

-----------------------------------------------------------------------------
Step(t) ==
  \/ FindHit(t) \/ FindMiss(t)
  \/ AddCache(t) \/ EvictSkip(t) \/ EvictVictim(t) \/ WriteBack(t)
  \/ Load(t) \/ Loaded(t) \/ Pin(t)
  \/ CopyOut(t) \/ CopyIn(t) \/ Mark(t) \/ Unpin(t)
  \/ SaveSlot(t)

Next ==
  \E t \in Client :
     \/ \E s \in Sector : Call(t, "read", s, Zero)
     \/ \E s \in Sector, v \in Value : Call(t, "write", s, v)
     \/ SaveBegin(t)
     \/ Step(t)

Spec == Init /\ [][Next]_vars

(* The scheduler runs every thread; a lock that is free again and again is *)
(* got by each thread that wants it.                                       *)
FairSpec == Spec /\ \A t \in Client : SF_vars(Step(t))

-----------------------------------------------------------------------------
InUse(s)    == Holding(s) \cap cache_table
Using(t, i) == pc[t] \in {"copy", "mark", "unpin"} /\ slot[t] = i

(* What a lookup made now would find. *)
Current(s) == IF InUse(s) = {} THEN disk[s] ELSE cache[LowestOf(InUse(s))].data

(* What fs_device holds once save_cachetable() has gone through the slots. *)
Saved(s) ==
  LET dirty == {i \in InUse(s) : cache[i].dirty} IN
  IF dirty = {} THEN disk[s]
  ELSE cache[CHOOSE i \in dirty : \A j \in dirty : j <= i].data

Quiescent == \A t \in Client : pc[t] = "idle"

(* Every variable has its type. *)
TypeOK ==
  /\ cache \in [Slot -> Block]
  /\ cache_table \subseteq Slot
  /\ globallock \in Client \cup {NoClient}
  /\ disk \in [Sector -> Value]
  /\ pc \in [Client -> PC]
  /\ op \in [Client -> {"read", "write"}]
  /\ sector \in [Client -> Sector \cup {NoSector}]
  /\ value \in [Client -> Value]
  /\ slot \in [Client -> Slot]
  /\ latest \in [Sector -> Value]
  /\ raced \in BOOLEAN

(* A slot's reader and writer counts are the numbers of threads that are   *)
(* copying out of it and into it, plus one writer while it is written      *)
(* back: no count leaks or goes below zero, in any interleaving.  (The     *)
(* variables' types are part of it.)                                       *)
PinCounts ==
  /\ TypeOK
  /\ \A i \in Slot :
     /\ cache[i].reader = Cardinality({t \in Client : Using(t, i) /\ op[t] = "read"})
     /\ cache[i].writer =
          Cardinality({t \in Client : Using(t, i) /\ op[t] = "write"})
          + Cardinality({t \in Client : pc[t] = "writeback" /\ slot[t] = i})

(* The lock makes loading exclusive: its holder is the only thread inside  *)
(* add_cache, evict_cache or save_cachetable, and after an eviction there  *)
(* is a free slot, as add_cache asserts.                                   *)
LoadingExclusive ==
  \A t \in Client :
     /\ pc[t] \in {"evict", "writeback", "load", "loaded", "save"} <=> globallock = t
     /\ pc[t] \in {"load", "loaded"} => Free # {}

(* As long as no freshly loaded block was evicted before its loader pinned *)
(* it and no two threads loaded one sector at the same time, a lookup      *)
(* always finds the last value written to the sector, whatever has been    *)
(* evicted, reloaded or saved since.                                       *)
Coherent == ~raced => \A s \in Sector : Current(s) = latest[s]

(* Under the same condition a read returns that value, although the bytes  *)
(* are copied with no lock held.                                           *)
ReadsLatest ==
  [][\A t \in Client :
        ~raced /\ op[t] = "read" /\ pc[t] = "copy" /\ pc'[t] = "mark"
          => value'[t] = latest[sector[t]]]_vars

(* Under the same condition saving the table puts the last value of every  *)
(* sector on the disk.                                                     *)
SaveIsEnough == ~raced /\ Quiescent => \A s \in Sector : Saved(s) = latest[s]

(* A constraint for runs about the states before the first race. *)
BeforeRace == ~raced

(* evict_cache() spins with the lock held until a slot is unpinned; no     *)
(* thread can pin another by then, so the spinning ends.                   *)
EvictionEnds == \A t \in Client : (pc[t] = "evict") ~> (pc[t] # "evict")

(* DESIGN_DOCUMENT_4: "A prerequisite for a page in order to get evicted   *)
(* is that the page has no reader or writer at the moment": no thread that *)
(* was given a slot copies into or out of another sector's block.          *)
NoReaderWriterEvicted ==
  \A t \in Client : pc[t] \in {"copy", "mark", "unpin"} =>
     cache[slot[t]].bid = sector[t]
=============================================================================
