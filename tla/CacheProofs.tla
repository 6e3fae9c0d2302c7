---------------------------- MODULE CacheProofs ----------------------------
(***************************************************************************)
(* The buffer cache for any number of threads, sectors and slots.  The     *)
(* counts of a slot are exact whatever happens (Base).  Coherence holds    *)
(* until the first race, and rests on who may be where: a slot that is     *)
(* free has no sector's number, except the one that the holder of the lock *)
(* has just emptied; no two slots have the same number; and nobody is      *)
(* between being told a slot and leaving it while that slot is written     *)
(* back or loaded (Tidy).  The contents follow (Contents).                 *)
(***************************************************************************)
EXTENDS BufferCache, FiniteSetTheorems, TLAPS

Reads(t, i)   == Using(t, i) /\ op[t] = "read"
Writes(t, i)  == Using(t, i) /\ op[t] = "write"
Flushes(t, i) == pc[t] = "writeback" /\ slot[t] = i

(* A thread inside a call has a sector to look for. *)
SectorGiven == \A t \in Client : pc[t] \notin {"idle", "save"} => sector[t] \in Sector

Base == PinCounts /\ LoadingExclusive /\ SectorGiven

Loading(t) == pc[t] \in {"load", "loaded"}
At(t, i)   == pc[t] \in {"pin", "copy", "mark", "unpin"} /\ slot[t] = i

FreeUnnamed ==
  \A i \in Free : cache[i].bid = NoSector \/ \E t \in Client : Loading(t) /\ Free = {i}

EvictWhenFull == \A t \in Client : pc[t] \in {"evict", "writeback"} => Free = {}

OneSlotPerSector ==
  \A i, j \in Slot : cache[i].bid = cache[j].bid /\ cache[i].bid # NoSector => i = j

SlotsHeld ==
  \A t \in Client, i \in Slot :
     At(t, i) => i \in cache_table /\ cache[i].bid = sector[t]

FlushAlone ==
  \A t \in Client : pc[t] = "writeback" =>
     /\ slot[t] \in cache_table
     /\ \A u \in Client : ~At(u, slot[t])

LoadedIntoFree == \A t \in Client : pc[t] = "loaded" => slot[t] \in Free

Tidy ==
  FreeUnnamed /\ EvictWhenFull /\ OneSlotPerSector /\ SlotsHeld /\ FlushAlone /\ LoadedIntoFree

(* A thread has copied into slot i and not yet marked it dirty. *)
AboutToMark(t, i) == pc[t] = "mark" /\ op[t] = "write" /\ slot[t] = i

Contents ==
  /\ \A i \in cache_table :
       /\ cache[i].bid \in Sector
       /\ cache[i].data = latest[cache[i].bid]
       /\ \/ cache[i].dirty
          \/ disk[cache[i].bid] = cache[i].data
          \/ \E t \in Client : AboutToMark(t, i)
  /\ \A s \in Sector : disk[s] = latest[s] \/ \E i \in cache_table : cache[i].bid = s
  /\ \A t \in Client : pc[t] = "loaded" => cache[slot[t]].data = disk[sector[t]]

CacheInv == Base /\ (~raced => Tidy /\ Contents)

-----------------------------------------------------------------------------
(* Numbers and counts.                                                     *)

(* A set of numbers has a least element, and LowestOf() is it.             *)
LEMMA LowestIsLeast ==
  ASSUME NEW S \in SUBSET Nat, S # {}
  PROVE  LowestOf(S) \in S /\ \A j \in S : LowestOf(S) <= j
<1> DEFINE Below(x) == {j \in S : j < x}
           D == {Below(x) : x \in S}
<1>1. D \subseteq FiniteSubsetsOf(S)
  <2> SUFFICES ASSUME NEW x \in S PROVE IsFiniteSet(Below(x))
    BY DEF FiniteSubsetsOf
  <2> QED
    BY Below(x) \in SUBSET Nat, x \in Nat, \A s \in Below(x) : s <= x,
       FS_BoundedSetOfNaturals
<1>2. PICK T \in D : \A U \in D : ~ (<<U, T>> \in StrictSubsetOrdering(S))
  <2>1. D # {} OBVIOUS
  <2> QED BY ONLY <1>1, <2>1, FS_StrictSubsetOrderingWellFounded, WFMin
<1>3. PICK x \in S : T = Below(x)
  BY <1>2
<1>4. ASSUME NEW y \in S, y < x
      PROVE  FALSE
  <2>2. ASSUME NEW j \in S, j < y PROVE j < x
    BY <1>4, <2>2, x \in Nat, y \in Nat, j \in Nat
  <2>3. Below(y) \subseteq Below(x)
    BY <2>2
  <2>4. ~(y < y)
    BY y \in Nat
  <2>5. y \in Below(x) /\ ~(y \in Below(y))
    BY <1>4, <2>4
  <2>6. <<Below(y), T>> \in StrictSubsetOrdering(S)
    BY <2>3, <2>5, <1>3 DEF StrictSubsetOrdering
  <2> QED BY <2>6, <1>2
<1>5. \A y \in S : x <= y
  BY <1>4
<1> QED
  BY <1>5 DEF LowestOf

Bit(b) == IF b THEN 1 ELSE 0

(* If only t can enter or leave a set, its size follows t.                 *)
LEMMA OneMoves ==
  ASSUME NEW S, NEW T, NEW t, IsFiniteSet(S), T \ {t} = S \ {t}
  PROVE  /\ Cardinality(S) \in Nat
         /\ Cardinality(T) = Cardinality(S) + Bit(t \in T) - Bit(t \in S)
<1>1. Cardinality(S) \in Nat
  BY FS_CardinalityType
<1>2. CASE t \in T
  <2>1. T = S \cup {t}
    BY <1>2
  <2> QED
    BY <1>1, <1>2, <2>1, FS_AddElement DEF Bit
<1>3. CASE t \notin T
  <2>1. T = S \ {t}
    BY <1>3
  <2> QED
    BY <1>1, <1>3, <2>1, FS_RemoveElement DEF Bit
<1> QED
  BY <1>2, <1>3

(* A step of t does not move anybody else. *)
OthersStay(t) ==
  \A u \in Client \ {t} : pc'[u] = pc[u] /\ op'[u] = op[u] /\ slot'[u] = slot[u]

(* The counts stay exact if they follow the one thread that moves.         *)
LEMMA CountsFollow ==
  ASSUME PinCounts, TypeOK', NEW t \in Client, OthersStay(t),
         \A i \in Slot :
           /\ cache'[i].reader = cache[i].reader + Bit(Reads(t, i)') - Bit(Reads(t, i))
           /\ cache'[i].writer = cache[i].writer + Bit(Writes(t, i)') - Bit(Writes(t, i))
                                  + Bit(Flushes(t, i)') - Bit(Flushes(t, i))
  PROVE  PinCounts'
<1> SUFFICES ASSUME NEW i \in Slot
             PROVE  /\ cache'[i].reader = Cardinality({u \in Client : Reads(u, i)'})
                    /\ cache'[i].writer = Cardinality({u \in Client : Writes(u, i)'})
                                          + Cardinality({u \in Client : Flushes(u, i)'})
  BY DEF PinCounts, Reads, Writes, Flushes
<1>0. IsFiniteSet(Client)
  BY CacheAssumption
<1>1. cache'[i].reader = Cardinality({u \in Client : Reads(u, i)'})
  <2> DEFINE S == {u \in Client : Reads(u, i)}
             T == {u \in Client : Reads(u, i)'}
  <2>1. IsFiniteSet(S)
    BY <1>0, FS_Subset
  <2>2. T \ {t} = S \ {t}
    BY DEF OthersStay, Reads, Using
  <2>3. cache[i].reader = Cardinality(S)
    BY DEF PinCounts, Reads
  <2>4. (t \in T <=> Reads(t, i)') /\ (t \in S <=> Reads(t, i))
    OBVIOUS
  <2> HIDE DEF S, T
  <2>5. /\ Cardinality(S) \in Nat
        /\ Cardinality(T) = Cardinality(S) + Bit(t \in T) - Bit(t \in S)
    BY <2>1, <2>2, OneMoves
  <2>6. cache'[i].reader = Cardinality(T)
    BY <2>3, <2>4, <2>5 DEF Bit
  <2> QED
    BY <2>6 DEF T
<1>2. cache'[i].writer = Cardinality({u \in Client : Writes(u, i)'})
                         + Cardinality({u \in Client : Flushes(u, i)'})
  <2> DEFINE S == {u \in Client : Writes(u, i)}
             T == {u \in Client : Writes(u, i)'}
             F == {u \in Client : Flushes(u, i)}
             G == {u \in Client : Flushes(u, i)'}
  <2>1. IsFiniteSet(S) /\ IsFiniteSet(F)
    BY <1>0, FS_Subset
  <2>2. T \ {t} = S \ {t} /\ G \ {t} = F \ {t}
    BY DEF OthersStay, Writes, Flushes, Using
  <2>3. cache[i].writer = Cardinality(S) + Cardinality(F)
    BY DEF PinCounts, Writes, Flushes
  <2>4. (t \in T <=> Writes(t, i)') /\ (t \in S <=> Writes(t, i))
    OBVIOUS
  <2>5. (t \in G <=> Flushes(t, i)') /\ (t \in F <=> Flushes(t, i))
    OBVIOUS
  <2> HIDE DEF S, T, F, G
  <2>6. /\ Cardinality(S) \in Nat
        /\ Cardinality(T) = Cardinality(S) + Bit(t \in T) - Bit(t \in S)
    BY <2>1, <2>2, OneMoves
  <2>7. /\ Cardinality(F) \in Nat
        /\ Cardinality(G) = Cardinality(F) + Bit(t \in G) - Bit(t \in F)
    BY <2>1, <2>2, OneMoves
  <2>8. cache'[i].writer = Cardinality(T) + Cardinality(G)
    BY <2>3, <2>4, <2>5, <2>6, <2>7 DEF Bit
  <2> QED
    BY <2>8 DEF T, G
<1> QED
  BY <1>1, <1>2

-----------------------------------------------------------------------------
(* What each operation does to the slots, field by field.                  *)

SameContents ==
  \A i \in Slot : /\ cache'[i].bid = cache[i].bid
                  /\ cache'[i].data = cache[i].data
                  /\ cache'[i].dirty = cache[i].dirty

SameCounts ==
  \A i \in Slot : /\ cache'[i].reader = cache[i].reader
                  /\ cache'[i].writer = cache[i].writer

LEMMA CountEffect ==
  ASSUME TypeOK, NEW t \in Client, NEW k \in Slot, NEW n \in Int, Count(t, k, n)
  PROVE  /\ cache' \in [Slot -> Block] /\ SameContents
         /\ \A i \in Slot :
              /\ cache'[i].reader =
                    IF i = k /\ op[t] = "read" THEN cache[i].reader + n ELSE cache[i].reader
              /\ cache'[i].writer =
                    IF i = k /\ op[t] = "write" THEN cache[i].writer + n ELSE cache[i].writer
<1> USE DEF TypeOK, SameContents, Block
<1>1. CASE op[t] = "read"
  BY <1>1 DEF Count
<1>2. CASE op[t] = "write"
  BY <1>2 DEF Count
<1> QED
  BY <1>1, <1>2

LEMMA EvictSkipEffect ==
  ASSUME TypeOK, NEW t \in Client, EvictSkip(t)
  PROVE  cache' \in [Slot -> Block] /\ SameContents /\ SameCounts
  BY ZenonT(40) DEF TypeOK, SameContents, SameCounts, Block, EvictSkip

LEMMA EvictVictimEffect ==
  ASSUME TypeOK, NEW t \in Client, EvictVictim(t)
  PROVE  /\ cache' \in [Slot -> Block] /\ SameContents
         /\ \A i \in Slot :
              /\ cache'[i].reader = cache[i].reader
              /\ cache'[i].writer =
                    IF i = slot[t] /\ cache[i].dirty THEN cache[i].writer + 1 ELSE cache[i].writer
  BY DEF TypeOK, SameContents, Block, EvictVictim

LEMMA WriteBackEffect ==
  ASSUME TypeOK, NEW t \in Client, WriteBack(t)
  PROVE  /\ cache' \in [Slot -> Block] /\ SameContents
         /\ \A i \in Slot :
              /\ cache'[i].reader = cache[i].reader
              /\ cache'[i].writer =
                    IF i = slot[t] THEN cache[i].writer - 1 ELSE cache[i].writer
  BY DEF TypeOK, SameContents, Block, WriteBack

LEMMA DataEffect ==
  ASSUME cache \in [Slot -> Block], NEW k \in Slot, NEW v \in Value,
         cache' = [cache EXCEPT ![k].data = v]
  PROVE  /\ cache' \in [Slot -> Block] /\ SameCounts
         /\ \A i \in Slot :
              /\ cache'[i].bid = cache[i].bid /\ cache'[i].dirty = cache[i].dirty
              /\ cache'[i].data = IF i = k THEN v ELSE cache[i].data
<1>1. cache' \in [Slot -> Block]
  BY DEF Block
<1>2. \A i \in Slot \ {k} : cache'[i] = cache[i]
  OBVIOUS
<1>3. cache'[k] = [cache[k] EXCEPT !.data = v] /\ cache[k] \in Block
  OBVIOUS
<1>4. /\ cache'[k].reader = cache[k].reader /\ cache'[k].writer = cache[k].writer
      /\ cache'[k].bid = cache[k].bid /\ cache'[k].dirty = cache[k].dirty
      /\ cache'[k].data = v
  BY ONLY <1>3 DEF Block
<1> QED
  BY ONLY <1>1, <1>2, <1>4 DEF SameCounts

LEMMA LoadEffect ==
  ASSUME TypeOK, NEW t \in Client, Load(t), LowestOf(Free) \in Slot, sector[t] \in Sector
  PROVE  /\ cache' \in [Slot -> Block] /\ SameCounts
         /\ \A i \in Slot :
              /\ cache'[i].bid = cache[i].bid /\ cache'[i].dirty = cache[i].dirty
              /\ cache'[i].data = IF i = LowestOf(Free) THEN disk[sector[t]] ELSE cache[i].data
  BY DataEffect DEF TypeOK, Load

LEMMA LoadedEffect ==
  ASSUME TypeOK, NEW t \in Client, Loaded(t), sector[t] \in Sector
  PROVE  /\ cache' \in [Slot -> Block] /\ SameCounts
         /\ \A i \in Slot :
              /\ cache'[i].bid = IF i = slot[t] THEN sector[t] ELSE cache[i].bid
              /\ cache'[i].dirty = IF i = slot[t] THEN FALSE ELSE cache[i].dirty
              /\ cache'[i].data = cache[i].data
<1> DEFINE k == slot[t]
           s == sector[t]
<1>0. cache \in [Slot -> Block]
  BY DEF TypeOK
<1>1. /\ k \in Slot /\ s \in Sector
      /\ cache' = [cache EXCEPT ![k].dirty = FALSE, ![k].accessed = FALSE, ![k].bid = s]
  BY DEF TypeOK, Loaded
<1> HIDE DEF k, s
<1>2. /\ cache' \in [Slot -> Block] /\ SameCounts
      /\ \A i \in Slot :
           /\ cache'[i].bid = IF i = k THEN s ELSE cache[i].bid
           /\ cache'[i].dirty = IF i = k THEN FALSE ELSE cache[i].dirty
           /\ cache'[i].data = cache[i].data
  BY ONLY <1>0, <1>1, ZenonT(40) DEF SameCounts, Block
<1> QED
  BY <1>2 DEF k, s

LEMMA CopyInEffect ==
  ASSUME TypeOK, NEW t \in Client, CopyIn(t)
  PROVE  /\ cache' \in [Slot -> Block] /\ SameCounts
         /\ \A i \in Slot :
              /\ cache'[i].bid = cache[i].bid /\ cache'[i].dirty = cache[i].dirty
              /\ cache'[i].data = IF i = slot[t] THEN value[t] ELSE cache[i].data
  BY DataEffect, ZenonT(40) DEF TypeOK, CopyIn

LEMMA MarkEffect ==
  ASSUME TypeOK, NEW t \in Client, Mark(t)
  PROVE  /\ cache' \in [Slot -> Block] /\ SameCounts
         /\ \A i \in Slot :
              /\ cache'[i].bid = cache[i].bid /\ cache'[i].data = cache[i].data
              /\ cache'[i].dirty = IF i = slot[t] /\ op[t] = "write" THEN TRUE
                                                                   ELSE cache[i].dirty
<1> DEFINE k == slot[t]
           old == cache[k]
           new == [old EXCEPT !.accessed = TRUE, !.dirty = @ \/ op[t] = "write"]
<1>1. cache \in [Slot -> Block] /\ k \in Slot /\ old \in Block
  BY DEF TypeOK
<1>2. cache' = [cache EXCEPT ![k] = new]
  BY DEF Mark
<1>3. new \in Block /\ new.dirty = IF op[t] = "write" THEN TRUE ELSE old.dirty
  BY ONLY <1>1 DEF Block
<1>4. /\ new.reader = old.reader /\ new.writer = old.writer
      /\ new.bid = old.bid /\ new.data = old.data
  BY ONLY <1>1 DEF Block
<1> HIDE DEF new
<1>5. cache' \in [Slot -> Block] /\ cache'[k] = new /\ \A i \in Slot \ {k} : cache'[i] = cache[i]
  BY ONLY <1>1, <1>2, <1>3
<1> QED
  BY ONLY <1>3, <1>4, <1>5 DEF SameCounts

-----------------------------------------------------------------------------
(* Base is inductive.                                                      *)

(* The variables keep their types.                                         *)
LEMMA TypeStep ==
  ASSUME TypeOK, LoadingExclusive, SectorGiven, [Next]_vars
  PROVE  TypeOK'
<1> USE CacheAssumption DEF TypeOK, PC, Goto, SetSlot, Acquire, Release, callVars, history
<1>1. 0 \in Slot /\ Slot \in SUBSET Nat
  BY DEF Slot
<1>2. CASE UNCHANGED vars
  BY <1>2 DEF vars
<1>3. ASSUME NEW t \in Client, NEW s \in Sector, NEW v \in Value,
             Call(t, "read", s, Zero) \/ Call(t, "write", s, v)
      PROVE  TypeOK'
  BY <1>3 DEF Call
<1>4. ASSUME NEW t \in Client, SaveBegin(t)
      PROVE  TypeOK'
  BY <1>1, <1>4 DEF SaveBegin
<1>5. ASSUME NEW t \in Client, Step(t)
      PROVE  TypeOK'
  <2>1. CASE FindHit(t)
    <3>1. LowestOf(Holding(sector[t])) \in Slot
      BY <1>1, <2>1, LowestIsLeast DEF FindHit, Holding
    <3>2. cache' \in [Slot -> Block]
      BY <2>1, <3>1, CountEffect DEF FindHit
    <3> QED
      BY <2>1, <3>1, <3>2 DEF FindHit
  <2>2. CASE FindMiss(t)
    BY <2>2 DEF FindMiss
  <2>3. CASE AddCache(t)
    <3>1. Free # {} => LowestOf(Free) \in Slot
      BY <1>1, LowestIsLeast DEF Free
    <3> QED
      BY <1>1, <2>3, <3>1 DEF AddCache
  <2>4. CASE EvictSkip(t)
    <3>1. (slot[t] + 1) % cache_size \in Slot
      BY DEF Slot
    <3>2. cache' \in [Slot -> Block]
      BY <2>4, EvictSkipEffect
    <3> QED
      BY <2>4, <3>1, <3>2 DEF EvictSkip
  <2>5. CASE EvictVictim(t)
    BY <2>5, EvictVictimEffect DEF EvictVictim
  <2>6. CASE WriteBack(t)
    <3>1. cache' \in [Slot -> Block] /\ cache[slot[t]].data \in Value
      BY <2>6, WriteBackEffect DEF Block
    <3> QED
      BY <2>6, <3>1 DEF WriteBack
  <2>7. CASE Load(t)
    <3>1. Free # {} /\ Free \in SUBSET Nat /\ Free \subseteq Slot /\ sector[t] \in Sector
      BY <1>1, <2>7 DEF Load, Free, LoadingExclusive, SectorGiven
    <3>2. LowestOf(Free) \in Slot
      BY <3>1, LowestIsLeast
    <3>3. cache' \in [Slot -> Block]
      BY <2>7, <3>1, <3>2, LoadEffect
    <3> QED
      BY <2>7, <3>2, <3>3 DEF Load
  <2>8. CASE Loaded(t)
    <3>1. cache' \in [Slot -> Block]
      BY <2>8, LoadedEffect DEF Loaded, SectorGiven
    <3> QED
      BY <2>8, <3>1 DEF Loaded
  <2>9. CASE Pin(t)
    <3>1. cache' \in [Slot -> Block]
      BY <2>9, CountEffect DEF Pin
    <3> QED
      BY <2>9, <3>1 DEF Pin
  <2>10. CASE Unpin(t)
    <3>1. cache' \in [Slot -> Block]
      BY <2>10, CountEffect DEF Unpin
    <3> QED
      BY <1>1, <2>10, <3>1 DEF Unpin
  <2>11. CASE CopyOut(t)
    <3>1. cache[slot[t]].data \in Value
      BY DEF Block
    <3> QED
      BY <2>11, <3>1 DEF CopyOut
  <2>12. CASE CopyIn(t)
    <3>1. cache' \in [Slot -> Block]
      BY <2>12, CopyInEffect
    <3> QED
      BY <2>12, <3>1 DEF CopyIn
  <2>13. CASE Mark(t)
    <3>1. cache' \in [Slot -> Block]
      BY <2>13, MarkEffect
    <3> QED
      BY <2>13, <3>1 DEF Mark
  <2>14. CASE SaveSlot(t)
    <3>1. cache[slot[t]].data \in Value
      BY DEF Block
    <3>2. \A i \in Slot : i # cache_size - 1 => i + 1 \in Slot
      BY ONLY CacheAssumption DEF Slot
    <3> QED
      BY <1>1, <2>14, <3>1, <3>2 DEF SaveSlot
  <2> QED
    BY <1>5, <2>1, <2>2, <2>3, <2>4, <2>5, <2>6, <2>7, <2>8, <2>9, <2>10, <2>11, <2>12, <2>13, <2>14
       DEF Step
<1> QED
  BY <1>2, <1>3, <1>4, <1>5 DEF Next

(* A step in which t neither starts nor stops to read, write or flush      *)
(* leaves all counts as they are.                                          *)
LEMMA QuietCounts ==
  ASSUME PinCounts, TypeOK', NEW t \in Client, OthersStay(t), SameCounts,
         \A i \in Slot : /\ Reads(t, i)' <=> Reads(t, i)
                         /\ Writes(t, i)' <=> Writes(t, i)
                         /\ Flushes(t, i)' <=> Flushes(t, i)
  PROVE  PinCounts'
<1>1. \A i \in Slot : cache[i].reader \in Int /\ cache[i].writer \in Int
  BY DEF PinCounts, TypeOK, Block
<1> QED
  BY <1>1, CountsFollow DEF SameCounts, Bit

(* A step in which t begins to use slot'[t] and counts itself.             *)
LEMMA CountedUp ==
  ASSUME TypeOK, PinCounts, TypeOK', NEW t \in Client, OthersStay(t),
         slot'[t] \in Slot, Count(t, slot'[t], 1),
         \A i \in Slot : /\ Reads(t, i)' <=> i = slot'[t] /\ op[t] = "read"
                         /\ Writes(t, i)' <=> i = slot'[t] /\ op[t] = "write"
                         /\ ~Reads(t, i) /\ ~Writes(t, i)
                         /\ ~Flushes(t, i) /\ ~Flushes(t, i)'
  PROVE  PinCounts'
<1>1. \A i \in Slot : cache[i].reader \in Int /\ cache[i].writer \in Int
  BY DEF TypeOK, Block
<1>2. \A i \in Slot :
        /\ cache'[i].reader = IF i = slot'[t] /\ op[t] = "read"
                              THEN cache[i].reader + 1 ELSE cache[i].reader
        /\ cache'[i].writer = IF i = slot'[t] /\ op[t] = "write"
                              THEN cache[i].writer + 1 ELSE cache[i].writer
  BY CountEffect
<1> QED
  BY <1>1, <1>2, CountsFollow DEF Bit

(* The counts of every slot stay exact.                                    *)
LEMMA CountStep ==
  ASSUME Base, [Next]_vars
  PROVE  PinCounts'
<1>0. TypeOK /\ PinCounts /\ LoadingExclusive /\ SectorGiven
  BY DEF Base, PinCounts
<1>1. TypeOK'
  BY <1>0, TypeStep
<1>2. \A i \in Slot : cache[i].reader \in Int /\ cache[i].writer \in Int
  BY <1>0 DEF TypeOK, Block
<1> USE DEF Goto, SetSlot, OthersStay, Reads, Writes, Flushes, Using
<1>3. CASE UNCHANGED vars
  BY <1>0, <1>1, <1>3 DEF vars, PinCounts, Using
<1>4. ASSUME NEW t \in Client, NEW s \in Sector, NEW v \in Value,
             Call(t, "read", s, Zero) \/ Call(t, "write", s, v)
      PROVE  PinCounts'
  BY <1>0, <1>1, <1>4, QuietCounts DEF Call, TypeOK, SameCounts
<1>6. ASSUME NEW t \in Client, SaveBegin(t)
      PROVE  PinCounts'
  BY <1>0, <1>1, <1>6, QuietCounts DEF SaveBegin, TypeOK, SameCounts, callVars
<1>5. ASSUME NEW t \in Client, Step(t)
      PROVE  PinCounts'
  <2>1. CASE FindHit(t)
    <3>1. slot'[t] \in Slot /\ Count(t, slot'[t], 1)
      BY <1>0, <1>1, <2>1 DEF FindHit, TypeOK
    <3>2. \A i \in Slot : /\ Reads(t, i)' <=> i = slot'[t] /\ op[t] = "read"
                          /\ Writes(t, i)' <=> i = slot'[t] /\ op[t] = "write"
                          /\ ~Reads(t, i) /\ ~Writes(t, i)
                          /\ ~Flushes(t, i) /\ ~Flushes(t, i)'
      BY <1>0, <2>1 DEF FindHit, TypeOK, callVars
    <3>3. OthersStay(t)
      BY <1>0, <2>1 DEF FindHit, TypeOK, callVars
    <3> QED
      BY ONLY <1>0, <1>1, <3>1, <3>2, <3>3, t \in Client, CountedUp
  <2>2. CASE FindMiss(t) \/ AddCache(t) \/ CopyOut(t) \/ SaveSlot(t)
    BY <1>0, <1>1, <2>2, QuietCounts
       DEF FindMiss, AddCache, CopyOut, SaveSlot, TypeOK, SameCounts, callVars
  <2>3. CASE EvictSkip(t)
    BY <1>0, <1>1, <2>3, QuietCounts, EvictSkipEffect DEF EvictSkip, TypeOK, callVars
  <2>4. CASE EvictVictim(t)
    <3>1. \A i \in Slot : /\ Flushes(t, i)' <=> i = slot[t] /\ cache[i].dirty
                          /\ ~Reads(t, i) /\ ~Reads(t, i)'
                          /\ ~Writes(t, i) /\ ~Writes(t, i)' /\ ~Flushes(t, i)
      BY <1>0, <2>4 DEF EvictVictim, TypeOK, callVars
    <3>2. OthersStay(t)
      BY <1>0, <2>4 DEF EvictVictim, TypeOK, callVars
    <3>3. \A i \in Slot : /\ cache'[i].reader = cache[i].reader
                          /\ cache'[i].writer = IF i = slot[t] /\ cache[i].dirty
                                THEN cache[i].writer + 1 ELSE cache[i].writer
      BY <1>0, <2>4, EvictVictimEffect
    <3> QED
      BY ONLY <1>0, <1>1, <1>2, <3>1, <3>2, <3>3, t \in Client, CountsFollow DEF Bit
  <2>5. CASE WriteBack(t)
    <3>1. \A i \in Slot : /\ Flushes(t, i) <=> i = slot[t]
                          /\ ~Reads(t, i) /\ ~Reads(t, i)'
                          /\ ~Writes(t, i) /\ ~Writes(t, i)' /\ ~Flushes(t, i)'
      BY <1>0, <2>5 DEF WriteBack, TypeOK, callVars
    <3>2. OthersStay(t)
      BY <1>0, <2>5 DEF WriteBack, TypeOK, callVars
    <3>3. \A i \in Slot : /\ cache'[i].reader = cache[i].reader
                          /\ cache'[i].writer = IF i = slot[t]
                                THEN cache[i].writer - 1 ELSE cache[i].writer
      BY <1>0, <2>5, WriteBackEffect
    <3> QED
      BY ONLY <1>0, <1>1, <1>2, <3>1, <3>2, <3>3, t \in Client, CountsFollow DEF Bit
  <2>6. CASE Load(t)
    <3>1. SameCounts
      <4>1. Free # {} /\ Free \in SUBSET Nat /\ Free \subseteq Slot /\ sector[t] \in Sector
        BY <1>0, <2>6 DEF Load, Free, LoadingExclusive, SectorGiven, Slot
      <4>2. LowestOf(Free) \in Slot
        BY <4>1, LowestIsLeast
      <4> QED
        BY <1>0, <2>6, <4>1, <4>2, LoadEffect
    <3> QED
      BY <1>0, <1>1, <2>6, <3>1, QuietCounts DEF Load, TypeOK, callVars
  <2>7. CASE Loaded(t)
    <3>1. SameCounts
      BY <1>0, <2>7, LoadedEffect DEF Loaded, SectorGiven
    <3> QED
      BY <1>0, <1>1, <2>7, <3>1, QuietCounts DEF Loaded, TypeOK, callVars
  <2>8. CASE Pin(t)
    <3>1. slot'[t] \in Slot /\ Count(t, slot'[t], 1)
      BY <1>0, <1>1, <2>8 DEF Pin, TypeOK
    <3>2. \A i \in Slot : /\ Reads(t, i)' <=> i = slot'[t] /\ op[t] = "read"
                          /\ Writes(t, i)' <=> i = slot'[t] /\ op[t] = "write"
                          /\ ~Reads(t, i) /\ ~Writes(t, i)
                          /\ ~Flushes(t, i) /\ ~Flushes(t, i)'
      BY <1>0, <2>8 DEF Pin, TypeOK, callVars
    <3>3. OthersStay(t)
      BY <1>0, <2>8 DEF Pin, TypeOK, callVars
    <3> QED
      BY ONLY <1>0, <1>1, <3>1, <3>2, <3>3, t \in Client, CountedUp
  <2>9. CASE CopyIn(t)
    <3>1. SameCounts
      BY <1>0, <2>9, CopyInEffect
    <3> QED
      BY <1>0, <1>1, <2>9, <3>1, QuietCounts DEF CopyIn, TypeOK, callVars
  <2>10. CASE Mark(t)
    <3>1. SameCounts
      BY <1>0, <2>10, MarkEffect
    <3> QED
      BY <1>0, <1>1, <2>10, <3>1, QuietCounts DEF Mark, TypeOK, callVars
  <2>11. CASE Unpin(t)
    <3>1. \A i \in Slot : /\ Reads(t, i) <=> i = slot[t] /\ op[t] = "read"
                          /\ Writes(t, i) <=> i = slot[t] /\ op[t] = "write"
                          /\ ~Reads(t, i)' /\ ~Writes(t, i)'
                          /\ ~Flushes(t, i) /\ ~Flushes(t, i)'
      BY <1>0, <2>11 DEF Unpin, TypeOK
    <3>2. OthersStay(t)
      BY <1>0, <2>11 DEF Unpin, TypeOK
    <3>3. \A i \in Slot :
            /\ cache'[i].reader = IF i = slot[t] /\ op[t] = "read"
                                  THEN cache[i].reader - 1 ELSE cache[i].reader
            /\ cache'[i].writer = IF i = slot[t] /\ op[t] = "write"
                                  THEN cache[i].writer - 1 ELSE cache[i].writer
      <4>1. slot[t] \in Slot /\ Count(t, slot[t], -1)
        BY <1>0, <2>11 DEF Unpin, TypeOK
      <4> QED
        BY <1>0, <1>2, <4>1, CountEffect
    <3> QED
      BY ONLY <1>0, <1>1, <1>2, <3>1, <3>2, <3>3, t \in Client, CountsFollow DEF Bit
  <2> QED
    BY <1>5, <2>1, <2>2, <2>3, <2>4, <2>5, <2>6, <2>7, <2>8, <2>9, <2>10, <2>11 DEF Step
<1> QED
  BY <1>3, <1>4, <1>5, <1>6, CacheAssumption DEF Next

(* Only the holder of the lock is inside the parts it protects.            *)
LEMMA LockStep ==
  ASSUME Base, [Next]_vars
  PROVE  LoadingExclusive' /\ SectorGiven'
<1> USE CacheAssumption
    DEF Goto, SetSlot, Acquire, Release, callVars, Free, LoadingExclusive, SectorGiven
<1>0. TypeOK /\ LoadingExclusive /\ SectorGiven
  BY DEF Base, PinCounts
<1>1. CASE UNCHANGED vars
  BY <1>0, <1>1 DEF vars
<1>2. ASSUME NEW t \in Client, NEW s \in Sector, NEW v \in Value,
             Call(t, "read", s, Zero) \/ Call(t, "write", s, v)
      PROVE  LoadingExclusive' /\ SectorGiven'
  BY <1>0, <1>2 DEF Call, TypeOK
<1>4. ASSUME NEW t \in Client, SaveBegin(t)
      PROVE  LoadingExclusive' /\ SectorGiven'
  BY <1>0, <1>4 DEF SaveBegin, TypeOK
<1>3. ASSUME NEW t \in Client, Step(t)
      PROVE  LoadingExclusive' /\ SectorGiven'
  <2>1. CASE FindHit(t) \/ FindMiss(t)
    <3>1. /\ UNCHANGED <<globallock, cache_table, sector>>
          /\ pc[t] = "find" /\ pc' \in {[pc EXCEPT ![t] = "copy"], [pc EXCEPT ![t] = "add"]}
      BY <2>1 DEF FindHit, FindMiss
    <3> QED
      BY <1>0, <3>1 DEF TypeOK
  <2>2. CASE AddCache(t)
    BY <1>0, <2>2 DEF AddCache, TypeOK
  <2>3. CASE EvictSkip(t)
    BY <1>0, <2>3 DEF EvictSkip, TypeOK
  <2>4. CASE EvictVictim(t)
    BY <1>0, <2>4 DEF EvictVictim, TypeOK
  <2>5. CASE WriteBack(t)
    BY <1>0, <2>5 DEF WriteBack, TypeOK
  <2>6. CASE Load(t)
    BY <1>0, <2>6 DEF Load, TypeOK
  <2>7. CASE Loaded(t)
    BY <1>0, <2>7 DEF Loaded, TypeOK
  <2>8. CASE Pin(t) \/ CopyOut(t) \/ CopyIn(t) \/ Mark(t)
    BY <1>0, <2>8 DEF Pin, CopyOut, CopyIn, Mark, TypeOK
  <2>9. CASE Unpin(t)
    BY <1>0, <2>9 DEF Unpin, TypeOK
  <2>10. CASE SaveSlot(t)
    BY <1>0, <2>10 DEF SaveSlot, TypeOK
  <2> QED
    BY <1>3, <2>1, <2>2, <2>3, <2>4, <2>5, <2>6, <2>7, <2>8, <2>9, <2>10 DEF Step
<1> QED
  BY <1>1, <1>2, <1>3, <1>4 DEF Next

-----------------------------------------------------------------------------
(* Tidy is preserved by every step that is not a race.                     *)

(* Nobody uses a slot that evict_cache() may take.                         *)
LEMMA NobodyUses ==
  ASSUME Base, NEW i \in Slot, Unpinned(i), NEW u \in Client
  PROVE  ~Using(u, i)
<1> DEFINE R == {t \in Client : Using(t, i) /\ op[t] = "read"}
           W == {t \in Client : Using(t, i) /\ op[t] = "write"}
           F == {t \in Client : pc[t] = "writeback" /\ slot[t] = i}
<1>1. IsFiniteSet(R) /\ IsFiniteSet(W) /\ IsFiniteSet(F)
  BY FS_Subset, CacheAssumption
<1>2. Cardinality(R) = 0 /\ Cardinality(W) + Cardinality(F) = 0
  BY DEF Base, PinCounts, Unpinned
<1>3. Cardinality(W) \in Nat /\ Cardinality(F) \in Nat
  BY <1>1, FS_CardinalityType
<1>4. Cardinality(W) = 0
  BY ONLY <1>2, <1>3
<1>5. R = {} /\ W = {}
  BY <1>1, <1>2, <1>4, FS_EmptySet
<1>6. op[u] \in {"read", "write"}
  BY DEF Base, PinCounts, TypeOK
<1> QED
  BY <1>5, <1>6

SameNames == \A i \in Slot : cache'[i].bid = cache[i].bid

(* Most steps leave the slots' names alone, and t comes to no new slot.    *)
LEMMA StillTidy ==
  ASSUME Base, Tidy, LoadingExclusive', NEW t \in Client, SameNames, cache_table' = cache_table,
         \A u \in Client \ {t} : /\ pc'[u] = pc[u] /\ slot'[u] = slot[u]
                                 /\ sector'[u] = sector[u],
         ~Loading(t),
         Loading(t)' => \A i \in Free : cache[i].bid = NoSector,
         pc'[t] = "evict" => Free = {},
         pc'[t] \notin {"writeback", "loaded"},
         \A i \in Slot : At(t, i)' => At(t, i) /\ sector'[t] = sector[t]
  PROVE  Tidy'
<1> USE DEF Tidy, SameNames, Free
<1>0. TypeOK
  BY DEF Base, PinCounts
<1>1. FreeUnnamed'
  <2>1. \A u \in Client : Loading(u) => Loading(u)'
    BY DEF Loading
  <2> QED
    BY <2>1 DEF FreeUnnamed
<1>2. EvictWhenFull'
  BY DEF EvictWhenFull
<1>3. OneSlotPerSector'
  BY DEF OneSlotPerSector
<1>4. SlotsHeld'
  BY DEF SlotsHeld, At
<1>5. FlushAlone'
  BY <1>0 DEF FlushAlone, At, TypeOK
<1>6. LoadedIntoFree'
  BY DEF LoadedIntoFree
<1> QED
  BY <1>1, <1>2, <1>3, <1>4, <1>5, <1>6

(* Until the first race, the slots stay tidy.                              *)
LEMMA TidyStep ==
  ASSUME Base, Tidy, ~raced', [Next]_vars
  PROVE  Tidy'
<1>0. TypeOK /\ PinCounts /\ LoadingExclusive /\ SectorGiven
  BY DEF Base, PinCounts
<1>1. TypeOK' /\ LoadingExclusive'
  BY <1>0, TypeStep, LockStep
<1> USE DEF Goto, SetSlot, At, Loading, SameNames
<1>2. CASE UNCHANGED vars
  BY <1>2 DEF vars, Tidy, FreeUnnamed, EvictWhenFull, OneSlotPerSector, SlotsHeld,
             FlushAlone, LoadedIntoFree, Free
<1>3. ASSUME NEW t \in Client, NEW s \in Sector, NEW v \in Value,
             Call(t, "read", s, Zero) \/ Call(t, "write", s, v)
      PROVE  Tidy'
  BY <1>0, <1>1, <1>3, StillTidy DEF Call, TypeOK
<1>4. ASSUME NEW t \in Client, SaveBegin(t)
      PROVE  Tidy'
  BY <1>0, <1>1, <1>4, StillTidy DEF SaveBegin, TypeOK, callVars
<1>5. ASSUME globallock = NoClient
      PROVE  \A i \in Free : cache[i].bid = NoSector
  BY <1>0, <1>5, CacheAssumption DEF Tidy, FreeUnnamed, LoadingExclusive
<1>6. ASSUME NEW t \in Client, Step(t)
      PROVE  Tidy'
  <2>1. CASE FindHit(t)
    <3> DEFINE k == slot'[t]
    <3>1. Holding(sector[t]) # {} /\ k = LowestOf(Holding(sector[t]))
      BY <1>0, <2>1 DEF FindHit, TypeOK
    <3>2. Holding(sector[t]) \subseteq cache_table
      BY <1>0, <1>5, <2>1, CacheAssumption DEF FindHit, Holding, Free, SectorGiven
    <3>3. k \in cache_table /\ cache[k].bid = sector[t] /\ k \in Slot
      BY <3>1, <3>2, LowestIsLeast DEF Holding, Slot
    <3>4. SameNames
      <4>1. Count(t, k, 1)
        BY <1>0, <2>1 DEF FindHit, TypeOK
      <4> QED
        BY <1>0, <3>3, <4>1, CountEffect DEF SameContents
    <3>5. /\ pc' = [pc EXCEPT ![t] = "copy"] /\ slot' = [slot EXCEPT ![t] = k]
          /\ UNCHANGED <<cache_table, sector>> /\ globallock = NoClient
      BY <1>0, <2>1 DEF FindHit, callVars, TypeOK
    <3>6. \A u \in Client : ~Loading(u) /\ pc[u] # "evict" /\ pc[u] # "writeback"
      BY <1>0, <3>5, CacheAssumption DEF LoadingExclusive
    <3>7. FreeUnnamed' /\ EvictWhenFull' /\ OneSlotPerSector' /\ FlushAlone' /\ LoadedIntoFree'
      <4>1. \A u \in Client : pc'[u] \notin {"load", "loaded", "evict", "writeback"}
        BY <1>0, <3>5, <3>6 DEF TypeOK
      <4>2. FreeUnnamed'
        BY <1>5, <3>4, <3>5 DEF FreeUnnamed, Free
      <4>3. OneSlotPerSector'
        BY <3>4 DEF Tidy, OneSlotPerSector
      <4> QED
        BY <4>1, <4>2, <4>3 DEF EvictWhenFull, FlushAlone, LoadedIntoFree
    <3>8. SlotsHeld'
      BY <1>0, <1>1, <3>3, <3>4, <3>5 DEF TypeOK, Tidy, SlotsHeld
    <3> QED
      BY <3>7, <3>8 DEF Tidy
  <2>2. CASE FindMiss(t) \/ AddCache(t) \/ CopyOut(t) \/ SaveSlot(t)
    BY <1>0, <1>1, <1>5, <2>2, StillTidy
       DEF FindMiss, AddCache, CopyOut, SaveSlot, Acquire, TypeOK, callVars
  <2>3. CASE EvictSkip(t)
    BY <1>0, <1>1, <2>3, StillTidy, EvictSkipEffect
       DEF EvictSkip, SameContents, Tidy, EvictWhenFull, TypeOK, callVars
  <2>4. CASE EvictVictim(t)
    <3> DEFINE k == slot[t]
    <3>1. /\ k \in Slot /\ Free = {} /\ globallock = t /\ Unpinned(k)
          /\ pc' = [pc EXCEPT ![t] = IF cache[k].dirty THEN "writeback" ELSE "load"]
          /\ UNCHANGED <<globallock, slot, sector>>
          /\ cache_table' = IF cache[k].dirty THEN cache_table ELSE cache_table \ {k}
          /\ \A u \in Client : ~AboutToPin(u, k)
      BY <1>0, <2>4 DEF EvictVictim, TypeOK, callVars, Tidy, EvictWhenFull, LoadingExclusive
    <3>2. \A u \in Client : ~At(u, k)
      BY <3>1, NobodyUses DEF AboutToPin, Using
    <3>3. SameNames
      BY <1>0, <2>4, EvictVictimEffect DEF SameContents
    <3>4. \A u \in Client \ {t} : pc[u] # "evict" /\ pc[u] # "writeback" /\ ~Loading(u)
      BY <1>0, <3>1 DEF LoadingExclusive
    <3> HIDE DEF k
    <3>5. FreeUnnamed'
      BY <1>0, <3>1, <3>3 DEF TypeOK, FreeUnnamed, Free
    <3>6. EvictWhenFull' /\ OneSlotPerSector'
      BY <1>0, <3>1, <3>3, <3>4 DEF TypeOK, Tidy, EvictWhenFull, OneSlotPerSector, Free
    <3>7. SlotsHeld'
      BY <1>0, <3>1, <3>2, <3>3 DEF TypeOK, Tidy, SlotsHeld
    <3>8. FlushAlone' /\ LoadedIntoFree'
      BY <1>0, <3>1, <3>2, <3>4 DEF TypeOK, Tidy, FlushAlone, LoadedIntoFree, Free, k
    <3> QED
      BY <3>5, <3>6, <3>7, <3>8 DEF Tidy
  <2>5. CASE WriteBack(t)
    <3> DEFINE k == slot[t]
    <3>1. /\ k \in Slot /\ Free = {} /\ globallock = t
          /\ pc' = [pc EXCEPT ![t] = "load"]
          /\ UNCHANGED <<globallock, slot, sector>>
          /\ cache_table' = cache_table \ {k}
      BY <1>0, <2>5 DEF WriteBack, TypeOK, callVars, Tidy, EvictWhenFull, LoadingExclusive
    <3>2. \A u \in Client : ~At(u, k)
      BY <2>5 DEF WriteBack, Tidy, FlushAlone
    <3>3. SameNames
      BY <1>0, <2>5, WriteBackEffect DEF SameContents
    <3>4. \A u \in Client \ {t} : pc[u] # "evict" /\ pc[u] # "writeback" /\ ~Loading(u)
      BY <1>0, <3>1 DEF LoadingExclusive
    <3> HIDE DEF k
    <3>5. FreeUnnamed'
      BY <1>0, <3>1, <3>3 DEF TypeOK, FreeUnnamed, Free
    <3>6. EvictWhenFull' /\ OneSlotPerSector' /\ FlushAlone' /\ LoadedIntoFree'
      BY <1>0, <3>1, <3>3, <3>4
         DEF TypeOK, Tidy, EvictWhenFull, OneSlotPerSector, FlushAlone, LoadedIntoFree, Free
    <3>7. SlotsHeld'
      BY <1>0, <3>1, <3>2, <3>3 DEF TypeOK, Tidy, SlotsHeld
    <3> QED
      BY <3>5, <3>6, <3>7 DEF Tidy
  <2>6. CASE Load(t)
    <3>1. /\ pc[t] = "load" /\ pc' = [pc EXCEPT ![t] = "loaded"] /\ globallock = t
          /\ slot' = [slot EXCEPT ![t] = LowestOf(Free)]
          /\ UNCHANGED <<globallock, cache_table, sector>>
      BY <1>0, <2>6 DEF Load, TypeOK, callVars, LoadingExclusive
    <3>2. Free # {} /\ Free \in SUBSET Nat /\ Free \subseteq Slot /\ sector[t] \in Sector
      BY <1>0, <2>6 DEF Load, Free, LoadingExclusive, SectorGiven, Slot
    <3>3. LowestOf(Free) \in Free
      BY <3>2, LowestIsLeast
    <3>8. SameNames
      BY <1>0, <2>6, <3>2, <3>3, LoadEffect
    <3>4. \A u \in Client \ {t} : pc[u] # "evict" /\ pc[u] # "writeback" /\ ~Loading(u)
      BY <1>0, <3>1 DEF LoadingExclusive
    <3>5. FreeUnnamed'
      BY <1>0, <3>1, <3>8 DEF TypeOK, Tidy, FreeUnnamed, Free
    <3>6. EvictWhenFull' /\ OneSlotPerSector' /\ LoadedIntoFree'
      BY <1>0, <3>1, <3>3, <3>4, <3>8
         DEF TypeOK, Tidy, EvictWhenFull, OneSlotPerSector, LoadedIntoFree, Free
    <3>7. SlotsHeld' /\ FlushAlone'
      BY <1>0, <3>1, <3>4, <3>8 DEF TypeOK, Tidy, SlotsHeld, FlushAlone
    <3> QED
      BY <3>5, <3>6, <3>7 DEF Tidy
  <2>7. CASE Loaded(t)
    <3> DEFINE k == slot[t]
               s == sector[t]
    <3>1. /\ pc[t] = "loaded" /\ pc' = [pc EXCEPT ![t] = "pin"] /\ globallock = t
          /\ k \in Slot /\ s \in Sector
          /\ UNCHANGED <<slot, sector>>
          /\ cache_table' = cache_table \cup {k}
          /\ Holding(s) \ {k} = {}
      BY <1>0, <2>7 DEF Loaded, TypeOK, callVars, LoadingExclusive, SectorGiven
    <3>2. \A i \in Slot : cache'[i].bid = IF i = k THEN s ELSE cache[i].bid
      BY <1>0, <2>7, <3>1, LoadedEffect
    <3>3. k \in Free
      BY <3>1 DEF Tidy, LoadedIntoFree
    <3>4. \A u \in Client \ {t} : pc[u] # "evict" /\ pc[u] # "writeback" /\ ~Loading(u)
      BY <1>0, <3>1 DEF LoadingExclusive
    <3> HIDE DEF k, s
    <3>5. \A i \in Free \ {k} : cache[i].bid = NoSector
      BY <3>1, <3>3 DEF Tidy, FreeUnnamed
    <3>6. FreeUnnamed'
      BY <1>0, <3>1, <3>2, <3>5 DEF TypeOK, FreeUnnamed, Free
    <3>7. EvictWhenFull' /\ FlushAlone' /\ LoadedIntoFree'
      BY <1>0, <3>1, <3>4 DEF TypeOK, EvictWhenFull, FlushAlone, LoadedIntoFree, Free
    <3>8. OneSlotPerSector'
      BY <3>1, <3>2 DEF Tidy, OneSlotPerSector, Holding
    <3>9. SlotsHeld'
      BY <1>0, <3>1, <3>2, <3>3 DEF TypeOK, Tidy, SlotsHeld, Free, k, s
    <3> QED
      BY <3>6, <3>7, <3>8, <3>9 DEF Tidy
  <2>8. CASE Pin(t)
    <3>1. SameNames
      BY <1>0, <2>8, CountEffect DEF Pin, SameContents, TypeOK
    <3> QED
      BY <1>0, <1>1, <2>8, <3>1, StillTidy DEF Pin, TypeOK, callVars
  <2>9. CASE CopyIn(t)
    <3>1. SameNames
      BY <1>0, <2>9, CopyInEffect
    <3> QED
      BY <1>0, <1>1, <2>9, <3>1, StillTidy DEF CopyIn, TypeOK, callVars
  <2>10. CASE Mark(t)
    <3>1. SameNames
      BY <1>0, <2>10, MarkEffect
    <3> QED
      BY <1>0, <1>1, <2>10, <3>1, StillTidy DEF Mark, TypeOK, callVars
  <2>11. CASE Unpin(t)
    <3>1. SameNames
      BY <1>0, <2>11, CountEffect DEF Unpin, SameContents, TypeOK
    <3> QED
      BY <1>0, <1>1, <2>11, <3>1, StillTidy DEF Unpin, TypeOK
  <2> QED
    BY <1>6, <2>1, <2>2, <2>3, <2>4, <2>5, <2>6, <2>7, <2>8, <2>9, <2>10, <2>11 DEF Step
<1> QED
  BY <1>2, <1>3, <1>4, <1>6, CacheAssumption DEF Next

-----------------------------------------------------------------------------
(* The contents follow.                                                    *)

(* A step that changes no slot's contents, nor the disk.                   *)
LEMMA StillContents ==
  ASSUME Contents, TypeOK, NEW t \in Client, SameContents,
         UNCHANGED <<cache_table, disk, latest>>,
         \A u \in Client \ {t} : /\ pc'[u] = pc[u] /\ slot'[u] = slot[u]
                                 /\ sector'[u] = sector[u] /\ op'[u] = op[u],
         pc'[t] # "loaded",
         ~(pc[t] = "mark" /\ op[t] = "write")
  PROVE  Contents'
<1>1. \A u \in Client, i \in Slot : AboutToMark(u, i) => AboutToMark(u, i)'
  BY DEF AboutToMark
<1>2. \A i \in cache_table : i \in Slot
  BY DEF TypeOK
<1>3. \A u \in Client : slot[u] \in Slot
  BY DEF TypeOK
<1> QED
  BY <1>1, <1>2, <1>3 DEF Contents, SameContents

(* Until the first race, every cached block is the last value of its       *)
(* sector, and a sector that is not cached has it on the disk.             *)
LEMMA ContentsStep ==
  ASSUME Base, Tidy, Contents, ~raced', [Next]_vars
  PROVE  Contents'
<1>0. TypeOK /\ PinCounts /\ LoadingExclusive /\ SectorGiven
  BY DEF Base, PinCounts
<1> USE DEF Goto, SetSlot
<1>1. CASE UNCHANGED vars
  BY <1>1 DEF vars, Contents, AboutToMark
<1>2. ASSUME NEW t \in Client, NEW s \in Sector, NEW v \in Value,
             Call(t, "read", s, Zero) \/ Call(t, "write", s, v)
      PROVE  Contents'
  BY <1>0, <1>2, StillContents DEF Call, TypeOK, SameContents, history
<1>3. ASSUME NEW t \in Client, SaveBegin(t)
      PROVE  Contents'
  BY <1>0, <1>3, StillContents DEF SaveBegin, TypeOK, SameContents, callVars, history
<1>4. ASSUME NEW t \in Client, Step(t)
      PROVE  Contents'
  <2>1. CASE FindHit(t)
    <3>1. SameContents
      <4>1. slot'[t] \in Slot /\ Count(t, slot'[t], 1)
        BY <1>0, <2>1, TypeStep DEF FindHit, TypeOK
      <4> QED
        BY <1>0, <4>1, CountEffect
    <3> QED
      BY <1>0, <2>1, <3>1, StillContents DEF FindHit, TypeOK, callVars, history
  <2>2. CASE FindMiss(t) \/ AddCache(t) \/ CopyOut(t)
    BY <1>0, <2>2, StillContents
       DEF FindMiss, AddCache, CopyOut, SameContents, TypeOK, callVars, history
  <2>3. CASE EvictSkip(t)
    BY <1>0, <2>3, StillContents, EvictSkipEffect DEF EvictSkip, TypeOK, callVars, history
  <2>4. CASE EvictVictim(t)
    <3> DEFINE k == slot[t]
    <3>1. SameContents
      BY <1>0, <2>4, EvictVictimEffect
    <3>2. CASE cache[k].dirty
      BY <1>0, <2>4, <3>1, <3>2, StillContents DEF EvictVictim, TypeOK, callVars
    <3>3. CASE ~cache[k].dirty
      <4>1. /\ k \in Slot /\ Unpinned(k) /\ cache_table' = cache_table \ {k}
            /\ pc' = [pc EXCEPT ![t] = "load"] /\ pc[t] = "evict"
            /\ UNCHANGED <<disk, latest, op, sector, slot>>
        BY <1>0, <2>4, <3>3 DEF EvictVictim, TypeOK, callVars
      <4>2. \A u \in Client : ~AboutToMark(u, k)
        BY <4>1, NobodyUses DEF AboutToMark, Using
      <4>3. \A u \in Client, i \in Slot : AboutToMark(u, i) => AboutToMark(u, i)'
        BY <1>0, <4>1 DEF AboutToMark, TypeOK
      <4>4. k \in cache_table
        BY <4>1, <2>4 DEF EvictVictim, Tidy, EvictWhenFull, Free
      <4>5. /\ cache[k].bid \in Sector
            /\ disk[cache[k].bid] = latest[cache[k].bid]
        BY <3>3, <4>2, <4>4 DEF Contents
      <4>6. \A i \in cache_table' :
              /\ cache'[i].bid \in Sector
              /\ cache'[i].data = latest'[cache'[i].bid]
              /\ \/ cache'[i].dirty
                 \/ disk'[cache'[i].bid] = cache'[i].data
                 \/ \E u \in Client : AboutToMark(u, i)'
        BY <1>0, <3>1, <4>1, <4>3 DEF Contents, SameContents, TypeOK
      <4>7. \A s \in Sector : disk'[s] = latest'[s] \/ \E i \in cache_table' : cache'[i].bid = s
        BY <1>0, <3>1, <4>1, <4>5 DEF Contents, SameContents, TypeOK
      <4>8. \A u \in Client : pc'[u] = "loaded" => cache'[slot'[u]].data = disk'[sector'[u]]
        BY <1>0, <3>1, <4>1 DEF Contents, SameContents, TypeOK
      <4> QED
        BY <4>6, <4>7, <4>8 DEF Contents
    <3> QED
      BY <3>2, <3>3
  <2>5. CASE WriteBack(t)
    <3> DEFINE k == slot[t]
               s == cache[k].bid
    <3>1. SameContents
      BY <1>0, <2>5, WriteBackEffect
    <3>2. /\ k \in cache_table /\ globallock = t /\ cache_table' = cache_table \ {k}
          /\ disk' = [disk EXCEPT ![s] = cache[k].data]
          /\ pc[t] = "writeback" /\ pc' = [pc EXCEPT ![t] = "load"]
          /\ UNCHANGED <<latest, op, sector, slot>>
      BY <1>0, <2>5 DEF WriteBack, Tidy, FlushAlone, LoadingExclusive, callVars, history
    <3>3. s \in Sector /\ cache[k].data = latest[s] /\ cache_table \subseteq Slot
      BY <1>0, <3>2 DEF Contents, TypeOK
    <3>4. \A i \in cache_table \ {k} : cache[i].bid # s
      BY <3>2, <3>3, CacheAssumption DEF Tidy, OneSlotPerSector
    <3>5. \A u \in Client, i \in Slot : AboutToMark(u, i) => AboutToMark(u, i)'
      BY <1>0, <3>2 DEF AboutToMark, TypeOK
    <3> HIDE DEF k, s
    <3>6. disk'[s] = latest[s] /\ \A r \in Sector \ {s} : disk'[r] = disk[r]
      BY <1>0, <3>2, <3>3 DEF TypeOK
    <3>7. \A i \in cache_table' :
            /\ cache'[i].bid \in Sector
            /\ cache'[i].data = latest'[cache'[i].bid]
            /\ \/ cache'[i].dirty
               \/ disk'[cache'[i].bid] = cache'[i].data
               \/ \E u \in Client : AboutToMark(u, i)'
      BY <3>1, <3>2, <3>3, <3>4, <3>5, <3>6 DEF Contents, SameContents
    <3>8. \A r \in Sector : disk'[r] = latest'[r] \/ \E i \in cache_table' : cache'[i].bid = r
      <4> SUFFICES ASSUME NEW r \in Sector, r # s, disk[r] # latest[r]
                   PROVE  \E i \in cache_table' : cache'[i].bid = r
        BY <3>2, <3>6
      <4>1. PICK i \in cache_table : cache[i].bid = r
        BY DEF Contents
      <4> QED
        BY <3>1, <3>2, <3>3, <4>1 DEF SameContents, s
    <3>9. \A u \in Client : pc'[u] # "loaded"
      BY <1>0, <3>2 DEF LoadingExclusive, TypeOK
    <3> QED
      BY <3>7, <3>8, <3>9 DEF Contents
  <2>6. CASE Load(t)
    <3> DEFINE k == LowestOf(Free)
    <3>1. Free # {} /\ Free \in SUBSET Nat /\ Free \subseteq Slot /\ sector[t] \in Sector
      BY <1>0, <2>6 DEF Load, Free, LoadingExclusive, SectorGiven, Slot
    <3>2. k \in Free
      BY <3>1, LowestIsLeast
    <3>3. \A i \in Slot :
            /\ cache'[i].bid = cache[i].bid /\ cache'[i].dirty = cache[i].dirty
            /\ cache'[i].data = IF i = k THEN disk[sector[t]] ELSE cache[i].data
      BY <1>0, <2>6, <3>1, <3>2, LoadEffect
    <3>4. /\ pc[t] = "load" /\ pc' = [pc EXCEPT ![t] = "loaded"] /\ globallock = t
          /\ slot' = [slot EXCEPT ![t] = k]
          /\ UNCHANGED <<cache_table, disk, latest, op, sector>>
      BY <1>0, <2>6 DEF Load, LoadingExclusive, callVars, history
    <3>5. \A u \in Client, i \in Slot : AboutToMark(u, i) => AboutToMark(u, i)'
      BY <1>0, <3>4 DEF AboutToMark, TypeOK
    <3> HIDE DEF k
    <3>6. \A i \in cache_table : /\ i \in Slot
                                /\ cache'[i].bid = cache[i].bid
                                /\ cache'[i].dirty = cache[i].dirty
                                /\ cache'[i].data = cache[i].data
      BY <1>0, <3>2, <3>3 DEF Free, TypeOK
    <3>7. \A u \in Client : pc'[u] = "loaded" => cache'[slot'[u]].data = disk'[sector'[u]]
      BY <1>0, <3>1, <3>2, <3>3, <3>4 DEF LoadingExclusive, TypeOK
    <3> QED
      BY <3>4, <3>5, <3>6, <3>7 DEF Contents
  <2>7. CASE Loaded(t)
    <3> DEFINE k == slot[t]
               s == sector[t]
    <3>1. /\ pc[t] = "loaded" /\ pc' = [pc EXCEPT ![t] = "pin"] /\ globallock = t
          /\ k \in Slot /\ s \in Sector /\ k \in Free
          /\ cache_table' = cache_table \cup {k}
          /\ Holding(s) \ {k} = {}
          /\ UNCHANGED <<slot, sector, op, disk, latest>>
      BY <1>0, <2>7
         DEF Loaded, TypeOK, callVars, LoadingExclusive, SectorGiven, Tidy, LoadedIntoFree
    <3>2. \A i \in Slot :
            /\ cache'[i].bid = IF i = k THEN s ELSE cache[i].bid
            /\ cache'[i].dirty = IF i = k THEN FALSE ELSE cache[i].dirty
            /\ cache'[i].data = cache[i].data
      BY <1>0, <2>7, <3>1, LoadedEffect
    <3>3. cache_table \subseteq Slot /\ k \notin cache_table
      BY <1>0, <3>1 DEF Free, TypeOK
    <3>4. cache[k].data = disk[s] /\ disk[s] = latest[s]
      BY <3>1, <3>3 DEF Contents, Holding
    <3>5. \A u \in Client, i \in Slot : AboutToMark(u, i) => AboutToMark(u, i)'
      BY <1>0, <3>1 DEF AboutToMark, TypeOK
    <3>6. \A u \in Client : pc'[u] # "loaded"
      BY <1>0, <3>1 DEF LoadingExclusive, TypeOK
    <3> HIDE DEF k, s
    <3>7. \A i \in cache_table' :
            /\ cache'[i].bid \in Sector
            /\ cache'[i].data = latest'[cache'[i].bid]
            /\ \/ cache'[i].dirty
               \/ disk'[cache'[i].bid] = cache'[i].data
               \/ \E u \in Client : AboutToMark(u, i)'
      BY <3>1, <3>2, <3>3, <3>4, <3>5, ZenonT(40) DEF Contents
    <3>8. \A r \in Sector : disk'[r] = latest'[r] \/ \E i \in cache_table' : cache'[i].bid = r
      <4> SUFFICES ASSUME NEW r \in Sector, disk[r] # latest[r]
                   PROVE  \E i \in cache_table' : cache'[i].bid = r
        BY <3>1
      <4>1. PICK i \in cache_table : cache[i].bid = r
        BY DEF Contents
      <4> QED
        BY <3>1, <3>2, <3>3, <4>1
    <3> QED
      BY <3>6, <3>7, <3>8 DEF Contents
  <2>8. CASE Pin(t)
    <3>1. SameContents
      BY <1>0, <2>8, CountEffect DEF Pin, TypeOK
    <3> QED
      BY <1>0, <2>8, <3>1, StillContents DEF Pin, TypeOK, callVars, history
  <2>9. CASE CopyIn(t)
    <3> DEFINE k == slot[t]
               s == sector[t]
    <3>1. /\ k \in cache_table /\ cache[k].bid = s /\ s \in Sector /\ cache_table \subseteq Slot
          /\ pc[t] = "copy" /\ pc' = [pc EXCEPT ![t] = "mark"] /\ op[t] = "write"
          /\ latest' = [latest EXCEPT ![s] = value[t]]
          /\ UNCHANGED <<cache_table, disk, slot, sector, op>>
      BY <1>0, <2>9 DEF CopyIn, TypeOK, callVars, Tidy, SlotsHeld, At, SectorGiven
    <3>2. \A i \in Slot :
            /\ cache'[i].bid = cache[i].bid /\ cache'[i].dirty = cache[i].dirty
            /\ cache'[i].data = IF i = k THEN value[t] ELSE cache[i].data
      BY <1>0, <2>9, CopyInEffect
    <3>3. \A i \in cache_table \ {k} : cache[i].bid # s
      BY <3>1, CacheAssumption DEF Tidy, OneSlotPerSector
    <3>4. \A u \in Client, i \in Slot : AboutToMark(u, i) => AboutToMark(u, i)'
      BY <1>0, <3>1 DEF AboutToMark, TypeOK
    <3>5. \A i \in Slot : i = k => AboutToMark(t, i)'
      BY <1>0, <3>1 DEF AboutToMark, TypeOK
    <3>6. \A u \in Client : pc'[u] = "loaded" => pc[u] = "loaded" /\ slot[u] # k /\ slot[u] \in Slot
      BY <1>0, <3>1 DEF TypeOK, Tidy, LoadedIntoFree, Free
    <3> HIDE DEF k, s
    <3>7. latest'[s] = value[t] /\ \A r \in Sector \ {s} : latest'[r] = latest[r]
      BY <1>0, <3>1 DEF TypeOK
    <3>8. \A i \in cache_table' :
            /\ cache'[i].bid \in Sector
            /\ cache'[i].data = latest'[cache'[i].bid]
            /\ \/ cache'[i].dirty
               \/ disk'[cache'[i].bid] = cache'[i].data
               \/ \E u \in Client : AboutToMark(u, i)'
      <4> SUFFICES ASSUME NEW i \in cache_table'
                   PROVE  /\ cache'[i].bid \in Sector
                          /\ cache'[i].data = latest'[cache'[i].bid]
                          /\ \/ cache'[i].dirty
                             \/ disk'[cache'[i].bid] = cache'[i].data
                             \/ \E u \in Client : AboutToMark(u, i)'
        OBVIOUS
      <4>0. i \in cache_table /\ i \in Slot
        BY <3>1
      <4>1. CASE i = k
        <5>1. \E u \in Client : AboutToMark(u, i)'
          BY <3>5, <4>0, <4>1
        <5>2. cache'[i].bid = s /\ cache'[i].data = value[t]
          BY <3>1, <3>2, <4>0, <4>1
        <5> QED
          BY <3>1, <3>7, <5>1, <5>2
      <4>2. CASE i # k
        <5>1. cache[i].bid \in Sector \ {s} /\ cache[i].data = latest[cache[i].bid]
          BY <3>3, <4>0, <4>2 DEF Contents
        <5>2. /\ cache'[i].bid = cache[i].bid /\ cache'[i].dirty = cache[i].dirty
              /\ cache'[i].data = cache[i].data
          BY <3>2, <4>0, <4>2
        <5>3. \/ cache'[i].dirty
              \/ disk'[cache'[i].bid] = cache'[i].data
              \/ \E u \in Client : AboutToMark(u, i)'
          BY <3>1, <3>4, <4>0, <5>2 DEF Contents
        <5> QED
          BY <3>7, <5>1, <5>2, <5>3
      <4> QED
        BY <4>1, <4>2
    <3>9. \A r \in Sector : disk'[r] = latest'[r] \/ \E i \in cache_table' : cache'[i].bid = r
      BY <3>1, <3>2, <3>7 DEF Contents
    <3>10. \A u \in Client : pc'[u] = "loaded" => cache'[slot'[u]].data = disk'[sector'[u]]
      BY <3>1, <3>2, <3>6 DEF Contents
    <3> QED
      BY <3>8, <3>9, <3>10 DEF Contents
  <2>10. CASE Mark(t)
    <3> DEFINE k == slot[t]
    <3>1. /\ pc[t] = "mark" /\ pc' = [pc EXCEPT ![t] = "unpin"]
          /\ UNCHANGED <<cache_table, disk, latest, slot, sector, op>>
      BY <2>10 DEF Mark, callVars, history
    <3>2. \A i \in Slot :
            /\ cache'[i].bid = cache[i].bid /\ cache'[i].data = cache[i].data
            /\ cache'[i].dirty = IF i = k /\ op[t] = "write" THEN TRUE ELSE cache[i].dirty
      BY <1>0, <2>10, MarkEffect
    <3>3. \A u \in Client, i \in Slot : AboutToMark(u, i) =>
             AboutToMark(u, i)' \/ (i = k /\ op[t] = "write")
      BY <1>0, <3>1 DEF AboutToMark, TypeOK
    <3>4. cache_table \subseteq Slot /\ \A u \in Client : slot[u] \in Slot
      BY <1>0 DEF TypeOK
    <3>5. \A u \in Client : pc'[u] = "loaded" => pc[u] = "loaded"
      BY <1>0, <3>1 DEF TypeOK
    <3> HIDE DEF k
    <3>6. \A i \in cache_table' :
            /\ cache'[i].bid \in Sector
            /\ cache'[i].data = latest'[cache'[i].bid]
            /\ \/ cache'[i].dirty
               \/ disk'[cache'[i].bid] = cache'[i].data
               \/ \E u \in Client : AboutToMark(u, i)'
      <4> SUFFICES ASSUME NEW i \in cache_table'
                   PROVE  /\ cache'[i].bid \in Sector
                          /\ cache'[i].data = latest'[cache'[i].bid]
                          /\ \/ cache'[i].dirty
                             \/ disk'[cache'[i].bid] = cache'[i].data
                             \/ \E u \in Client : AboutToMark(u, i)'
        OBVIOUS
      <4>1. i \in cache_table /\ i \in Slot
        BY <3>1, <3>4
      <4>2. cache'[i].bid = cache[i].bid /\ cache'[i].data = cache[i].data
        BY <3>2, <4>1
      <4>3. (i = k /\ op[t] = "write") \/ cache[i].dirty => cache'[i].dirty
        BY <3>2, <4>1
      <4> QED
        BY <3>1, <3>3, <4>1, <4>2, <4>3 DEF Contents
    <3>7. \A r \in Sector : disk'[r] = latest'[r] \/ \E i \in cache_table' : cache'[i].bid = r
      <4>1. \A i \in cache_table : cache'[i].bid = cache[i].bid
        BY <3>2, <3>4
      <4> QED
        BY <3>1, <4>1 DEF Contents
    <3>8. \A u \in Client : pc'[u] = "loaded" => cache'[slot'[u]].data = disk'[sector'[u]]
      BY <3>1, <3>2, <3>4, <3>5 DEF Contents
    <3> QED
      BY <3>6, <3>7, <3>8 DEF Contents
  <2>11. CASE Unpin(t)
    <3>1. SameContents
      BY <1>0, <2>11, CountEffect DEF Unpin, TypeOK
    <3> QED
      BY <1>0, <2>11, <3>1, StillContents DEF Unpin, TypeOK, history
  <2>12. CASE SaveSlot(t)
    <3> DEFINE k == slot[t]
               s == cache[k].bid
    <3>1. /\ pc[t] = "save" /\ globallock = t
          /\ pc' = [pc EXCEPT ![t] = IF k = cache_size - 1 THEN "idle" ELSE "save"]
          /\ \A u \in Client \ {t} : slot'[u] = slot[u]
          /\ disk' = IF k \in cache_table /\ cache[k].dirty
                      THEN [disk EXCEPT ![s] = cache[k].data] ELSE disk
          /\ UNCHANGED <<cache, cache_table, latest, sector, op>>
      BY <1>0, <2>12 DEF SaveSlot, TypeOK, callVars, history, LoadingExclusive
    <3>2. \A u \in Client, i \in Slot : AboutToMark(u, i) => AboutToMark(u, i)'
      BY <1>0, <3>1 DEF AboutToMark, TypeOK
    <3>3. \A u \in Client : pc'[u] # "loaded"
      BY <1>0, <3>1 DEF LoadingExclusive, TypeOK
    <3>4. k \in cache_table => s \in Sector /\ cache[k].data = latest[s]
      BY DEF Contents
    <3> HIDE DEF k, s
    <3>5. \A r \in Sector : disk'[r] = disk[r] \/ disk'[r] = latest[r]
      BY <1>0, <3>1, <3>4 DEF TypeOK
    <3>6. cache_table \subseteq Slot
      BY <1>0 DEF TypeOK
    <3> QED
      BY <3>1, <3>2, <3>3, <3>5, <3>6 DEF Contents
  <2> QED
    BY <1>4, <2>1, <2>2, <2>3, <2>4, <2>5, <2>6, <2>7, <2>8, <2>9, <2>10, <2>11, <2>12
       DEF Step
<1> QED
  BY <1>1, <1>2, <1>3, <1>4, CacheAssumption DEF Next

-----------------------------------------------------------------------------
(* The theorems.                                                           *)

LEMMA InitCacheInv ==
  Init => CacheInv
<1> SUFFICES ASSUME Init
             PROVE  CacheInv
  OBVIOUS
<1> USE CacheAssumption DEF Init
<1>0. 0 \in Slot
  BY ONLY CacheAssumption DEF Slot
<1>1. TypeOK
  <2>1. cache \in [Slot -> Block]
    BY DEF Block
  <2> QED
    BY <1>0, <2>1 DEF TypeOK, PC
<1>2. PinCounts
  <2> SUFFICES ASSUME NEW i \in Slot
               PROVE  /\ Cardinality({t \in Client : Using(t, i) /\ op[t] = "read"}) = 0
                      /\ Cardinality({t \in Client : Using(t, i) /\ op[t] = "write"}) = 0
                      /\ Cardinality({t \in Client : pc[t] = "writeback" /\ slot[t] = i}) = 0
    <3>1. \A i \in Slot : cache[i].reader = 0 /\ cache[i].writer = 0
      OBVIOUS
    <3>2. 0 = 0 + 0
      OBVIOUS
    <3> QED
      BY <1>1, <3>1, <3>2 DEF PinCounts
  <2>1. /\ {t \in Client : Using(t, i) /\ op[t] = "read"} = {}
        /\ {t \in Client : Using(t, i) /\ op[t] = "write"} = {}
        /\ {t \in Client : pc[t] = "writeback" /\ slot[t] = i} = {}
    BY DEF Using
  <2> QED
    BY <2>1, FS_EmptySet
<1>3. LoadingExclusive /\ SectorGiven
  BY DEF LoadingExclusive, SectorGiven
<1>4. Tidy
  BY <1>0 DEF Tidy, FreeUnnamed, EvictWhenFull, OneSlotPerSector, SlotsHeld, FlushAlone,
         LoadedIntoFree, At, Free
<1>5. Contents
  BY DEF Contents
<1> QED
  BY <1>2, <1>3, <1>4, <1>5 DEF CacheInv, Base

LEMMA NextCacheInv ==
  CacheInv /\ [Next]_vars => CacheInv'
<1> SUFFICES ASSUME CacheInv, [Next]_vars
             PROVE  CacheInv'
  OBVIOUS
<1>1. Base'
  BY CountStep, LockStep DEF CacheInv, Base
<1>2. raced => raced'
  BY CacheAssumption
     DEF Next, Step, vars, history, Call, FindHit, FindMiss, AddCache, EvictSkip, EvictVictim,
         WriteBack, Load, Loaded, Pin, CopyOut, CopyIn, Mark, Unpin, SaveBegin, SaveSlot
<1>3. ~raced' => Tidy' /\ Contents'
  BY <1>2, TidyStep, ContentsStep DEF CacheInv
<1> QED
  BY <1>1, <1>3 DEF CacheInv

(* The inductive invariant holds throughout.                               *)
THEOREM CacheInvariant ==
  Spec => []CacheInv
  BY InitCacheInv, NextCacheInv, PTL DEF Spec

(* The reader and writer counts of every slot are exact in every           *)
(* interleaving of read_cache(), write_cache() and evict_cache().          *)
THEOREM PinCountsThm ==
  Spec => []PinCounts
<1>1. CacheInv => PinCounts
  BY DEF CacheInv, Base
<1> QED
  BY <1>1, CacheInvariant, PTL

(* Only the holder of cache_globallock is inside the code it protects, and *)
(* finds a free slot after an eviction.                                    *)
THEOREM LoadingExclusiveThm ==
  Spec => []LoadingExclusive
<1>1. CacheInv => LoadingExclusive
  BY DEF CacheInv, Base
<1> QED
  BY <1>1, CacheInvariant, PTL

(* Before the first race, no two slots hold one sector and a lookup finds  *)
(* the last value written.                                                 *)
THEOREM CoherentThm ==
  Spec => []Coherent
<1>1. CacheInv => Coherent
  <2> SUFFICES ASSUME CacheInv, ~raced, NEW s \in Sector
               PROVE  Current(s) = latest[s]
    BY DEF Coherent
  <2>1. Tidy /\ Contents /\ TypeOK
    BY DEF CacheInv, Base, PinCounts
  <2>2. CASE InUse(s) = {}
    <3>1. \A i \in cache_table : cache[i].bid # s
      BY <2>1, <2>2 DEF InUse, Holding, TypeOK
    <3> QED
      BY <2>1, <2>2, <3>1 DEF Current, Contents
  <2>3. CASE InUse(s) # {}
    <3>1. InUse(s) \in SUBSET Nat
      BY DEF InUse, Holding, Slot
    <3>2. LowestOf(InUse(s)) \in InUse(s)
      BY <2>3, <3>1, LowestIsLeast
    <3> QED
      BY <2>1, <2>3, <3>2 DEF Current, Contents, InUse, Holding
  <2> QED
    BY <2>2, <2>3
<1> QED
  BY <1>1, CacheInvariant, PTL

(* Before the first race, save_cachetable() in a quiet moment leaves the   *)
(* last value of every sector on the disk.                                 *)
THEOREM SaveIsEnoughThm ==
  Spec => []SaveIsEnough
<1>1. CacheInv => SaveIsEnough
  <2> SUFFICES ASSUME CacheInv, ~raced, Quiescent, NEW s \in Sector
               PROVE  Saved(s) = latest[s]
    BY DEF SaveIsEnough
  <2> DEFINE dirty == {i \in InUse(s) : cache[i].dirty}
  <2>1. Tidy /\ Contents /\ TypeOK
    BY DEF CacheInv, Base, PinCounts
  <2>2. \A i \in InUse(s) : i \in cache_table /\ cache[i].bid = s /\ cache[i].data = latest[s]
    BY <2>1 DEF InUse, Holding, Contents
  <2>3. CASE dirty = {}
    <3>1. \A i \in InUse(s) : disk[s] = cache[i].data
      BY <2>1, <2>2, <2>3 DEF Contents, AboutToMark, Quiescent
    <3>2. InUse(s) = {} => disk[s] = latest[s]
      BY <2>1 DEF Contents, InUse, Holding, TypeOK
    <3>3. disk[s] = latest[s]
      BY <2>2, <3>1, <3>2
    <3> QED
      BY <2>3, <3>3 DEF Saved
  <2>4. CASE dirty # {}
    <3>1. \A i, j \in dirty : i = j /\ i \in Nat
      BY <2>1, <2>2, CacheAssumption DEF Tidy, OneSlotPerSector, InUse, Holding, Slot
    <3> DEFINE last == CHOOSE i \in dirty : \A j \in dirty : j <= i
    <3>2. last \in dirty
      BY <2>4, <3>1
    <3>3. cache[last].data = latest[s]
      BY <2>2, <3>2
    <3> QED
      BY <2>4, <3>3 DEF Saved
  <2> QED
    BY <2>3, <2>4
<1> QED
  BY <1>1, CacheInvariant, PTL

(* Before the first race a read returns the last value copied into its     *)
(* sector, although the copy is made with no lock held.                    *)
THEOREM ReadsLatestThm ==
  Spec => ReadsLatest
<1> DEFINE Read == \A t \in Client :
              ~raced /\ op[t] = "read" /\ pc[t] = "copy" /\ pc'[t] = "mark"
                => value'[t] = latest[sector[t]]
<1>1. CacheInv /\ [Next]_vars => [Read]_vars
  <2> SUFFICES ASSUME CacheInv, Next, NEW t \in Client,
                      ~raced, op[t] = "read", pc[t] = "copy", pc'[t] = "mark"
               PROVE  value'[t] = latest[sector[t]]
    BY DEF vars
  <2>1. Tidy /\ Contents /\ TypeOK
    BY DEF CacheInv, Base, PinCounts
  <2>2. CopyOut(t)
    <3>1. PICK u \in Client : \/ \E s \in Sector, v \in Value, o \in {"read", "write"} : Call(u, o, s, v)
                             \/ SaveBegin(u) \/ Step(u)
      BY CacheAssumption DEF Next
    <3>2. u = t /\ Step(t)
      BY <2>1, <3>1
         DEF Step, Goto, TypeOK, Call, FindHit, FindMiss, AddCache, EvictSkip, EvictVictim,
             WriteBack, Load, Loaded, Pin, CopyOut, CopyIn, Mark, Unpin, SaveBegin, SaveSlot
    <3> QED
      BY <2>1, <3>2
         DEF Step, Goto, TypeOK, FindHit, FindMiss, AddCache, EvictSkip, EvictVictim,
             WriteBack, Load, Loaded, Pin, CopyOut, CopyIn, Mark, Unpin, SaveSlot
  <2>3. slot[t] \in cache_table /\ cache[slot[t]].bid = sector[t]
    BY <2>1 DEF Tidy, SlotsHeld, At, TypeOK
  <2> QED
    BY <2>1, <2>2, <2>3 DEF CopyOut, Contents, TypeOK
<1> QED
  BY <1>1, CacheInvariant, PTL DEF Spec, ReadsLatest
=============================================================================
