-------------------------- MODULE AllocationProofs --------------------------
(***************************************************************************)
(* The allocators, for any number of what they give out: pages and blocks  *)
(* of memory, and the sectors that files grow by.                          *)
(*                                                                         *)
(* Memory (modules Palloc and Malloc), for any number of threads.  A page  *)
(* has one owner while its bit is set, and every step gives it its owner,  *)
(* hands it on, or takes it away.  The blocks of an arena are counted:     *)
(* when free() finds that the count says all are free, the one it was      *)
(* called with was the last in use, and so no block of a page that is      *)
(* given back is left anywhere.                                            *)
(*                                                                         *)
(* Sectors (module Inode), for inodes, lists and disks of any size.  Each  *)
(* sector that a file reaches has a kind (its inode, a block, a list) and  *)
(* a number, and FileInv says that no two are the same and that the free   *)
(* map marks them and no others.  A growth takes the lowest free sectors:  *)
(* Place says which of them becomes what, and Grew that lookups then find  *)
(* each there, and all that was reached before where it was.               *)
(***************************************************************************)
EXTENDS Malloc, Inode, FiniteSetTheorems, TLAPS

Members(list) == {list[i] : i \in 1 .. Len(list)}
Once(list)    == \A i, j \in 1 .. Len(list) : list[i] = list[j] => i = j

(* What a successful search returns. *)
Result(r, cnts) == /\ r \in [cnt : cnts, page : Page]
                   /\ Run(r.page, r.cnt) \subseteq Page

(* t is inside palloc_get_multiple() for one of cnts pages, or has come    *)
(* back from it.                                                           *)
Getting(t, cnts) ==
  /\ clearing[t] = {}
  /\ \/ search[t] \in [cnt : cnts, at : Nat] /\ found[t] = Nothing
     \/ search[t] = NoSearch /\ (found[t] = Nothing \/ Result(found[t], cnts))

Freeing(t) == search[t] = NoSearch /\ found[t] = Nothing /\ clearing[t] \subseteq Page

HasLock(t) == call[t].desc \in Desc /\ descLock[call[t].desc] = t

(* Where a thread is, and what it works on there: a new arena is made only *)
(* while its descriptor has no free block.                                 *)
Working(t) ==
  \/ call[t] = NoCall /\ OutsidePalloc(t) /\ found[t] = Nothing
  \/ /\ call[t].kind = "arena" /\ HasLock(t) /\ Getting(t, {1})
     /\ free_list[call[t].desc] = <<>>
  \/ call[t].kind = "big" /\ Getting(t, BigPages)
  \/ call[t].kind = "release" /\ HasLock(t) /\ Freeing(t)
  \/ call[t].kind = "free" /\ Freeing(t)

CallTypes ==
  /\ used_map \subseteq Page
  /\ poolLock \in Allocator \cup {NoAllocator}
  /\ search \in [Allocator -> [cnt : Nat, at : Nat]]
  /\ found \in [Allocator -> {Nothing} \cup [cnt : Nat, page : Page]]
  /\ clearing \in [Allocator -> SUBSET Page]
  /\ descLock \in [Desc -> Allocator \cup {NoAllocator}]
  /\ call \in [Allocator -> [kind : {"none", "arena", "big", "release", "free"},
                             desc : Desc \cup {NoAllocator}]]
  /\ \A b \in big : Result(b, BigPages)

BlockTypes ==
  /\ free_list \in [Desc -> Seq(Block)]
  /\ arena \in [Page -> {NoArena} \cup [desc : Desc, free_cnt : Nat]]
  /\ allocated \subseteq Block

Calls ==
  /\ \A t \in Allocator : Working(t)
  /\ poolLock # NoAllocator => search[poolLock] # NoSearch

(* A page's owner. *)
OneOwner(p) == IF p \in used_map THEN \E o : Owners(p) = {o} ELSE Owners(p) = {}

(* A descriptor's list has the free blocks of its arenas, each once. *)
ListExact(d) ==
  /\ Once(free_list[d])
  /\ Members(free_list[d]) = {b \in Block : arena[b[1]].desc = d} \ allocated

BlocksAt(p) == {p} \X (1 .. BlocksPerArena)

CountExact(p) ==
  p \in Arenas => /\ arena[p].free_cnt < BlocksPerArena
                  /\ arena[p].free_cnt = Cardinality(BlocksAt(p) \ allocated)

BlocksInv ==
  /\ BlockTypes
  /\ \A p \in Page : CountExact(p)
  /\ \A d \in Desc : ListExact(d)
  /\ \A b \in allocated : b[1] \in Arenas

MallocInv == CallTypes /\ Calls /\ BlocksInv /\ \A p \in Page : OneOwner(p)

-----------------------------------------------------------------------------
(* Lists.                                                                  *)
LEMMA FirstMember ==
  ASSUME NEW S, NEW q \in Seq(S), q # <<>>, Once(q)
  PROVE  /\ Head(q) \in S /\ Head(q) \in Members(q)
         /\ Tail(q) \in Seq(S) /\ Once(Tail(q))
         /\ Members(Tail(q)) = Members(q) \ {Head(q)}
<1>1. Len(q) \in Nat \ {0} /\ Head(q) = q[1]
  OBVIOUS
<1>2. /\ Tail(q) \in Seq(S) /\ Len(Tail(q)) = Len(q) - 1
      /\ \A i \in 1 .. Len(q) - 1 : Tail(q)[i] = q[i + 1]
  BY <1>1
<1>3. Once(Tail(q))
  BY <1>1, <1>2 DEF Once
<1>4. ASSUME NEW x \in Members(q), x # Head(q) PROVE x \in Members(Tail(q))
  <2>1. PICK i \in 1 .. Len(q) : x = q[i]
    BY <1>4 DEF Members
  <2>2. i - 1 \in 1 .. Len(Tail(q)) /\ Tail(q)[i - 1] = x
    BY <1>1, <1>2, <1>4, <2>1
  <2> QED
    BY <2>2 DEF Members
<1>5. ASSUME NEW x \in Members(Tail(q)) PROVE x \in Members(q) /\ x # Head(q)
  BY <1>1, <1>2, <1>5 DEF Members, Once
<1> QED
  BY <1>1, <1>2, <1>3, <1>4, <1>5, SMTT(30) DEF Members

LEMMA PushFront ==
  ASSUME NEW S, NEW q \in Seq(S), NEW x \in S, Once(q), x \notin Members(q)
  PROVE  /\ <<x>> \o q \in Seq(S) /\ Once(<<x>> \o q)
         /\ Members(<<x>> \o q) = Members(q) \cup {x}
<1> DEFINE r == <<x>> \o q
<1>1. /\ r \in Seq(S) /\ Len(r) = Len(q) + 1 /\ r[1] = x /\ Len(q) \in Nat
      /\ \A i \in 1 .. Len(q) : r[i + 1] = q[i]
  OBVIOUS
<1> HIDE DEF r
<1>2. \A i \in 2 .. Len(r) : i - 1 \in 1 .. Len(q) /\ r[i] = q[i - 1]
  <2> SUFFICES ASSUME NEW i \in 2 .. Len(r) PROVE i - 1 \in 1 .. Len(q) /\ r[i] = q[i - 1]
    OBVIOUS
  <2>1. i - 1 \in 1 .. Len(q) /\ (i - 1) + 1 = i
    BY <1>1
  <2> QED
    BY <1>1, <2>1
<1>3. \A i \in 1 .. Len(r) : i = 1 \/ i \in 2 .. Len(r)
  BY <1>1
<1>4. Once(r)
  <2> SUFFICES ASSUME NEW i \in 1 .. Len(r), NEW j \in 1 .. Len(r), r[i] = r[j] PROVE i = j
    BY DEF Once
  <2> QED
    BY <1>1, <1>2, <1>3 DEF Once, Members
<1>5. Members(r) = Members(q) \cup {x}
  <2>1. ASSUME NEW y \in Members(q) PROVE y \in Members(r)
    <3>1. PICK i \in 1 .. Len(q) : y = q[i]
      BY <2>1 DEF Members
    <3>2. i + 1 \in 1 .. Len(r) /\ r[i + 1] = y
      BY <1>1, <3>1
    <3> QED
      BY <3>2 DEF Members
  <2>2. x \in Members(r)
    BY <1>1 DEF Members
  <2>3. ASSUME NEW y \in Members(r) PROVE y = x \/ y \in Members(q)
    BY <1>1, <1>2, <1>3, <2>3 DEF Members
  <2> QED
    BY <2>1, <2>2, <2>3
<1> QED
  BY <1>1, <1>4, <1>5 DEF r

(* Counting up to an index: the members that stay are numbered in order.   *)
LEMMA WithoutMembers ==
  ASSUME NEW S, NEW q \in Seq(S), NEW gone, Once(q)
  PROVE  /\ Without(q, gone) \in Seq(S) /\ Once(Without(q, gone))
         /\ Members(Without(q, gone)) = Members(q) \ gone
<1> DEFINE kept    == {i \in DOMAIN q : q[i] \notin gone}
           n       == Cardinality(kept)
           upto(i) == {j \in kept : j <= i}
           rank    == [i \in kept |-> Cardinality(upto(i))]
           nth(k)  == CHOOSE i \in kept : Cardinality(upto(i)) = k
           r       == [k \in 1 .. n |-> q[nth(k)]]
<1>1. Without(q, gone) = r
  BY DEF Without
<1>2. /\ Len(q) \in Nat /\ DOMAIN q = 1 .. Len(q) /\ kept \subseteq 1 .. Len(q)
      /\ \A i \in 1 .. Len(q) : q[i] \in S
  OBVIOUS
<1>3. IsFiniteSet(kept) /\ n \in Nat
  <2>1. IsFiniteSet(1 .. Len(q))
    BY <1>2, FS_Interval
  <2>2. IsFiniteSet(kept)
    BY ONLY <1>2, <2>1, FS_Subset
  <2> QED
    BY <2>2, FS_CardinalityType
<1>4. \A i \in kept : q[i] \notin gone /\ q[i] \in S /\ i \in 1 .. Len(q)
  BY <1>2
<1>5. \A i \in 1 .. Len(q) : q[i] \notin gone => i \in kept
  BY <1>2
<1> HIDE DEF kept
<1>6. \A i \in kept : upto(i) \subseteq kept /\ IsFiniteSet(upto(i)) /\ Cardinality(upto(i)) \in 1 .. n
  <2> SUFFICES ASSUME NEW i \in kept
               PROVE  upto(i) \subseteq kept /\ IsFiniteSet(upto(i)) /\ Cardinality(upto(i)) \in 1 .. n
    OBVIOUS
  <2>1. upto(i) \in SUBSET kept
    OBVIOUS
  <2>2. IsFiniteSet(upto(i)) /\ Cardinality(upto(i)) <= n /\ Cardinality(upto(i)) \in Nat
    BY ONLY <1>3, <2>1, FS_Subset, FS_CardinalityType
  <2>3. i \in upto(i)
    BY <1>2, <1>4
  <2>4. Cardinality(upto(i)) # 0
    BY ONLY <2>2, <2>3, FS_EmptySet
  <2> QED
    BY ONLY <1>3, <2>1, <2>2, <2>4
<1>7. \A i, j \in kept : Cardinality(upto(i)) = Cardinality(upto(j)) => i = j
  <2>1. ASSUME NEW i \in kept, NEW j \in kept, i < j, Cardinality(upto(i)) = Cardinality(upto(j))
        PROVE  FALSE
    <3>1. upto(i) \in SUBSET upto(j)
      <4>1. i \in Nat /\ j \in Nat /\ \A x \in kept : x \in Nat
        BY <1>4
      <4>2. \A x \in kept : x <= i => x <= j
        BY <2>1, <4>1
      <4> QED
        BY <4>2
    <3>2. upto(i) = upto(j)
      BY ONLY <1>6, <2>1, <3>1, FS_Subset
    <3>3. j \in upto(j) /\ j \notin upto(i)
      BY <1>2, <1>4, <2>1
    <3> QED
      BY <3>2, <3>3
  <2>2. \A i, j \in kept : i < j \/ j < i \/ i = j
    BY <1>4
  <2> QED
    BY <2>1, <2>2
<1>8. \A k \in 1 .. n : \E i \in kept : Cardinality(upto(i)) = k
  <2>1. rank \in Injection(kept, 1 .. n)
    <3>1. rank \in [kept -> 1 .. n]
      BY <1>6
    <3>2. \A i, j \in kept : rank[i] = rank[j] => i = j
      BY <1>7
    <3> QED
      BY <3>1, <3>2 DEF Injection, IsInjective
  <2>2. IsFiniteSet(1 .. n) /\ Cardinality(1 .. n) = n
    <3>1. 1 \in Int /\ n \in Int /\ n \in Nat
      BY <1>3
    <3>2. Cardinality(1 .. n) = IF 1 > n THEN 0 ELSE n - 1 + 1
      BY ONLY <3>1, FS_Interval
    <3>3. IsFiniteSet(1 .. n)
      BY ONLY <3>1, FS_Interval
    <3> QED
      BY ONLY <3>1, <3>2, <3>3
  <2>3. rank \in Surjection(kept, 1 .. n)
    <3> HIDE DEF rank
    <3> QED
      BY ONLY <2>1, <2>2, n = Cardinality(kept), FS_Injection
  <2> QED
    BY <2>3 DEF Surjection
<1>9. \A k \in 1 .. n : nth(k) \in kept /\ Cardinality(upto(nth(k))) = k
  BY <1>8
<1> HIDE DEF nth, upto, rank, n
<1>10. ASSUME NEW i \in kept PROVE \E k \in 1 .. n : nth(k) = i
  <2>1. Cardinality(upto(i)) \in 1 .. n
    BY <1>6
  <2>2. nth(Cardinality(upto(i))) = i
    BY <1>7, <1>9, <2>1
  <2> QED
    BY <2>1, <2>2
<1>11. /\ r \in Seq(S) /\ Len(r) = n /\ \A k \in 1 .. n : r[k] = q[nth(k)]
  BY <1>3, <1>4, <1>9
<1> HIDE DEF r
<1>12. Once(r)
  <2> SUFFICES ASSUME NEW k \in 1 .. n, NEW m \in 1 .. n, r[k] = r[m] PROVE k = m
    BY <1>11 DEF Once
  <2>1. nth(k) = nth(m)
    <3>1. nth(k) \in 1 .. Len(q) /\ nth(m) \in 1 .. Len(q)
      BY ONLY <1>4, <1>9, k \in 1 .. n, m \in 1 .. n
    <3>2. q[nth(k)] = q[nth(m)]
      BY ONLY <1>11, r[k] = r[m], k \in 1 .. n, m \in 1 .. n
    <3> QED
      BY ONLY <3>1, <3>2, Once(q) DEF Once
  <2> QED
    BY ONLY <1>9, <2>1, k \in 1 .. n, m \in 1 .. n
<1>13. Members(r) = Members(q) \ gone
  <2>1. ASSUME NEW x \in Members(r) PROVE x \in Members(q) \ gone
    BY <1>4, <1>9, <1>11, <2>1 DEF Members
  <2>2. ASSUME NEW x \in Members(q), x \notin gone PROVE x \in Members(r)
    <3>1. PICK i \in 1 .. Len(q) : x = q[i]
      BY <2>2 DEF Members
    <3>2. PICK k \in 1 .. n : nth(k) = i
      BY <1>5, <1>10, <2>2, <3>1
    <3> QED
      BY <1>11, <3>1, <3>2 DEF Members
  <2> QED
    BY <2>1, <2>2
<1> QED
  BY <1>1, <1>11, <1>12, <1>13

-----------------------------------------------------------------------------
(* Where threads are.                                                      *)

(* A step of t leaves the other threads where they are if it leaves the    *)
(* descriptors alone whose lock they hold.                                 *)
OnlyMoves(t) ==
  /\ \A u \in Allocator \ {t} : /\ search'[u] = search[u] /\ found'[u] = found[u]
                                /\ clearing'[u] = clearing[u] /\ call'[u] = call[u]
  /\ \A d \in Desc : descLock[d] \notin {t, NoAllocator} =>
                        descLock'[d] = descLock[d] /\ free_list'[d] = free_list[d]

LEMMA OthersWork ==
  ASSUME NEW t \in Allocator, Calls, OnlyMoves(t), NEW u \in Allocator \ {t}
  PROVE  Working(u)'
<1> USE PallocAssumption
<1>1. Working(u) /\ u # NoAllocator
  BY DEF Calls
<1>2. /\ search'[u] = search[u] /\ found'[u] = found[u]
      /\ clearing'[u] = clearing[u] /\ call'[u] = call[u]
  BY DEF OnlyMoves
<1>3. HasLock(u) => HasLock(u)' /\ free_list'[call[u].desc] = free_list[call[u].desc]
  BY <1>1, <1>2 DEF HasLock, OnlyMoves
<1>4. /\ Getting(u, {1}) => Getting(u, {1})'
      /\ Getting(u, BigPages) => Getting(u, BigPages)'
      /\ Freeing(u) => Freeing(u)'
      /\ OutsidePalloc(u) => OutsidePalloc(u)'
  BY <1>2 DEF Getting, Freeing, OutsidePalloc, Result
<1>5. call[u].desc' = call[u].desc /\ call[u].kind' = call[u].kind
  BY <1>2
<1>6. CASE call[u] = NoCall /\ OutsidePalloc(u) /\ found[u] = Nothing
  <2>1. call'[u] = NoCall /\ found'[u] = Nothing /\ OutsidePalloc(u)'
    BY <1>2, <1>4, <1>6
  <2> QED
    BY <2>1 DEF Working, NoCall, Nothing
<1>7. CASE call[u].kind = "arena" /\ HasLock(u) /\ Getting(u, {1}) /\ free_list[call[u].desc] = <<>>
  BY <1>2, <1>3, <1>4, <1>7 DEF Working
<1>8. CASE call[u].kind = "big" /\ Getting(u, BigPages)
  BY <1>4, <1>5, <1>8 DEF Working
<1>9. CASE call[u].kind = "release" /\ HasLock(u) /\ Freeing(u)
  BY <1>3, <1>4, <1>5, <1>9 DEF Working
<1>10. CASE call[u].kind = "free" /\ Freeing(u)
  BY <1>4, <1>5, <1>10 DEF Working
<1> QED
  BY <1>1, <1>6, <1>7, <1>8, <1>9, <1>10 DEF Working

(* The steps inside the page allocator.                                    *)
LEMMA PallocCalls ==
  ASSUME CallTypes, Calls, NEW t \in Allocator, InsidePalloc(t), UNCHANGED arenaVars
  PROVE  CallTypes' /\ Calls'
<1> USE PallocAssumption, MallocAssumption
<1>0. /\ UNCHANGED <<descLock, free_list, call, big>>
      /\ Working(t) /\ t # NoAllocator
      /\ CallTypes
  BY DEF arenaVars, Calls
<1>1. OnlyMoves(t)
  BY <1>0 DEF InsidePalloc, LockPool, TakePages, TryNext, NoPages, ClearBit, EndSearch, OnlyMoves,
              CallTypes
<1>2. \A u \in Allocator \ {t} : Working(u)'
  BY <1>1, OthersWork
<1>3. CallTypes' /\ Working(t)' /\ (poolLock' # NoAllocator => search'[poolLock'] # NoSearch)
  <2>1. CASE LockPool(t)
    <3>1. CallTypes'
      BY <1>0, <2>1 DEF LockPool, CallTypes
    <3>2. Working(t)'
      BY <1>0, <2>1 DEF LockPool, Working, Getting, Freeing, OutsidePalloc, HasLock
    <3> QED
      BY <3>1, <3>2, <1>0, <2>1 DEF LockPool
  <2>2. CASE poolLock = t
    <3>1. PICK cnts : /\ cnts \subseteq Nat \ {0} /\ clearing[t] = {}
                      /\ search[t] \in [cnt : cnts, at : Nat] /\ found[t] = Nothing
                      /\ Getting(t, cnts)' => Working(t)'
      <4>1. search[t] # NoSearch
        BY <1>0, <2>2 DEF Calls
      <4>2. CASE call[t].kind = "arena"
        <5>1. HasLock(t) /\ Getting(t, {1}) /\ free_list[call[t].desc] = <<>>
          BY <1>0, <4>1, <4>2 DEF Working, OutsidePalloc, Freeing, NoCall
        <5>2. Getting(t, {1})' => Working(t)'
          BY <1>0, <4>2, <5>1 DEF Working, HasLock
        <5> QED
          BY <4>1, <5>1, <5>2, SMTT(30) DEF Getting
      <4>3. CASE call[t].kind = "big"
        <5>1. Getting(t, BigPages)
          BY <1>0, <4>1, <4>3 DEF Working, OutsidePalloc, Freeing, NoCall
        <5>2. Getting(t, BigPages)' => Working(t)'
          BY <1>0, <4>3 DEF Working
        <5> QED
          BY <4>1, <5>1, <5>2 DEF Getting
      <4> QED
        BY <1>0, <4>1, <4>2, <4>3 DEF Working, OutsidePalloc, Freeing
    <3>2. CASE TakePages(t)
      <4>1. /\ Run(search[t].at, search[t].cnt) \subseteq Page \ used_map
            /\ used_map' = used_map \cup Run(search[t].at, search[t].cnt)
            /\ search' = [search EXCEPT ![t] = NoSearch]
            /\ found' = [found EXCEPT ![t] = [cnt |-> search[t].cnt, page |-> search[t].at]]
            /\ poolLock' = NoAllocator /\ clearing' = clearing
        BY <3>2 DEF TakePages, EndSearch
      <4>2. search[t].at \in Run(search[t].at, search[t].cnt)
        <5>1. search[t].at \in Nat /\ search[t].cnt \in Nat \ {0}
          BY <3>1
        <5> QED
          BY <5>1 DEF Run
      <4>3. Result([cnt |-> search[t].cnt, page |-> search[t].at], cnts)
        BY <3>1, <4>1, <4>2 DEF Result
      <4>4. Getting(t, cnts)'
        BY <1>0, <3>1, <4>1, <4>3 DEF Getting, CallTypes, Result
      <4>5. CallTypes'
        BY <1>0, <3>1, <4>1, <4>3 DEF CallTypes, Result, NoSearch
      <4> QED
        BY <3>1, <4>1, <4>4, <4>5
    <3>3. CASE TryNext(t)
      <4>1. /\ search' = [search EXCEPT ![t].at = @ + 1]
            /\ UNCHANGED <<used_map, poolLock, found, clearing>>
        BY <3>3 DEF TryNext
      <4>2. search'[t] \in [cnt : cnts, at : Nat]
        BY <1>0, <3>1, <4>1, SMTT(30) DEF CallTypes
      <4>3. Getting(t, cnts)' /\ search'[t] # NoSearch
        BY <3>1, <4>1, <4>2 DEF Getting, NoSearch
      <4>4. CallTypes'
        BY <1>0, <3>1, <4>1, <4>2 DEF CallTypes
      <4> QED
        BY <2>2, <3>1, <4>1, <4>3, <4>4
    <3>4. CASE NoPages(t)
      <4>1. /\ search' = [search EXCEPT ![t] = NoSearch]
            /\ found' = [found EXCEPT ![t] = Nothing]
            /\ poolLock' = NoAllocator /\ clearing' = clearing /\ used_map' = used_map
        BY <3>4 DEF NoPages, EndSearch
      <4>2. Getting(t, cnts)'
        BY <1>0, <3>1, <4>1 DEF Getting, CallTypes
      <4>3. CallTypes'
        BY <1>0, <3>1, <4>1 DEF CallTypes, NoSearch
      <4> QED
        BY <3>1, <4>1, <4>2, <4>3
    <3>5. CASE ClearBit(t)
      BY <3>1, <3>5 DEF ClearBit
    <3> QED
      BY <2>1, <3>2, <3>3, <3>4, <3>5 DEF InsidePalloc
  <2>3. CASE ClearBit(t)
    <3>1. /\ \E p \in clearing[t] : /\ used_map' = used_map \ {p}
                                    /\ clearing' = [clearing EXCEPT ![t] = @ \ {p}]
          /\ UNCHANGED <<poolLock, search, found>>
      BY <2>3 DEF ClearBit
    <3>2. CallTypes'
      BY <1>0, <3>1 DEF CallTypes
    <3>3. Freeing(t) /\ call[t].kind \in {"release", "free"} /\ (call[t].kind = "release" => HasLock(t))
      BY <1>0, <3>1 DEF Working, OutsidePalloc, Getting
    <3>4. Freeing(t)'
      BY <1>0, <3>1, <3>3 DEF Freeing, CallTypes
    <3>5. Working(t)'
      BY <1>0, <3>3, <3>4 DEF Working, HasLock
    <3> QED
      BY <1>0, <3>1, <3>2, <3>5 DEF Calls
  <2> QED
    BY <2>1, <2>2, <2>3 DEF InsidePalloc, TakePages, TryNext, NoPages
<1> QED
  BY <1>2, <1>3 DEF Calls

(* A thread that enters, or is in, a function of malloc.c.                 *)
LEMMA InMalloc ==
  ASSUME Calls, NEW t \in Allocator
  PROVE  /\ Idling(t) => OutsidePalloc(t) /\ found[t] = Nothing
         /\ InCall(t, "arena") => /\ HasLock(t) /\ OutsidePalloc(t) /\ free_list[call[t].desc] = <<>>
                                  /\ found[t] = Nothing \/ Result(found[t], {1})
         /\ InCall(t, "big") => /\ OutsidePalloc(t)
                                /\ found[t] = Nothing \/ Result(found[t], BigPages)
         /\ InCall(t, "release") => HasLock(t) /\ OutsidePalloc(t) /\ found[t] = Nothing
         /\ InCall(t, "free") => OutsidePalloc(t) /\ found[t] = Nothing
<1> USE PallocAssumption, MallocAssumption
<1>1. Working(t)
  BY DEF Calls
<1>2. ~([cnt |-> 0, at |-> 0] \in [cnt : {1}, at : Nat])
      /\ ~([cnt |-> 0, at |-> 0] \in [cnt : BigPages, at : Nat])
  OBVIOUS
<1>3. Idling(t) => OutsidePalloc(t) /\ found[t] = Nothing
  BY <1>1 DEF Working, Idling, NoCall
<1>4. InCall(t, "arena") => /\ HasLock(t) /\ OutsidePalloc(t) /\ free_list[call[t].desc] = <<>>
                            /\ found[t] = Nothing \/ Result(found[t], {1})
  BY <1>1, <1>2 DEF Working, InCall, NoCall, OutsidePalloc, Getting, NoSearch
<1>5. InCall(t, "big") => /\ OutsidePalloc(t)
                          /\ found[t] = Nothing \/ Result(found[t], BigPages)
  BY <1>1, <1>2 DEF Working, InCall, NoCall, OutsidePalloc, Getting, NoSearch
<1>6. InCall(t, "release") => HasLock(t) /\ OutsidePalloc(t) /\ found[t] = Nothing
  BY <1>1 DEF Working, InCall, NoCall, Freeing
<1>7. InCall(t, "free") => OutsidePalloc(t) /\ found[t] = Nothing
  BY <1>1 DEF Working, InCall, NoCall, Freeing
<1> QED
  BY <1>3, <1>4, <1>5, <1>6, <1>7

(* It enters the page allocator, ...                                       *)
LEMMA WantCalls ==
  ASSUME CallTypes, Calls, NEW t \in Allocator, Idling(t), NEW kind \in {"arena", "big"},
         NEW d \in Desc \cup {NoAllocator}, NEW cnt \in Nat \ {0},
         Enter(t, kind, d), WantPages(t, cnt), UNCHANGED <<free_list, big>>,
         \/ /\ kind = "arena" /\ cnt = 1 /\ d \in Desc /\ free_list[d] = <<>>
            /\ descLock[d] = NoAllocator /\ descLock' = [descLock EXCEPT ![d] = t]
         \/ kind = "big" /\ cnt \in BigPages /\ UNCHANGED descLock
  PROVE  CallTypes' /\ Calls'
<1> USE PallocAssumption, MallocAssumption
<1>1. /\ search' = [search EXCEPT ![t] = [cnt |-> cnt, at |-> 0]]
      /\ found' = [found EXCEPT ![t] = Nothing]
      /\ UNCHANGED <<used_map, poolLock, clearing, big, free_list>>
      /\ call' = [call EXCEPT ![t] = [kind |-> kind, desc |-> d]]
      /\ clearing[t] = {} /\ search[t] = NoSearch
  BY DEF WantPages, Enter, OutsidePalloc
<1>2. CallTypes'
  BY <1>1 DEF CallTypes
<1>3. OnlyMoves(t)
  BY <1>1 DEF OnlyMoves, CallTypes
<1>4. /\ search'[t] = [cnt |-> cnt, at |-> 0] /\ found'[t] = Nothing /\ clearing'[t] = {}
      /\ call'[t].kind = kind /\ call'[t].desc = d
  BY <1>1 DEF CallTypes
<1>5. Working(t)'
  <2>1. CASE kind = "arena"
    <3>1. Getting(t, {1})'
      BY <1>4, <2>1 DEF Getting
    <3>2. HasLock(t)' /\ free_list'[call'[t].desc] = <<>>
      BY <1>1, <1>4, <2>1 DEF HasLock, CallTypes
    <3> QED
      BY <1>4, <2>1, <3>1, <3>2 DEF Working
  <2>2. CASE kind = "big"
    <3>1. Getting(t, BigPages)'
      BY <1>4, <2>2 DEF Getting
    <3> QED
      BY <1>4, <2>2, <3>1 DEF Working
  <2> QED
    BY <2>1, <2>2
<1>6. poolLock' # NoAllocator => search'[poolLock'] # NoSearch
  BY <1>1 DEF Calls, CallTypes
<1> QED
  BY <1>2, <1>3, <1>5, <1>6, OthersWork DEF Calls

LEMMA FreeCalls ==
  ASSUME CallTypes, Calls, NEW t \in Allocator, Idling(t), NEW kind \in {"release", "free"},
         NEW d \in Desc \cup {NoAllocator}, NEW pages \in SUBSET Page,
         Enter(t, kind, d), FreePages(t, pages), big' \subseteq big,
         \/ /\ kind = "release" /\ d \in Desc
            /\ descLock[d] = NoAllocator /\ descLock' = [descLock EXCEPT ![d] = t]
            /\ \A e \in Desc \ {d} : free_list'[e] = free_list[e]
         \/ kind = "free" /\ UNCHANGED <<descLock, free_list>>
  PROVE  CallTypes' /\ Calls'
<1> USE PallocAssumption, MallocAssumption
<1>1. /\ clearing' = [clearing EXCEPT ![t] = pages]
      /\ UNCHANGED <<used_map, poolLock, search, found>>
      /\ call' = [call EXCEPT ![t] = [kind |-> kind, desc |-> d]]
      /\ search[t] = NoSearch /\ found[t] = Nothing
  BY InMalloc DEF FreePages, Enter, OutsidePalloc
<1>2. CallTypes'
  BY <1>1 DEF CallTypes
<1>3. OnlyMoves(t)
  BY <1>1 DEF OnlyMoves, CallTypes
<1>4. call'[t].kind = kind /\ call'[t].desc = d /\ Freeing(t)'
  BY <1>1 DEF CallTypes, Freeing
<1>5. kind = "release" => HasLock(t)'
  BY <1>4 DEF HasLock, CallTypes
<1>6. Working(t)'
  BY <1>4, <1>5 DEF Working
<1> QED
  BY <1>1, <1>2, <1>3, <1>6, OthersWork DEF Calls

(* ... or comes back from it.                                              *)
LEMMA LeaveCalls ==
  ASSUME CallTypes, Calls, NEW t \in Allocator, OutsidePalloc(t), Leave(t),
         found' = [found EXCEPT ![t] = Nothing],
         UNCHANGED <<used_map, poolLock, search, clearing>>,
         \A b \in big' \ big : Result(b, BigPages),
         \/ /\ HasLock(t) /\ descLock' = [descLock EXCEPT ![call[t].desc] = NoAllocator]
            /\ \A d \in Desc \ {call[t].desc} : free_list'[d] = free_list[d]
         \/ UNCHANGED <<descLock, free_list>>
  PROVE  CallTypes' /\ Calls'
<1> USE PallocAssumption, MallocAssumption
<1>1. call' = [call EXCEPT ![t] = NoCall]
  BY DEF Leave
<1>2. CallTypes'
  <2>1. NoCall \in [kind : {"none", "arena", "big", "release", "free"}, desc : Desc \cup {NoAllocator}]
    BY DEF NoCall
  <2>2. \A b \in big' : Result(b, BigPages)'
    <3>1. \A b \in big' : Result(b, BigPages)
      BY DEF CallTypes
    <3> QED
      BY <3>1 DEF Result
  <2> QED
    BY <1>1, <2>1, <2>2 DEF CallTypes
<1>3. OnlyMoves(t)
  BY <1>1 DEF OnlyMoves, CallTypes, HasLock
<1>4. call'[t] = NoCall /\ OutsidePalloc(t)' /\ found'[t] = Nothing
  BY <1>1 DEF CallTypes, OutsidePalloc
<1>5. Working(t)'
  BY <1>4 DEF Working, NoCall, Nothing
<1> QED
  BY <1>2, <1>3, <1>5, OthersWork DEF Calls

LEMMA CallStep ==
  ASSUME MallocInv, MallocNext
  PROVE  CallTypes' /\ Calls'
<1> USE PallocAssumption, MallocAssumption
<1>0. CallTypes /\ Calls /\ BlockTypes
  BY DEF MallocInv, BlocksInv
<1>1. ASSUME NEW t \in Allocator, InsidePalloc(t), UNCHANGED arenaVars PROVE CallTypes' /\ Calls'
  BY <1>0, <1>1, PallocCalls
<1>2. ASSUME NEW t \in Allocator, NEW d \in Desc, MallocBlock(t, d) PROVE CallTypes' /\ Calls'
  <2>1. /\ UNCHANGED <<used_map, poolLock, search, found, clearing, descLock, big, call>>
        /\ descLock[d] = NoAllocator /\ \A e \in Desc \ {d} : free_list'[e] = free_list[e]
        /\ call[t] = NoCall /\ OutsidePalloc(t) /\ found[t] = Nothing
    BY <1>0, <1>2, InMalloc DEF MallocBlock, PopBlock, pallocVars, BlockTypes, Idling
  <2>2. CallTypes'
    BY <1>0, <2>1 DEF CallTypes
  <2>3. OnlyMoves(t)
    BY <2>1 DEF OnlyMoves
  <2>4. Working(t)'
    BY <2>1 DEF Working, OutsidePalloc, NoCall, Nothing
  <2> QED
    BY <1>0, <2>1, <2>2, <2>3, <2>4, OthersWork DEF Calls
<1>3. ASSUME NEW t \in Allocator, NEW d \in Desc, MallocArena(t, d) PROVE CallTypes' /\ Calls'
  <2>1. /\ Idling(t) /\ Enter(t, "arena", d) /\ WantPages(t, 1) /\ UNCHANGED <<free_list, big>>
        /\ free_list[d] = <<>> /\ descLock[d] = NoAllocator
        /\ descLock' = [descLock EXCEPT ![d] = t]
    BY <1>3 DEF MallocArena
  <2>2. d \in Desc \cup {NoAllocator} /\ 1 \in Nat \ {0}
    OBVIOUS
  <2> QED
    BY <1>0, <2>1, <2>2, WantCalls
<1>4. ASSUME NEW t \in Allocator, NEW cnt \in BigPages, MallocBig(t, cnt) PROVE CallTypes' /\ Calls'
  <2>1. cnt \in Nat \ {0} /\ NoAllocator \in Desc \cup {NoAllocator}
    OBVIOUS
  <2> QED
    BY <1>0, <1>4, <2>1, WantCalls DEF MallocBig
<1>5. ASSUME NEW t \in Allocator, ArenaMade(t) PROVE CallTypes' /\ Calls'
  <2>1. HasLock(t) /\ OutsidePalloc(t)
    BY <1>0, <1>5, InMalloc DEF ArenaMade
  <2>2. \A d \in Desc \ {call[t].desc} : free_list'[d] = free_list[d]
    BY <1>0, <1>5 DEF ArenaMade, PopBlock, BlockTypes
  <2>3. /\ descLock' = [descLock EXCEPT ![call[t].desc] = NoAllocator]
        /\ found' = [found EXCEPT ![t] = Nothing] /\ Leave(t)
        /\ UNCHANGED <<used_map, poolLock, search, clearing, big>>
    BY <1>5 DEF ArenaMade
  <2> QED
    BY <1>0, <2>1, <2>2, <2>3, LeaveCalls
<1>6. ASSUME NEW t \in Allocator, BigMade(t) PROVE CallTypes' /\ Calls'
  <2>1. OutsidePalloc(t) /\ (found[t] = Nothing \/ Result(found[t], BigPages))
    BY <1>0, <1>6, InMalloc DEF BigMade
  <2>2. \A b \in big' \ big : Result(b, BigPages)
    BY <1>6, <2>1 DEF BigMade
  <2>3. /\ found' = [found EXCEPT ![t] = Nothing] /\ Leave(t)
        /\ UNCHANGED <<used_map, poolLock, search, clearing, descLock, free_list>>
    BY <1>6 DEF BigMade
  <2> QED
    BY <1>0, <2>1, <2>2, <2>3, LeaveCalls
<1>7. ASSUME NEW t \in Allocator, ArenaReleased(t) \/ BigFreed(t) PROVE CallTypes' /\ Calls'
  <2>1. OutsidePalloc(t) /\ found[t] = Nothing /\ (ArenaReleased(t) => HasLock(t))
    BY <1>0, <1>7, InMalloc DEF ArenaReleased, BigFreed
  <2>2. /\ UNCHANGED <<used_map, poolLock, search, clearing, found, free_list, big>> /\ Leave(t)
        /\ \/ HasLock(t) /\ descLock' = [descLock EXCEPT ![call[t].desc] = NoAllocator]
           \/ UNCHANGED descLock
    BY <1>7, <2>1 DEF ArenaReleased, BigFreed, pallocVars
  <2>3. found' = [found EXCEPT ![t] = Nothing]
    BY <1>0, <2>1, <2>2 DEF CallTypes
  <2> QED
    BY <1>0, <2>1, <2>2, <2>3, LeaveCalls
<1>8. ASSUME NEW t \in Allocator, NEW b \in allocated, FreeBlock(t, b) PROVE CallTypes' /\ Calls'
  <2> DEFINE p == b[1]
             d == arena[p].desc
  <2>1. p \in Page /\ d \in Desc
    <3>1. b \in Block /\ p \in Arenas
      BY <1>0 DEF BlockTypes, MallocInv, BlocksInv
    <3> QED
      BY <1>0, <3>1 DEF Block, Arenas, BlockTypes
  <2>2. /\ Idling(t) /\ descLock[d] = NoAllocator /\ UNCHANGED big
        /\ \A e \in Desc \ {d} : free_list'[e] = free_list[e]
    BY <1>0, <1>8 DEF FreeBlock, BlockTypes
  <2>3. CASE /\ descLock' = [descLock EXCEPT ![d] = t]
             /\ Enter(t, "release", d) /\ FreePages(t, {p})
    BY <1>0, <2>1, <2>2, <2>3, FreeCalls
  <2>4. CASE UNCHANGED <<pallocVars, descLock, call>>
    <3>1. UNCHANGED <<used_map, poolLock, search, found, clearing, descLock, big, call>>
      BY <2>2, <2>4 DEF pallocVars
    <3>2. call[t] = NoCall /\ OutsidePalloc(t) /\ found[t] = Nothing
      BY <1>0, <2>2, InMalloc DEF Idling
    <3>3. CallTypes'
      BY <1>0, <3>1 DEF CallTypes
    <3>4. OnlyMoves(t)
      BY <2>2, <3>1 DEF OnlyMoves
    <3>5. Working(t)'
      BY <3>1, <3>2 DEF Working, OutsidePalloc, NoCall, Nothing
    <3> QED
      BY <1>0, <3>1, <3>3, <3>4, <3>5, OthersWork DEF Calls
  <2> QED
    BY <1>8, <2>3, <2>4 DEF FreeBlock
<1>9. ASSUME NEW t \in Allocator, NEW b \in big, FreeBig(t, b) PROVE CallTypes' /\ Calls'
  <2>1. Run(b.page, b.cnt) \in SUBSET Page /\ NoAllocator \in Desc \cup {NoAllocator}
    BY <1>0 DEF CallTypes, Result
  <2>2. big' \subseteq big
    BY <1>9 DEF FreeBig
  <2> QED
    BY <1>0, <1>9, <2>1, <2>2, FreeCalls DEF FreeBig
<1> QED
  BY <1>1, <1>2, <1>3, <1>4, <1>5, <1>6, <1>7, <1>8, <1>9 DEF MallocNext

-----------------------------------------------------------------------------
(* Blocks and arenas.                                                      *)
LEMMA BlocksFinite ==
  ASSUME NEW p, NEW gone
  PROVE  /\ IsFiniteSet(BlocksAt(p)) /\ Cardinality(BlocksAt(p)) = BlocksPerArena
         /\ IsFiniteSet(BlocksAt(p) \ gone) /\ Cardinality(BlocksAt(p) \ gone) \in Nat
<1>1. IsFiniteSet({p}) /\ Cardinality({p}) = 1
  BY FS_Singleton
<1>2. IsFiniteSet(1 .. BlocksPerArena) /\ Cardinality(1 .. BlocksPerArena) = BlocksPerArena
  BY MallocAssumption, FS_Interval
<1>3. IsFiniteSet(BlocksAt(p)) /\ Cardinality(BlocksAt(p)) = 1 * BlocksPerArena
  BY ONLY <1>1, <1>2, FS_Product, ZenonT(40) DEF BlocksAt
<1>4. BlocksAt(p) \ gone \in SUBSET BlocksAt(p)
  OBVIOUS
<1> QED
  BY ONLY <1>3, <1>4, FS_Subset, FS_CardinalityType, MallocAssumption

(* One block fewer.                                                        *)
LEMMA OneLess ==
  ASSUME NEW S, IsFiniteSet(S), NEW b \in S
  PROVE  Cardinality(S) \in Nat /\ Cardinality(S) > 0 /\ Cardinality(S \ {b}) = Cardinality(S) - 1
<1>1. Cardinality(S) \in Nat /\ Cardinality(S) # 0
  BY FS_EmptySet, FS_CardinalityType
<1>2. Cardinality(S \ {b}) = Cardinality(S) - 1
  BY FS_RemoveElement
<1> QED
  BY <1>1, <1>2

(* An arena's header is not empty. *)
LEMMA ArenaDesc ==
  ASSUME BlockTypes, NEW p \in Page
  PROVE  /\ p \in Arenas <=> arena[p].desc \in Desc
         /\ p \in Arenas => arena[p] \in [desc : Desc, free_cnt : Nat]
         /\ p \notin Arenas => arena[p].desc = NoAllocator
  BY MallocAssumption DEF BlockTypes, Arenas, NoArena

(* malloc() takes the first block of a list.                               *)
LEMMA PopBlocks ==
  ASSUME BlocksInv, NEW d \in Desc, free_list[d] # <<>>, PopBlock(d, free_list[d], arena)
  PROVE  BlocksInv' /\ Arenas' = Arenas
<1> USE MallocAssumption
<1>1. /\ BlockTypes /\ ListExact(d) /\ free_list[d] \in Seq(Block)
      /\ free_list \in [Desc -> Seq(Block)]
      /\ arena \in [Page -> {NoArena} \cup [desc : Desc, free_cnt : Nat]]
      /\ allocated \subseteq Block
  BY DEF BlocksInv, BlockTypes
<1>2. PICK b : b = Head(free_list[d])
  OBVIOUS
<1>3. /\ b \in Members(free_list[d])
      /\ Tail(free_list[d]) \in Seq(Block) /\ Once(Tail(free_list[d]))
      /\ Members(Tail(free_list[d])) = Members(free_list[d]) \ {b}
  BY <1>1, <1>2, FirstMember DEF ListExact
<1>4. b \in Block /\ arena[b[1]].desc = d /\ b \notin allocated
  BY <1>1, <1>3 DEF ListExact
<1>5. PICK p \in Page : p = b[1] /\ b \in BlocksAt(p)
  BY <1>4 DEF Block, BlocksAt
<1>6. p \in Arenas /\ arena[p] \in [desc : Desc, free_cnt : Nat] /\ arena[p].desc = d
  BY <1>1, <1>4, <1>5, ArenaDesc
<1>7. CountExact(p)
  BY DEF BlocksInv
<1>8. /\ free_list' = [free_list EXCEPT ![d] = Tail(free_list[d])]
      /\ arena' = [arena EXCEPT ![p] = [desc |-> d, free_cnt |-> arena[p].free_cnt - 1]]
      /\ allocated' = allocated \cup {b}
  <2>1. /\ free_list' = [free_list EXCEPT ![d] = Tail(free_list[d])]
        /\ arena' = [arena EXCEPT ![p].free_cnt = @ - 1] /\ allocated' = allocated \cup {b}
    BY <1>2, <1>5 DEF PopBlock
  <2>2. [arena[p] EXCEPT !.free_cnt = @ - 1] = [desc |-> d, free_cnt |-> arena[p].free_cnt - 1]
    BY <1>6
  <2> QED
    BY <1>1, <2>1, <2>2
<1>9. /\ Cardinality(BlocksAt(p) \ allocated) \in Nat \ {0}
      /\ Cardinality(BlocksAt(p) \ allocated') = Cardinality(BlocksAt(p) \ allocated) - 1
  <2>1. b \in BlocksAt(p) \ allocated /\ BlocksAt(p) \ allocated' = (BlocksAt(p) \ allocated) \ {b}
    BY <1>4, <1>5, <1>8
  <2>2. IsFiniteSet(BlocksAt(p) \ allocated)
    BY BlocksFinite
  <2>3. /\ Cardinality(BlocksAt(p) \ allocated) \in Nat
        /\ Cardinality(BlocksAt(p) \ allocated) > 0
        /\ Cardinality((BlocksAt(p) \ allocated) \ {b}) = Cardinality(BlocksAt(p) \ allocated) - 1
    BY ONLY <2>1, <2>2, OneLess
  <2>4. \A n : n \in Nat /\ n > 0 => n \in Nat \ {0}
    OBVIOUS
  <2> QED
    BY <2>1, <2>3, <2>4
<1>10. arena[p].free_cnt \in Nat \ {0} /\ arena[p].free_cnt < BlocksPerArena
       /\ arena[p].free_cnt = Cardinality(BlocksAt(p) \ allocated)
  BY <1>6, <1>7, <1>9 DEF CountExact
<1>11. BlockTypes'
  BY <1>1, <1>3, <1>4, <1>8, <1>10 DEF BlockTypes
<1>12. \A q \in Page : arena'[q].desc = arena[q].desc
  BY <1>1, <1>6, <1>8
<1>13. Arenas' = Arenas
  <2>1. \A q \in Page : (q \in Arenas)' <=> arena'[q].desc \in Desc
    BY <1>1, <1>8, <1>11 DEF Arenas, BlockTypes, NoArena
  <2>2. \A q \in Page : q \in Arenas <=> arena[q].desc \in Desc
    BY <1>1, ArenaDesc
  <2> QED
    BY <1>12, <2>1, <2>2 DEF Arenas
<1>14. ASSUME NEW q \in Page PROVE CountExact(q)'
  <2>1. CASE q = p
    BY <1>1, <1>8, <1>9, <1>10, <2>1 DEF CountExact, BlocksAt
  <2>2. CASE q # p
    <3>1. arena'[q] = arena[q]
      BY <1>1, <1>8, <2>2
    <3>2. BlocksAt(q) \ allocated' = BlocksAt(q) \ allocated
      BY <1>5, <1>8, <2>2 DEF BlocksAt
    <3>3. CountExact(q)
      BY DEF BlocksInv
    <3>4. (q \in Arenas)' <=> q \in Arenas
      BY <1>13
    <3> QED
      BY <3>1, <3>2, <3>3, <3>4 DEF CountExact, BlocksAt
  <2> QED
    BY <2>1, <2>2
<1>15. ASSUME NEW e \in Desc PROVE ListExact(e)'
  <2>1. ListExact(e)
    BY DEF BlocksInv
  <2>2. \A x \in Block : arena'[x[1]].desc = arena[x[1]].desc
    BY <1>12 DEF Block
  <2>3. CASE e = d
    <3>1. free_list'[e] = Tail(free_list[d])
      BY <1>1, <1>8, <2>3
    <3> QED
      BY <1>3, <1>8, <2>1, <2>2, <2>3, <3>1 DEF ListExact
  <2>4. CASE e # d
    <3>1. free_list'[e] = free_list[e]
      BY <1>1, <1>8, <2>4
    <3>2. {x \in Block : arena[x[1]].desc = e} \ allocated = {x \in Block : arena'[x[1]].desc = e} \ allocated'
      BY <1>4, <1>8, <2>2, <2>4
    <3> QED
      BY <2>1, <3>1, <3>2 DEF ListExact
  <2> QED
    BY <2>3, <2>4
<1>16. \A x \in allocated' : (x[1] \in Arenas)'
  <2>1. \A x \in allocated : x[1] \in Arenas
    BY DEF BlocksInv
  <2> QED
    BY <1>5, <1>6, <1>8, <1>13, <2>1
<1> QED
  BY <1>11, <1>13, <1>14, <1>15, <1>16 DEF BlocksInv

(* The blocks of a page that has just become an arena.                     *)
LEMMA NewBlocks ==
  ASSUME NEW p \in Page
  PROVE  /\ <<>> \o BlocksIn(p) = BlocksIn(p) /\ BlocksIn(p) \in Seq(Block)
         /\ BlocksIn(p) # <<>> /\ Head(BlocksIn(p)) = <<p, 1>>
         /\ Once(BlocksIn(p)) /\ Members(BlocksIn(p)) = BlocksAt(p)
<1> USE MallocAssumption
<1>1. \A k \in 1 .. BlocksPerArena : <<p, k>> \in Block
  BY DEF Block
<1>2. /\ BlocksIn(p) \in Seq(Block) /\ Len(BlocksIn(p)) = BlocksPerArena
      /\ \A k \in 1 .. BlocksPerArena : BlocksIn(p)[k] = <<p, k>>
  BY <1>1 DEF BlocksIn
<1>3. Once(BlocksIn(p))
  BY <1>2 DEF Once
<1>4. Members(BlocksIn(p)) = BlocksAt(p)
  <2>1. Members(BlocksIn(p)) = {<<p, k>> : k \in 1 .. BlocksPerArena}
    BY <1>2 DEF Members
  <2>2. BlocksAt(p) = {<<p, k>> : k \in 1 .. BlocksPerArena}
    BY DEF BlocksAt
  <2> QED
    BY <2>1, <2>2
<1> QED
  BY <1>2, <1>3, <1>4

LEMMA NewArenaBlocks ==
  ASSUME BlocksInv, NEW d \in Desc, free_list[d] = <<>>, NEW p \in Page, p \notin Arenas,
         PopBlock(d, free_list[d] \o BlocksIn(p),
                  [arena EXCEPT ![p] = [desc |-> d, free_cnt |-> BlocksPerArena]])
  PROVE  BlocksInv' /\ Arenas' = Arenas \cup {p}
<1> USE MallocAssumption
<1>1. /\ BlockTypes /\ ListExact(d)
      /\ free_list \in [Desc -> Seq(Block)]
      /\ arena \in [Page -> {NoArena} \cup [desc : Desc, free_cnt : Nat]]
      /\ allocated \subseteq Block
  BY DEF BlocksInv, BlockTypes
<1>2. PICK L \in Seq(Block) :
         /\ L = BlocksIn(p) /\ free_list[d] \o BlocksIn(p) = L /\ L # <<>> /\ Head(L) = <<p, 1>>
         /\ Once(L) /\ Members(L) = BlocksAt(p)
  BY NewBlocks
<1>3. PICK b \in Block : b = <<p, 1>> /\ b \in BlocksAt(p)
  <2>1. 1 \in 1 .. BlocksPerArena
    OBVIOUS
  <2>2. <<p, 1>> \in Block /\ <<p, 1>> \in BlocksAt(p)
    BY <2>1 DEF Block, BlocksAt
  <2> QED
    BY <2>2
<1>4. /\ Tail(L) \in Seq(Block) /\ Once(Tail(L)) /\ Members(Tail(L)) = BlocksAt(p) \ {b}
  BY <1>2, <1>3, FirstMember
<1>5. /\ free_list' = [free_list EXCEPT ![d] = Tail(L)]
      /\ arena' \in [Page -> {NoArena} \cup [desc : Desc, free_cnt : Nat]]
      /\ arena'[p] = [desc |-> d, free_cnt |-> BlocksPerArena - 1]
      /\ \A q \in Page \ {p} : arena'[q] = arena[q]
      /\ allocated' = allocated \cup {b}
  <2> DEFINE fresh == [desc |-> d, free_cnt |-> BlocksPerArena]
             mid   == [arena EXCEPT ![p] = fresh]
  <2>1. /\ free_list' = [free_list EXCEPT ![d] = Tail(L)] /\ allocated' = allocated \cup {b}
        /\ arena' = [mid EXCEPT ![p].free_cnt = @ - 1]
    <3>1. PopBlock(d, L, mid)
      BY <1>2
    <3>2. Head(L) = b /\ b[1] = p
      BY <1>2, <1>3
    <3> HIDE DEF mid
    <3> QED
      BY <3>1, <3>2 DEF PopBlock
  <2>2. [fresh EXCEPT !.free_cnt = @ - 1] = [desc |-> d, free_cnt |-> BlocksPerArena - 1]
    OBVIOUS
  <2>3. mid[p] = fresh /\ mid \in [Page -> {NoArena} \cup [desc : Desc, free_cnt : Nat]]
        /\ \A q \in Page \ {p} : mid[q] = arena[q]
    BY <1>1
  <2> HIDE DEF mid, fresh
  <2>4. arena' = [mid EXCEPT ![p] = [desc |-> d, free_cnt |-> BlocksPerArena - 1]]
    BY <2>1, <2>2, <2>3
  <2>5. BlocksPerArena - 1 \in Nat
    OBVIOUS
  <2>6. /\ arena' \in [Page -> {NoArena} \cup [desc : Desc, free_cnt : Nat]]
        /\ arena'[p] = [desc |-> d, free_cnt |-> BlocksPerArena - 1]
        /\ \A q \in Page \ {p} : arena'[q] = mid[q]
    BY <2>3, <2>4, <2>5
  <2> QED
    BY <2>1, <2>3, <2>6
<1>6. \A x \in allocated : x \notin BlocksAt(p) /\ x[1] # p
  BY DEF BlocksInv, BlocksAt
<1>7. BlockTypes'
  BY <1>1, <1>4, <1>5 DEF BlockTypes
<1>8. /\ arena'[p] = [desc |-> d, free_cnt |-> BlocksPerArena - 1]
      /\ \A q \in Page \ {p} : arena'[q] = arena[q]
  BY <1>5
<1>9. Arenas' = Arenas \cup {p}
  BY <1>8 DEF Arenas, NoArena
<1>10. ASSUME NEW q \in Page PROVE CountExact(q)'
  <2>1. CASE q = p
    <3>1. BlocksAt(p) \ allocated' = BlocksAt(p) \ {b}
      BY <1>5, <1>6
    <3>2. Cardinality(BlocksAt(p) \ {b}) = BlocksPerArena - 1
      BY <1>3, BlocksFinite, OneLess
    <3>3. Cardinality(BlocksAt(q) \ allocated') = BlocksPerArena - 1
      BY <2>1, <3>1, <3>2
    <3>4. arena'[q].free_cnt = BlocksPerArena - 1 /\ BlocksPerArena - 1 < BlocksPerArena
      BY <1>8, <2>1
    <3> QED
      BY <3>3, <3>4 DEF CountExact, BlocksAt
  <2>2. CASE q # p
    <3>1. BlocksAt(q) \ allocated' = BlocksAt(q) \ allocated
      BY <1>3, <1>5, <2>2 DEF BlocksAt
    <3>2. CountExact(q)
      BY DEF BlocksInv
    <3> QED
      BY <1>8, <1>9, <2>2, <3>1, <3>2 DEF CountExact, BlocksAt
  <2> QED
    BY <2>1, <2>2
<1>11. ASSUME NEW e \in Desc PROVE ListExact(e)'
  <2>1. ListExact(e)
    BY DEF BlocksInv
  <2>2. \A x \in Block : x[1] \in Page /\ (x[1] = p <=> x \in BlocksAt(p))
    BY DEF Block, BlocksAt
  <2>3. arena[p].desc # e /\ arena'[p].desc = d
    BY <1>1, <1>8, ArenaDesc
  <2>4. CASE e = d
    <3>1. Members(free_list[d]) = {}
      BY DEF Members
    <3>2. {x \in Block : arena[x[1]].desc = d} \ allocated = {}
      BY <1>1, <3>1 DEF ListExact
    <3>3. {x \in Block : arena'[x[1]].desc = d} \ allocated' = BlocksAt(p) \ {b}
      <4>1. \A x \in Block : x \notin BlocksAt(p) => arena'[x[1]].desc = arena[x[1]].desc
        BY <1>8, <2>2
      <4>2. \A x \in Block : x \in BlocksAt(p) => arena'[x[1]].desc = d /\ x \notin allocated
        BY <1>6, <2>2, <2>3
      <4>3. BlocksAt(p) \subseteq Block
        BY DEF BlocksAt, Block
      <4> QED
        BY <1>5, <3>2, <4>1, <4>2, <4>3
    <3>4. free_list'[e] = Tail(L)
      BY <1>1, <1>5, <2>4
    <3> QED
      BY <1>4, <2>4, <3>3, <3>4 DEF ListExact
  <2>5. CASE e # d
    <3>1. free_list'[e] = free_list[e]
      BY <1>1, <1>5, <2>5
    <3>2. \A x \in Block : /\ arena'[x[1]].desc = e <=> arena[x[1]].desc = e
                           /\ arena'[x[1]].desc = e => (x \in allocated' <=> x \in allocated)
      BY <1>3, <1>5, <1>8, <2>2, <2>3, <2>5
    <3>3. {x \in Block : arena[x[1]].desc = e} \ allocated = {x \in Block : arena'[x[1]].desc = e} \ allocated'
      BY <3>2
    <3> QED
      BY <2>1, <3>1, <3>3 DEF ListExact
  <2> QED
    BY <2>4, <2>5
<1>12. \A x \in allocated' : (x[1] \in Arenas)'
  <2>1. \A x \in allocated : x[1] \in Arenas
    BY DEF BlocksInv
  <2> QED
    BY <1>3, <1>5, <1>9, <2>1
<1> QED
  BY <1>7, <1>9, <1>10, <1>11, <1>12 DEF BlocksInv

(* What free() finds of a block.                                           *)
LEMMA InUse ==
  ASSUME BlocksInv, NEW b \in allocated
  PROVE  /\ b \in Block /\ b[1] \in Page /\ b \in BlocksAt(b[1]) /\ b[1] \in Arenas
         /\ arena[b[1]] \in [desc : Desc, free_cnt : Nat]
         /\ b \notin Members(free_list[arena[b[1]].desc])
<1>1. BlockTypes /\ b \in Block /\ b[1] \in Arenas
  BY DEF BlocksInv, BlockTypes
<1>2. b[1] \in Page /\ b \in BlocksAt(b[1])
  BY <1>1 DEF Block, BlocksAt
<1>3. arena[b[1]] \in [desc : Desc, free_cnt : Nat]
  BY <1>1, <1>2, ArenaDesc
<1>4. ListExact(arena[b[1]].desc)
  BY <1>3 DEF BlocksInv
<1> QED
  BY <1>1, <1>2, <1>3, <1>4 DEF ListExact

(* A block comes back, and its arena stays. *)
LEMMA PushBlocks ==
  ASSUME BlocksInv, NEW b \in allocated, NEW p \in Page, p = b[1], NEW d \in Desc, d = arena[p].desc,
         arena[p].free_cnt + 1 < BlocksPerArena, allocated' = allocated \ {b},
         free_list' = [free_list EXCEPT ![d] = <<b>> \o free_list[d]],
         arena' = [arena EXCEPT ![p].free_cnt = @ + 1]
  PROVE  BlocksInv' /\ Arenas' = Arenas
<1> USE MallocAssumption
<1>1. /\ BlockTypes /\ ListExact(d) /\ CountExact(p)
      /\ free_list \in [Desc -> Seq(Block)]
      /\ arena \in [Page -> {NoArena} \cup [desc : Desc, free_cnt : Nat]]
      /\ allocated \subseteq Block
  BY DEF BlocksInv, BlockTypes
<1>2. /\ b \in Block /\ b \in BlocksAt(p) /\ p \in Arenas
      /\ arena[p] \in [desc : Desc, free_cnt : Nat] /\ b \notin Members(free_list[d])
  BY InUse
<1>3. /\ <<b>> \o free_list[d] \in Seq(Block) /\ Once(<<b>> \o free_list[d])
      /\ Members(<<b>> \o free_list[d]) = Members(free_list[d]) \cup {b}
  BY <1>1, <1>2, PushFront DEF ListExact
<1>4. /\ arena'[p] = [desc |-> d, free_cnt |-> arena[p].free_cnt + 1]
      /\ \A q \in Page \ {p} : arena'[q] = arena[q]
      /\ arena' \in [Page -> {NoArena} \cup [desc : Desc, free_cnt : Nat]]
  <2>1. [arena[p] EXCEPT !.free_cnt = @ + 1] = [desc |-> d, free_cnt |-> arena[p].free_cnt + 1]
    BY <1>2
  <2>2. arena' = [arena EXCEPT ![p] = [desc |-> d, free_cnt |-> arena[p].free_cnt + 1]]
    BY <1>1, <2>1
  <2>3. arena[p].free_cnt + 1 \in Nat
    BY <1>2
  <2> QED
    BY <1>1, <2>2, <2>3, SMTT(30)
<1>5. BlockTypes'
  BY <1>1, <1>3, <1>4 DEF BlockTypes
<1>6. Arenas' = Arenas
  BY <1>2, <1>4 DEF Arenas, NoArena
<1>7. ASSUME NEW q \in Page PROVE CountExact(q)'
  <2>1. CASE q = p
    <3>1. b \in BlocksAt(p) \ allocated' /\ BlocksAt(p) \ allocated = (BlocksAt(p) \ allocated') \ {b}
      BY <1>2
    <3>2. IsFiniteSet(BlocksAt(p) \ allocated')
      BY BlocksFinite
    <3>3. /\ Cardinality(BlocksAt(p) \ allocated') \in Nat
          /\ Cardinality(BlocksAt(p) \ allocated) = Cardinality(BlocksAt(p) \ allocated') - 1
      BY ONLY <3>1, <3>2, OneLess
    <3>4. arena[p].free_cnt \in Nat /\ arena[p].free_cnt = Cardinality(BlocksAt(p) \ allocated)
      BY <1>1, <1>2 DEF CountExact
    <3>5. Cardinality(BlocksAt(p) \ allocated') = arena[p].free_cnt + 1
      BY <3>3, <3>4
    <3> QED
      BY <1>4, <2>1, <3>5 DEF CountExact, BlocksAt
  <2>2. CASE q # p
    <3>1. BlocksAt(q) \ allocated' = BlocksAt(q) \ allocated
      BY <1>2, <2>2 DEF BlocksAt
    <3>2. CountExact(q)
      BY DEF BlocksInv
    <3> QED
      BY <1>4, <1>6, <2>2, <3>1, <3>2 DEF CountExact, BlocksAt
  <2> QED
    BY <2>1, <2>2
<1>8. ASSUME NEW e \in Desc PROVE ListExact(e)'
  <2>1. ListExact(e)
    BY DEF BlocksInv
  <2>2. \A x \in Block : arena'[x[1]].desc = arena[x[1]].desc
    BY <1>4 DEF Block
  <2>3. CASE e = d
    <3>1. free_list'[e] = <<b>> \o free_list[d]
      BY <1>1, <2>3
    <3>2. {x \in Block : arena'[x[1]].desc = e} \ allocated'
            = ({x \in Block : arena[x[1]].desc = e} \ allocated) \cup {b}
      BY <1>2, <2>2, <2>3
    <3> QED
      BY <1>3, <2>1, <2>3, <3>1, <3>2 DEF ListExact
  <2>4. CASE e # d
    <3>1. free_list'[e] = free_list[e]
      BY <1>1, <2>4
    <3>2. {x \in Block : arena[x[1]].desc = e} \ allocated = {x \in Block : arena'[x[1]].desc = e} \ allocated'
      BY <2>2, <2>4
    <3> QED
      BY <2>1, <3>1, <3>2 DEF ListExact
  <2> QED
    BY <2>3, <2>4
<1>9. \A x \in allocated' : (x[1] \in Arenas)'
  <2>1. \A x \in allocated : x[1] \in Arenas
    BY DEF BlocksInv
  <2> QED
    BY <1>6, <2>1
<1> QED
  BY <1>5, <1>6, <1>7, <1>8, <1>9 DEF BlocksInv

(* The last block in use of an arena comes back, and the arena goes: the   *)
(* count says that no other block of the page is in use.                   *)
LEMMA ReleaseBlocks ==
  ASSUME BlocksInv, NEW b \in allocated, NEW p \in Page, p = b[1], NEW d \in Desc, d = arena[p].desc,
         ~(arena[p].free_cnt + 1 < BlocksPerArena), allocated' = allocated \ {b},
         free_list' = [free_list EXCEPT ![d] =
                         Without(<<b>> \o free_list[d], {p} \X (1 .. BlocksPerArena))],
         arena' = [arena EXCEPT ![p] = NoArena]
  PROVE  BlocksInv' /\ Arenas' = Arenas \ {p}
<1> USE MallocAssumption
<1>1. /\ BlockTypes /\ ListExact(d) /\ CountExact(p)
      /\ free_list \in [Desc -> Seq(Block)]
      /\ arena \in [Page -> {NoArena} \cup [desc : Desc, free_cnt : Nat]]
      /\ allocated \subseteq Block
  BY DEF BlocksInv, BlockTypes
<1>2. /\ b \in Block /\ b \in BlocksAt(p) /\ p \in Arenas
      /\ arena[p] \in [desc : Desc, free_cnt : Nat] /\ b \notin Members(free_list[d])
  BY InUse
<1>3. \A x \in allocated : x \in BlocksAt(p) => x = b
  <2>1. arena[p].free_cnt \in Nat /\ arena[p].free_cnt < BlocksPerArena
        /\ arena[p].free_cnt = Cardinality(BlocksAt(p) \ allocated)
    BY <1>1, <1>2 DEF CountExact
  <2>2. Cardinality(BlocksAt(p) \ allocated) = BlocksPerArena - 1
    BY <2>1
  <2>3. /\ IsFiniteSet(BlocksAt(p)) /\ IsFiniteSet(BlocksAt(p) \ {b})
        /\ Cardinality(BlocksAt(p)) = BlocksPerArena
    BY BlocksFinite
  <2>4. Cardinality(BlocksAt(p) \ {b}) = BlocksPerArena - 1
    BY ONLY <1>2, <2>3, OneLess
  <2>5. BlocksAt(p) \ allocated \in SUBSET (BlocksAt(p) \ {b})
    OBVIOUS
  <2>6. BlocksAt(p) \ {b} = BlocksAt(p) \ allocated
    BY ONLY <2>2, <2>3, <2>4, <2>5, FS_Subset
  <2> QED
    BY <2>6
<1>4. PICK L \in Seq(Block) :
         /\ L = Without(<<b>> \o free_list[d], BlocksAt(p))
         /\ Once(L) /\ Members(L) = Members(free_list[d]) \ BlocksAt(p)
  <2>1. /\ <<b>> \o free_list[d] \in Seq(Block) /\ Once(<<b>> \o free_list[d])
        /\ Members(<<b>> \o free_list[d]) = Members(free_list[d]) \cup {b}
    BY <1>1, <1>2, PushFront DEF ListExact
  <2>2. /\ Without(<<b>> \o free_list[d], BlocksAt(p)) \in Seq(Block)
        /\ Once(Without(<<b>> \o free_list[d], BlocksAt(p)))
        /\ Members(Without(<<b>> \o free_list[d], BlocksAt(p)))
             = (Members(free_list[d]) \cup {b}) \ BlocksAt(p)
    <3>1. PICK list \in Seq(Block) : list = <<b>> \o free_list[d] /\ Once(list)
      BY <2>1
    <3>2. /\ Without(list, BlocksAt(p)) \in Seq(Block) /\ Once(Without(list, BlocksAt(p)))
          /\ Members(Without(list, BlocksAt(p))) = Members(list) \ BlocksAt(p)
      BY ONLY list \in Seq(Block), <3>1, WithoutMembers
    <3> QED
      BY <2>1, <3>1, <3>2
  <2> QED
    BY <1>2, <2>2
<1>5. free_list' = [free_list EXCEPT ![d] = L]
  BY <1>4 DEF BlocksAt
<1>6. /\ arena'[p] = NoArena /\ \A q \in Page \ {p} : arena'[q] = arena[q]
      /\ arena' \in [Page -> {NoArena} \cup [desc : Desc, free_cnt : Nat]]
  BY <1>1
<1>7. BlockTypes'
  BY <1>1, <1>5, <1>6 DEF BlockTypes
<1>8. Arenas' = Arenas \ {p}
  BY <1>6 DEF Arenas, NoArena
<1>9. ASSUME NEW q \in Page PROVE CountExact(q)'
  <2>1. CASE q = p
    BY <1>8, <2>1 DEF CountExact
  <2>2. CASE q # p
    <3>1. BlocksAt(q) \ allocated' = BlocksAt(q) \ allocated
      BY <1>2, <2>2 DEF BlocksAt
    <3>2. CountExact(q)
      BY DEF BlocksInv
    <3> QED
      BY <1>6, <1>8, <2>2, <3>1, <3>2 DEF CountExact, BlocksAt
  <2> QED
    BY <2>1, <2>2
<1>10. ASSUME NEW e \in Desc PROVE ListExact(e)'
  <2>1. ListExact(e)
    BY DEF BlocksInv
  <2>2. \A x \in Block : x[1] \in Page /\ (x[1] = p <=> x \in BlocksAt(p))
    BY DEF Block, BlocksAt
  <2>3. arena'[p].desc # e
    BY <1>6 DEF NoArena
  <2>4. {x \in Block : arena'[x[1]].desc = e} \ allocated'
          = ({x \in Block : arena[x[1]].desc = e} \ allocated) \ BlocksAt(p)
    <3>1. \A x \in Block : x \notin BlocksAt(p) => arena'[x[1]].desc = arena[x[1]].desc
      BY <1>6, <2>2
    <3>2. \A x \in Block : x \in BlocksAt(p) => arena'[x[1]].desc # e
      BY <2>2, <2>3
    <3> QED
      BY <1>2, <3>1, <3>2
  <2>5. CASE e = d
    BY <1>1, <1>4, <1>5, <2>1, <2>4, <2>5 DEF ListExact
  <2>6. CASE e # d
    <3>1. free_list'[e] = free_list[e]
      BY <1>1, <1>5, <2>6
    <3>2. \A x \in Block : arena[x[1]].desc = e => x \notin BlocksAt(p)
      BY <2>2, <2>6
    <3> QED
      BY <2>1, <2>4, <3>1, <3>2 DEF ListExact
  <2> QED
    BY <2>5, <2>6
<1>11. \A x \in allocated' : (x[1] \in Arenas)'
  <2>1. \A x \in allocated : x[1] \in Arenas /\ x \in Block
    BY DEF BlocksInv, BlockTypes
  <2>2. \A x \in Block : x[1] = p => x \in BlocksAt(p)
    BY DEF Block, BlocksAt
  <2> QED
    BY <1>3, <1>8, <2>1, <2>2
<1> QED
  BY <1>7, <1>8, <1>9, <1>10, <1>11 DEF BlocksInv

-----------------------------------------------------------------------------
(* Pages and their owners.                                                 *)
Holds(o, p) ==
  \/ o = <<"arena", p>> /\ p \in Arenas
  \/ \E b \in big : o = <<"big", b>> /\ p \in Run(b.page, b.cnt)
  \/ \E t \in Allocator : /\ o = <<"found", t>> /\ found[t] # Nothing
                          /\ p \in Run(found[t].page, found[t].cnt)
  \/ \E t \in Allocator : o = <<"clearing", t>> /\ p \in clearing[t]

LEMMA OwnersHold ==
  ASSUME NEW p
  PROVE  \A o : o \in Owners(p) <=> Holds(o, p)
  BY DEF Owners, Holds

LEMMA OwnersHoldNext ==
  ASSUME NEW p
  PROVE  \A o : (o \in Owners(p))' <=> Holds(o, p)'
  BY DEF Owners, Holds, Arenas, Run, Nothing, NoArena

(* What a step does to the owner of p. *)
Keeps(p) ==
  /\ \A o : Holds(o, p)' <=> Holds(o, p)
  /\ p \in used_map' <=> p \in used_map

Gains(p, x) ==
  /\ \A o : Holds(o, p)' <=> Holds(o, p) \/ o = x
  /\ p \in used_map' \ used_map

Loses(p, x) ==
  /\ Holds(x, p) /\ \A o : Holds(o, p)' <=> Holds(o, p) /\ o # x
  /\ p \notin used_map'

HandsOn(p, x, y) ==
  /\ Holds(x, p) /\ \A o : Holds(o, p)' <=> (Holds(o, p) /\ o # x) \/ o = y
  /\ p \in used_map' <=> p \in used_map

Changes(p) ==
  \/ Keeps(p)
  \/ \E x : Gains(p, x) \/ Loses(p, x) \/ \E y : HandsOn(p, x, y)

LEMMA OwnerStep ==
  ASSUME NEW p, OneOwner(p), Changes(p)
  PROVE  OneOwner(p)'
<1>1. \A o : o \in Owners(p) <=> Holds(o, p)
  BY OwnersHold
<1>2. \A o : (o \in Owners(p))' <=> Holds(o, p)'
  BY OwnersHoldNext
<1>3. IF p \in used_map THEN \E o : \A a : Holds(a, p) <=> a = o ELSE \A a : ~Holds(a, p)
  BY <1>1 DEF OneOwner
<1>4. IF p \in used_map' THEN \E o : \A a : Holds(a, p)' <=> a = o ELSE \A a : ~Holds(a, p)'
  <2>1. CASE Keeps(p)
    BY <1>3, <2>1 DEF Keeps
  <2>2. ASSUME NEW x, Gains(p, x) PROVE \A a : Holds(a, p)' <=> a = x
    BY <1>3, <2>2 DEF Gains
  <2>3. ASSUME NEW x, Loses(p, x) PROVE \A a : ~Holds(a, p)'
    <3>1. p \in used_map
      BY <1>3, <2>3 DEF Loses
    <3> QED
      BY <1>3, <2>3, <3>1 DEF Loses
  <2>4. ASSUME NEW x, NEW y, HandsOn(p, x, y) PROVE p \in used_map /\ \A a : Holds(a, p)' <=> a = y
    <3>1. p \in used_map
      BY <1>3, <2>4 DEF HandsOn
    <3>2. \A a : Holds(a, p) <=> a = x
      BY <1>3, <2>4, <3>1 DEF HandsOn
    <3> QED
      BY <2>4, <3>1, <3>2 DEF HandsOn
  <2>5. CASE \E x : Gains(p, x)
    <3>1. p \in used_map'
      BY <2>5 DEF Gains
    <3> QED
      BY <2>2, <2>5, <3>1
  <2>6. CASE \E x : Loses(p, x)
    <3>1. p \notin used_map'
      BY <2>6 DEF Loses
    <3> QED
      BY <2>3, <2>6, <3>1
  <2>7. CASE \E x : \E y : HandsOn(p, x, y)
    <3>1. PICK x, y : HandsOn(p, x, y)
      BY <2>7
    <3>2. p \in used_map' <=> p \in used_map
      BY <3>1 DEF HandsOn
    <3> QED
      BY <2>4, <3>1, <3>2
  <2> QED
    BY <2>1, <2>5, <2>6, <2>7 DEF Changes
<1>5. CASE p \in used_map'
  <2>1. PICK o : \A a : Holds(a, p)' <=> a = o
    BY <1>4, <1>5
  <2>2. Owners(p)' = {o}
    BY <1>2, <2>1
  <2> QED
    BY <1>5, <2>2 DEF OneOwner
<1>6. CASE p \notin used_map'
  <2>1. Owners(p)' = {}
    BY <1>2, <1>4, <1>6
  <2> QED
    BY <1>6, <2>1 DEF OneOwner
<1> QED
  BY <1>5, <1>6

(* Nothing changes hands. *)
LEMMA NoMove ==
  ASSUME Arenas' = Arenas, UNCHANGED <<used_map, big, found, clearing>>, NEW p
  PROVE  Keeps(p)
  BY DEF Keeps, Holds, Run, Nothing

LEMMA TakeMoves ==
  ASSUME CallTypes, Calls, NEW t \in Allocator, TakePages(t), UNCHANGED arenaVars, NEW p \in Page
  PROVE  Keeps(p) \/ (OneOwner(p) => Gains(p, <<"found", t>>))
<1> DEFINE s == search[t]
<1>1. /\ Run(s.at, s.cnt) \subseteq Page \ used_map
      /\ used_map' = used_map \cup Run(s.at, s.cnt)
      /\ found' = [found EXCEPT ![t] = [cnt |-> s.cnt, page |-> s.at]]
      /\ UNCHANGED <<clearing, big, arena>> /\ poolLock = t /\ s.at \in Nat
  BY DEF TakePages, EndSearch, arenaVars, CallTypes
<1>2. found[t] = Nothing
  <2>1. t # NoAllocator
    BY PallocAssumption
  <2>2. search[t] # NoSearch /\ Working(t)
    BY <1>1, <2>1 DEF Calls
  <2> QED
    BY <2>2 DEF Working, OutsidePalloc, Getting, Freeing
<1>3. /\ found'[t] # Nothing /\ found'[t].page = s.at /\ found'[t].cnt = s.cnt
      /\ \A u \in Allocator \ {t} : found'[u] = found[u]
  BY <1>1, PallocAssumption DEF CallTypes, Nothing
<1>4. Arenas' = Arenas
  BY <1>1 DEF Arenas
<1> HIDE DEF s
<1>5. \A o : Holds(o, p)' <=> Holds(o, p) \/ (o = <<"found", t>> /\ p \in Run(s.at, s.cnt))
  BY <1>1, <1>2, <1>3, <1>4 DEF Holds, Run, Nothing
<1> QED
  BY <1>1, <1>5 DEF Keeps, Gains

LEMMA ClearMoves ==
  ASSUME CallTypes, NEW t \in Allocator, ClearBit(t), UNCHANGED arenaVars, NEW p \in Page
  PROVE  Keeps(p) \/ Loses(p, <<"clearing", t>>)
<1>1. PICK q \in clearing[t] : used_map' = used_map \ {q} /\ clearing' = [clearing EXCEPT ![t] = @ \ {q}]
  BY DEF ClearBit
<1>2. UNCHANGED <<found, big, arena>>
  BY DEF ClearBit, arenaVars
<1>3. clearing'[t] = clearing[t] \ {q} /\ \A u \in Allocator \ {t} : clearing'[u] = clearing[u]
  BY <1>1 DEF CallTypes
<1>4. Arenas' = Arenas
  BY <1>2 DEF Arenas
<1>5. \A o : Holds(o, p)' <=> Holds(o, p) /\ ~(o = <<"clearing", t>> /\ p = q)
  BY <1>2, <1>3, <1>4 DEF Holds, Run, Nothing
<1>6. p = q => Holds(<<"clearing", t>>, p)
  BY <1>1 DEF Holds
<1> QED
  BY <1>1, <1>5, <1>6 DEF Keeps, Loses

(* The page of a new arena. *)
LEMMA ArenaMoves ==
  ASSUME CallTypes, NEW t \in Allocator, found[t] # Nothing, Result(found[t], {1}),
         found' = [found EXCEPT ![t] = Nothing], Arenas' = Arenas \cup {found[t].page},
         UNCHANGED <<used_map, clearing, big>>, NEW p \in Page
  PROVE  Keeps(p) \/ HandsOn(p, <<"found", t>>, <<"arena", p>>)
<1>1. Run(found[t].page, found[t].cnt) = {found[t].page}
  BY DEF Result, Run, Page
<1>2. found'[t] = Nothing /\ \A u \in Allocator \ {t} : found'[u] = found[u]
  BY DEF CallTypes
<1> DEFINE hit == p \in Run(found[t].page, found[t].cnt)
<1>3. p \in Arenas' <=> p \in Arenas \/ hit
  BY <1>1
<1>4. \A o : Holds(o, p)' <=> \/ Holds(o, p) /\ ~(o = <<"found", t>> /\ hit)
                              \/ o = <<"arena", p>> /\ hit
  BY ONLY t \in Allocator, found[t] # Nothing, <1>2, <1>3, UNCHANGED <<clearing, big>> DEF Holds, Run, Nothing
<1>5. hit => Holds(<<"found", t>>, p)
  BY DEF Holds
<1> HIDE DEF hit
<1> QED
  BY <1>4, <1>5 DEF Keeps, HandsOn

LEMMA BigMoves ==
  ASSUME CallTypes, NEW t \in Allocator, found[t] # Nothing,
         found' = [found EXCEPT ![t] = Nothing], big' = big \cup {found[t]}, Arenas' = Arenas,
         UNCHANGED <<used_map, clearing>>, NEW p \in Page
  PROVE  Keeps(p) \/ HandsOn(p, <<"found", t>>, <<"big", found[t]>>)
<1>1. found'[t] = Nothing /\ \A u \in Allocator \ {t} : found'[u] = found[u]
  BY DEF CallTypes
<1> DEFINE hit == p \in Run(found[t].page, found[t].cnt)
<1>2. \A o : Holds(o, p)' <=> \/ Holds(o, p) /\ ~(o = <<"found", t>> /\ hit)
                              \/ o = <<"big", found[t]>> /\ hit
  BY <1>1 DEF Holds, Run, Nothing
<1>3. hit => Holds(<<"found", t>>, p)
  BY DEF Holds
<1> HIDE DEF hit
<1> QED
  BY <1>2, <1>3 DEF Keeps, HandsOn

LEMMA FreeBigMoves ==
  ASSUME CallTypes, NEW t \in Allocator, NEW b \in big, clearing[t] = {},
         clearing' = [clearing EXCEPT ![t] = Run(b.page, b.cnt)], big' = big \ {b},
         Arenas' = Arenas, UNCHANGED <<used_map, found>>, NEW p \in Page
  PROVE  Keeps(p) \/ HandsOn(p, <<"big", b>>, <<"clearing", t>>)
<1>1. clearing'[t] = Run(b.page, b.cnt) /\ \A u \in Allocator \ {t} : clearing'[u] = clearing[u]
  BY DEF CallTypes
<1> DEFINE hit == p \in Run(b.page, b.cnt)
<1>2. \A o : Holds(o, p)' <=> \/ Holds(o, p) /\ ~(o = <<"big", b>> /\ hit)
                              \/ o = <<"clearing", t>> /\ hit
  <2> SUFFICES ASSUME NEW o
               PROVE  Holds(o, p)' <=> \/ Holds(o, p) /\ ~(o = <<"big", b>> /\ hit)
                                       \/ o = <<"clearing", t>> /\ hit
    OBVIOUS
  <2>1. (\E c \in big' : o = <<"big", c>> /\ p \in Run(c.page, c.cnt))
          <=> /\ \E c \in big : o = <<"big", c>> /\ p \in Run(c.page, c.cnt)
              /\ ~(o = <<"big", b>> /\ hit)
    OBVIOUS
  <2>2. (\E u \in Allocator : o = <<"clearing", u>> /\ p \in clearing'[u])
          <=> \/ \E u \in Allocator : o = <<"clearing", u>> /\ p \in clearing[u]
              \/ o = <<"clearing", t>> /\ hit
    BY <1>1
  <2>3. o = <<"big", b>> => /\ o # <<"arena", p>>
                            /\ \A u : o # <<"found", u>> /\ o # <<"clearing", u>>
    OBVIOUS
  <2> HIDE DEF hit
  <2>4. Holds(o, p)' <=> \/ o = <<"arena", p>> /\ p \in Arenas
                         \/ \E c \in big' : o = <<"big", c>> /\ p \in Run(c.page, c.cnt)
                         \/ \E u \in Allocator : /\ o = <<"found", u>> /\ found[u] # Nothing
                                                 /\ p \in Run(found[u].page, found[u].cnt)
                         \/ \E u \in Allocator : o = <<"clearing", u>> /\ p \in clearing'[u]
    BY DEF Holds, Run, Nothing
  <2> QED
    BY ONLY <2>1, <2>2, <2>3, <2>4 DEF Holds
<1>3. hit => Holds(<<"big", b>>, p)
  BY DEF Holds
<1> HIDE DEF hit
<1> QED
  BY <1>2, <1>3 DEF Keeps, HandsOn

LEMMA ReleaseMoves ==
  ASSUME CallTypes, NEW t \in Allocator, NEW q \in Arenas, clearing[t] = {},
         clearing' = [clearing EXCEPT ![t] = {q}], Arenas' = Arenas \ {q},
         UNCHANGED <<used_map, found, big>>, NEW p \in Page
  PROVE  Keeps(p) \/ HandsOn(p, <<"arena", p>>, <<"clearing", t>>)
<1>1. clearing'[t] = {q} /\ \A u \in Allocator \ {t} : clearing'[u] = clearing[u]
  BY DEF CallTypes
<1>2. \A o : Holds(o, p)' <=> \/ Holds(o, p) /\ ~(o = <<"arena", p>> /\ p = q)
                              \/ o = <<"clearing", t>> /\ p = q
  BY <1>1 DEF Holds, Run, Nothing
<1>3. p = q => Holds(<<"arena", p>>, p)
  BY DEF Holds
<1> QED
  BY <1>2, <1>3 DEF Keeps, HandsOn

LEMMA BlocksQuiet ==
  ASSUME BlocksInv, UNCHANGED <<free_list, arena, allocated>>
  PROVE  BlocksInv' /\ Arenas' = Arenas
<1>1. BlockTypes' /\ Arenas' = Arenas
  BY DEF BlocksInv, BlockTypes, Arenas
<1>2. ASSUME NEW p \in Page PROVE CountExact(p)'
  <2>1. CountExact(p)
    BY DEF BlocksInv
  <2> QED
    BY <1>1, <2>1 DEF CountExact, BlocksAt
<1>3. ASSUME NEW d \in Desc PROVE ListExact(d)'
  <2>1. ListExact(d)
    BY DEF BlocksInv
  <2> QED
    BY <2>1 DEF ListExact, Once, Members
<1>4. \A b \in allocated' : (b[1] \in Arenas)'
  BY <1>1 DEF BlocksInv
<1> QED
  BY <1>1, <1>2, <1>3, <1>4 DEF BlocksInv

(* No step loses a block or gives it out twice, and none loses a page or   *)
(* gives it a second owner.                                                *)
LEMMA PallocOwners ==
  ASSUME MallocInv, NEW t \in Allocator, InsidePalloc(t), UNCHANGED arenaVars
  PROVE  BlocksInv' /\ \A p \in Page : Changes(p)
<1>1. CallTypes /\ Calls /\ BlocksInv /\ \A p \in Page : OneOwner(p)
  BY DEF MallocInv
<1>2. BlocksInv' /\ Arenas' = Arenas
  BY <1>1, BlocksQuiet DEF arenaVars
<1>3. ASSUME NEW p \in Page PROVE Changes(p)
  <2>1. CASE TakePages(t)
    BY <1>1, <2>1, TakeMoves DEF Changes
  <2>2. CASE ClearBit(t)
    BY <1>1, <2>2, ClearMoves DEF Changes
  <2>3. CASE LockPool(t) \/ TryNext(t)
    <3>1. UNCHANGED <<used_map, big, found, clearing>>
      BY <2>3 DEF LockPool, TryNext, arenaVars
    <3> QED
      BY <1>2, <3>1, NoMove DEF Changes
  <2>4. CASE NoPages(t)
    <3>1. t # NoAllocator /\ Working(t) /\ poolLock = t
      BY <1>1, <2>4, PallocAssumption DEF NoPages, Calls
    <3>2. search[t] # NoSearch
      BY <1>1, <3>1 DEF Calls
    <3>3. found[t] = Nothing
      BY <3>1, <3>2 DEF Working, OutsidePalloc, Getting, Freeing
    <3>4. UNCHANGED <<used_map, big, found, clearing>>
      BY <1>1, <2>4, <3>3 DEF NoPages, EndSearch, CallTypes, arenaVars
    <3> QED
      BY <1>2, <3>4, NoMove DEF Changes
  <2> QED
    BY <2>1, <2>2, <2>3, <2>4 DEF InsidePalloc
<1> QED
  BY <1>2, <1>3

LEMMA EnterOwners ==
  ASSUME MallocInv, NEW t \in Allocator,
         \/ \E d \in Desc : MallocArena(t, d)
         \/ \E cnt \in BigPages : MallocBig(t, cnt)
         \/ ArenaReleased(t) \/ BigFreed(t)
  PROVE  BlocksInv' /\ \A p \in Page : Changes(p)
<1>1. CallTypes /\ Calls /\ BlocksInv
  BY DEF MallocInv
<1>2. UNCHANGED <<free_list, arena, allocated, used_map, big, clearing>>
  BY DEF MallocArena, MallocBig, ArenaReleased, BigFreed, WantPages, pallocVars
<1>3. UNCHANGED found
  <2>1. CASE ArenaReleased(t) \/ BigFreed(t)
    BY <2>1 DEF ArenaReleased, BigFreed, pallocVars
  <2>2. CASE \/ \E d \in Desc : MallocArena(t, d)
             \/ \E cnt \in BigPages : MallocBig(t, cnt)
    <3>1. Idling(t) /\ found' = [found EXCEPT ![t] = Nothing]
      BY <2>2 DEF MallocArena, MallocBig, WantPages
    <3> QED
      BY <1>1, <3>1, InMalloc DEF CallTypes
  <2> QED
    BY <2>1, <2>2
<1>4. BlocksInv' /\ Arenas' = Arenas
  BY <1>1, <1>2, BlocksQuiet
<1> QED
  BY <1>2, <1>3, <1>4, NoMove DEF Changes

LEMMA MadeOwners ==
  ASSUME MallocInv, NEW t \in Allocator, ArenaMade(t) \/ BigMade(t)
  PROVE  BlocksInv' /\ \A p \in Page : Changes(p)
<1>1. CallTypes /\ Calls /\ BlocksInv /\ \A p \in Page : OneOwner(p)
  BY DEF MallocInv
<1>2. UNCHANGED <<used_map, clearing>> /\ found' = [found EXCEPT ![t] = Nothing]
  BY DEF ArenaMade, BigMade
<1>3. CASE found[t] = Nothing
  <2>1. UNCHANGED <<free_list, arena, allocated, big>>
    BY <1>3 DEF ArenaMade, BigMade
  <2>2. UNCHANGED found
    BY <1>1, <1>2, <1>3 DEF CallTypes
  <2>3. BlocksInv' /\ Arenas' = Arenas
    BY <1>1, <2>1, BlocksQuiet
  <2> QED
    BY <1>2, <2>1, <2>2, <2>3, NoMove DEF Changes
<1>4. CASE ArenaMade(t) /\ found[t] # Nothing
  <2>1. HasLock(t) /\ free_list[call[t].desc] = <<>> /\ Result(found[t], {1})
    BY <1>1, <1>4, InMalloc DEF ArenaMade
  <2>2. PICK p, d : p = found[t].page /\ d = call[t].desc
    OBVIOUS
  <2>3. p \in Page /\ d \in Desc /\ free_list[d] = <<>>
    BY <2>1, <2>2 DEF Result, HasLock
  <2>4. p \notin Arenas
    <3>1. p \in Run(found[t].page, found[t].cnt)
      BY <2>1, <2>2 DEF Result, Run, Page
    <3>2. Holds(<<"found", t>>, p)
      BY <1>4, <3>1 DEF Holds
    <3>3. Holds(<<"arena", p>>, p) => FALSE
      <4>1. <<"arena", p>> # <<"found", t>>
        OBVIOUS
      <4>2. OneOwner(p) /\ \A o : o \in Owners(p) <=> Holds(o, p)
        BY <1>1, <2>3, OwnersHold
      <4> QED
        BY <3>2, <4>1, <4>2 DEF OneOwner
    <3> QED
      BY <3>3 DEF Holds
  <2>5. PopBlock(d, free_list[d] \o BlocksIn(p),
                 [arena EXCEPT ![p] = [desc |-> d, free_cnt |-> BlocksPerArena]])
    BY <1>4, <2>2 DEF ArenaMade
  <2>6. BlocksInv' /\ Arenas' = Arenas \cup {p}
    BY <1>1, <2>3, <2>4, <2>5, NewArenaBlocks
  <2>7. UNCHANGED big
    BY <1>4 DEF ArenaMade
  <2> QED
    BY <1>1, <1>2, <1>4, <2>1, <2>2, <2>6, <2>7, ArenaMoves DEF Changes
<1>5. CASE BigMade(t) /\ found[t] # Nothing
  <2>1. UNCHANGED <<free_list, arena, allocated>> /\ big' = big \cup {found[t]}
    BY <1>5 DEF BigMade
  <2>2. BlocksInv' /\ Arenas' = Arenas
    BY <1>1, <2>1, BlocksQuiet
  <2> QED
    BY <1>1, <1>2, <1>5, <2>1, <2>2, BigMoves DEF Changes
<1> QED
  BY <1>3, <1>4, <1>5

LEMMA TakeOwners ==
  ASSUME MallocInv, NEW t \in Allocator, NEW d \in Desc, MallocBlock(t, d)
  PROVE  BlocksInv' /\ \A p \in Page : Changes(p)
<1>1. BlocksInv' /\ Arenas' = Arenas
  BY PopBlocks DEF MallocInv, MallocBlock
<1>2. UNCHANGED <<used_map, big, found, clearing>>
  BY DEF MallocBlock, pallocVars
<1> QED
  BY <1>1, <1>2, NoMove DEF Changes

LEMMA FreeOwners ==
  ASSUME MallocInv, NEW t \in Allocator,
         (\E b \in allocated : FreeBlock(t, b)) \/ (\E b \in big : FreeBig(t, b))
  PROVE  BlocksInv' /\ \A p \in Page : Changes(p)
<1>1. CallTypes /\ Calls /\ BlocksInv
  BY DEF MallocInv
<1>2. CASE \E b \in big : FreeBig(t, b)
  <2>1. PICK b \in big : FreeBig(t, b)
    BY <1>2
  <2>2. /\ UNCHANGED <<free_list, arena, allocated, used_map, found>> /\ big' = big \ {b}
        /\ clearing[t] = {} /\ clearing' = [clearing EXCEPT ![t] = Run(b.page, b.cnt)]
    BY <2>1 DEF FreeBig, FreePages, OutsidePalloc
  <2>3. BlocksInv' /\ Arenas' = Arenas
    BY <1>1, <2>2, BlocksQuiet
  <2> QED
    BY <1>1, <2>2, <2>3, FreeBigMoves DEF Changes
<1>3. CASE \E b \in allocated : FreeBlock(t, b)
  <2>1. PICK b \in allocated : FreeBlock(t, b)
    BY <1>3
  <2>2. PICK p, d : p = b[1] /\ d = arena[p].desc
    OBVIOUS
  <2>3. p \in Page /\ p \in Arenas /\ d \in Desc
    BY <1>1, <2>2, InUse
  <2>4. allocated' = allocated \ {b} /\ UNCHANGED big
    BY <2>1 DEF FreeBlock
  <2>5. CASE arena[p].free_cnt + 1 < BlocksPerArena
    <3>1. /\ free_list' = [free_list EXCEPT ![d] = <<b>> \o free_list[d]]
          /\ arena' = [arena EXCEPT ![p].free_cnt = @ + 1]
          /\ UNCHANGED <<used_map, found, clearing>>
      BY <2>1, <2>2, <2>5 DEF FreeBlock, pallocVars
    <3>2. BlocksInv' /\ Arenas' = Arenas
      BY <1>1, <2>2, <2>3, <2>4, <2>5, <3>1, PushBlocks
    <3> QED
      BY <2>4, <3>1, <3>2, NoMove DEF Changes
  <2>6. CASE ~(arena[p].free_cnt + 1 < BlocksPerArena)
    <3>1. /\ free_list' = [free_list EXCEPT ![d] =
                             Without(<<b>> \o free_list[d], {p} \X (1 .. BlocksPerArena))]
          /\ arena' = [arena EXCEPT ![p] = NoArena]
          /\ UNCHANGED <<used_map, found>>
          /\ clearing[t] = {} /\ clearing' = [clearing EXCEPT ![t] = {p}]
      BY <2>1, <2>2, <2>6 DEF FreeBlock, FreePages, OutsidePalloc
    <3>2. BlocksInv' /\ Arenas' = Arenas \ {p}
      BY <1>1, <2>2, <2>3, <2>4, <2>6, <3>1, ReleaseBlocks
    <3> QED
      BY <1>1, <2>3, <2>4, <3>1, <3>2, ReleaseMoves DEF Changes
  <2> QED
    BY <2>5, <2>6
<1> QED
  BY <1>2, <1>3

-----------------------------------------------------------------------------
LEMMA MallocInvInit ==
  ASSUME MallocInit
  PROVE  MallocInv
<1> USE PallocAssumption, MallocAssumption
<1>1. PallocInit /\ arena = [p \in Page |-> NoArena] /\ free_list = [d \in Desc |-> <<>>]
      /\ allocated = {} /\ big = {}
  BY DEF MallocInit
<1>2. CallTypes
  BY DEF MallocInit, PallocInit, CallTypes, NoSearch, NoCall, Nothing
<1>3. Calls
  BY DEF MallocInit, PallocInit, Calls, Working, OutsidePalloc
<1>4. Arenas = {}
  BY <1>1 DEF Arenas
<1>5. BlocksInv
  <2>1. BlockTypes
    BY <1>1 DEF BlockTypes
  <2>2. \A d \in Desc : ListExact(d)
    <3> SUFFICES ASSUME NEW d \in Desc PROVE ListExact(d)
      OBVIOUS
    <3>1. Members(free_list[d]) = {} /\ Once(free_list[d])
      BY <1>1 DEF Members, Once
    <3>2. \A b \in Block : arena[b[1]].desc # d
      BY <1>1 DEF Block, NoArena
    <3> QED
      BY <3>1, <3>2 DEF ListExact
  <2> QED
    BY <1>1, <1>4, <2>1, <2>2 DEF BlocksInv, CountExact
<1>6. \A p \in Page : OneOwner(p)
  <2> SUFFICES ASSUME NEW p \in Page PROVE Owners(p) = {}
    BY <1>1 DEF OneOwner, PallocInit
  <2>1. \A o : ~Holds(o, p)
    BY <1>1, <1>4 DEF Holds, PallocInit
  <2> QED
    BY <2>1, OwnersHold
<1> QED
  BY <1>2, <1>3, <1>5, <1>6 DEF MallocInv

LEMMA MallocInvStep ==
  ASSUME MallocInv, [MallocNext]_mallocVars
  PROVE  MallocInv'
<1>1. CASE MallocNext
  <2>1. CallTypes' /\ Calls'
    BY <1>1, CallStep
  <2>2. BlocksInv' /\ \A p \in Page : Changes(p)
    <3>1. PICK t \in Allocator :
             \/ InsidePalloc(t) /\ UNCHANGED arenaVars
             \/ \E d \in Desc : MallocBlock(t, d)
             \/ \/ \E d \in Desc : MallocArena(t, d)
                \/ \E cnt \in BigPages : MallocBig(t, cnt)
                \/ ArenaReleased(t) \/ BigFreed(t)
             \/ ArenaMade(t) \/ BigMade(t)
             \/ (\E b \in allocated : FreeBlock(t, b)) \/ (\E b \in big : FreeBig(t, b))
      BY <1>1 DEF MallocNext
    <3> QED
      BY <3>1, PallocOwners, TakeOwners, EnterOwners, MadeOwners, FreeOwners
  <2>3. \A p \in Page : OneOwner(p)'
    BY <2>2, OwnerStep DEF MallocInv
  <2>4. \A p \in Page' : OneOwner(p)'
    BY <2>3 DEF Page
  <2> QED
    BY <2>1, <2>2, <2>4 DEF MallocInv
<1>2. CASE UNCHANGED mallocVars
  <2>1. UNCHANGED <<used_map, poolLock, search, found, clearing>>
        /\ UNCHANGED <<descLock, free_list, arena, allocated, big, call>>
    BY <1>2 DEF mallocVars, pallocVars, arenaVars
  <2>2. CallTypes' /\ Calls'
    BY <2>1 DEF MallocInv, CallTypes, Calls, Working, HasLock, Getting, Freeing, OutsidePalloc, Result
  <2>3. BlocksInv' /\ Arenas' = Arenas
    BY <2>1, BlocksQuiet DEF MallocInv
  <2>4. \A p \in Page : OneOwner(p)'
    BY <2>1, <2>3, NoMove, OwnerStep DEF MallocInv, Changes
  <2> QED
    BY <2>2, <2>3, <2>4 DEF MallocInv, Page
<1> QED
  BY <1>1, <1>2

-----------------------------------------------------------------------------
(* The inductive invariant: where each thread is in the two allocators,    *)
(* what the descriptors' lists and counts say, and each page's owner.      *)
THEOREM MallocInvariant == MallocSpec => []MallocInv
<1>1. MallocInv /\ [MallocNext]_mallocVars => MallocInv'
  BY MallocInvStep
<1> QED
  BY <1>1, MallocInvInit, PTL DEF MallocSpec

(* No page is handed out twice or lost, however searches interleave with   *)
(* palloc_free_multiple(), which clears bits without the pool's lock.      *)
THEOREM PagesOwnedOnceThm == MallocSpec => []PagesOwnedOnce
<1>1. ASSUME MallocInv, NEW p \in Page
      PROVE  Cardinality(Owners(p)) = IF p \in used_map THEN 1 ELSE 0
  <2>1. OneOwner(p)
    BY <1>1 DEF MallocInv
  <2>2. CASE p \in used_map
    <3>1. PICK o : Owners(p) = {o}
      BY <2>1, <2>2 DEF OneOwner
    <3> QED
      BY <2>2, <3>1, FS_Singleton
  <2>3. CASE p \notin used_map
    BY <2>1, <2>3, FS_EmptySet DEF OneOwner
  <2> QED
    BY <2>2, <2>3
<1>2. MallocInv => PagesOwnedOnce
  BY <1>1 DEF PagesOwnedOnce
<1> QED
  BY <1>2, MallocInvariant, PTL

LEMMA OnceCount ==
  ASSUME NEW S, NEW q \in Seq(S), Once(q)
  PROVE  Cardinality({q[i] : i \in DOMAIN q}) = Len(q)
<1>1. Len(q) \in Nat /\ DOMAIN q = 1 .. Len(q)
  OBVIOUS
<1>2. IsFiniteSet(1 .. Len(q)) /\ Cardinality(1 .. Len(q)) = Len(q)
  BY <1>1, FS_Interval
<1>3. PICK T : T = {q[i] : i \in DOMAIN q}
  OBVIOUS
<1>4. PICK f : f = [i \in 1 .. Len(q) |-> q[i]]
  OBVIOUS
<1>5. f \in [1 .. Len(q) -> T] /\ \A i, j \in 1 .. Len(q) : f[i] = f[j] => i = j
  BY <1>1, <1>3, <1>4 DEF Once
<1>6. \A x \in T : \E i \in 1 .. Len(q) : f[i] = x
  BY <1>1, <1>3, <1>4
<1>7. f \in Surjection(1 .. Len(q), T) /\ f \in Injection(1 .. Len(q), T)
  BY ONLY <1>5, <1>6 DEF Surjection, Injection, IsInjective
<1>8. ExistsBijection(1 .. Len(q), T)
  BY ONLY <1>7 DEF ExistsBijection, Bijection
<1> QED
  BY ONLY <1>2, <1>3, <1>8, FS_Bijection

(* Every block of an arena is in use or once on its descriptor's list, and *)
(* free_cnt counts the ones that are free.                                 *)
THEOREM BlocksExactThm == MallocSpec => []BlocksExact
<1>1. ASSUME BlocksInv PROVE BlocksExact
  <2>1. BlockTypes
    BY <1>1 DEF BlocksInv
  <2>2. ASSUME NEW d \in Desc
        PROVE  /\ Cardinality({free_list[d][i] : i \in DOMAIN free_list[d]}) = Len(free_list[d])
               /\ {free_list[d][i] : i \in DOMAIN free_list[d]}
                    = {b \in Block : arena[b[1]].desc = d} \ allocated
    <3>1. ListExact(d) /\ free_list[d] \in Seq(Block)
      BY <1>1, <2>1 DEF BlocksInv, BlockTypes
    <3>2. Cardinality({free_list[d][i] : i \in DOMAIN free_list[d]}) = Len(free_list[d])
      BY <3>1, OnceCount DEF ListExact
    <3>3. DOMAIN free_list[d] = 1 .. Len(free_list[d])
      BY <3>1
    <3> QED
      BY <3>1, <3>2, <3>3 DEF ListExact, Members
  <2>3. allocated \subseteq Arenas \X (1 .. BlocksPerArena)
    BY <1>1, <2>1 DEF BlocksInv, BlockTypes, Block
  <2>4. ASSUME NEW p \in Arenas
        PROVE  /\ arena[p].free_cnt < BlocksPerArena
               /\ arena[p].free_cnt = Cardinality({b \in Block : b[1] = p} \ allocated)
    <3>1. p \in Page
      BY DEF Arenas
    <3>2. CountExact(p)
      BY <1>1, <3>1 DEF BlocksInv
    <3>3. {b \in Block : b[1] = p} = BlocksAt(p)
      BY <3>1 DEF Block, BlocksAt
    <3> QED
      BY <3>2, <3>3 DEF CountExact
  <2> QED
    BY <2>2, <2>3, <2>4 DEF BlocksExact
<1>2. MallocInv => BlocksExact
  BY <1>1 DEF MallocInv
<1> QED
  BY <1>2, MallocInvariant, PTL

-----------------------------------------------------------------------------
(***************************************************************************)
(* Sectors.                                                                *)
(***************************************************************************)

(* What a file has sectors for: its inode, its blocks, and the lists that  *)
(* blocks are reached through.                                             *)
Kind == {"inode", "block", "single", "double", "list"}

(* A file of b blocks has a sector of kind k numbered n. *)
Has(b, k, n) ==
  \/ k = "inode" /\ n = 0
  \/ k = "block" /\ n < b
  \/ k = "single" /\ n = 0 /\ b > Direct
  \/ k = "double" /\ n = 0 /\ b > Direct + ListSize
  \/ k = "list" /\ n * ListSize < b - Direct - ListSize

(* Where the block off is, of an inode nd and index sectors J: FindBlock(). *)
BlockAt(nd, J, off) ==
  LET list == (off - Direct - ListSize) \div ListSize
  IN  IF off < Direct THEN nd.number[off]
      ELSE IF off < Direct + ListSize THEN J[nd.number[Direct]][off - Direct]
      ELSE J[J[nd.number[Direct + 1]][list]][off - Direct - ListSize - list * ListSize]

(* Which sector that is. *)
At(nd, J, k, n) ==
  IF k = "inode" THEN nd.sector
  ELSE IF k = "single" THEN nd.number[Direct]
  ELSE IF k = "double" THEN nd.number[Direct + 1]
  ELSE IF k = "list" THEN J[nd.number[Direct + 1]][n]
  ELSE BlockAt(nd, J, n)

(* The files S, of inodes N, own the sectors in map. *)
Owned(S, N, J, map) ==
  /\ \A f \in S, k \in Kind, n \in Nat : Has(N[f].blocks, k, n) => At(N[f], J, k, n) \in map \ Reserved
  /\ \A f, g \in S, k, l \in Kind, m, n \in Nat :
       /\ Has(N[f].blocks, k, m) /\ Has(N[g].blocks, l, n)
       /\ At(N[f], J, k, m) = At(N[g], J, l, n)
       => f = g /\ k = l /\ m = n
  /\ \A s \in map : \/ s \in Reserved
                    \/ \E f \in S, k \in Kind, n \in Nat :
                         Has(N[f].blocks, k, n) /\ At(N[f], J, k, n) = s

DiskInode == [sector : SectorIds, blocks : Nat \ {0}, length : Nat, number : [0 .. Direct + 1 -> SectorIds]]
Index     == [SectorIds -> [0 .. ListSize - 1 -> SectorIds]]

(* The length and the number of blocks of an inode agree. *)
Measured(nd) == nd.length <= MaxEnd /\ nd.blocks = nd.length \div SectorBytes + 1

-----------------------------------------------------------------------------
(* The sectors that are free. *)

(* free_map_allocate() gives out each free sector once. *)
LEMMA AvailableSectors ==
  ASSUME NEW map, NEW n, n = Cardinality(SectorIds \ map)
  PROVE  /\ n \in Nat /\ Available(map) \in [1 .. n -> SectorIds \ map]
         /\ \A j, k \in 1 .. n : Available(map)[j] = Available(map)[k] => j = k
<1> DEFINE free == SectorIds \ map
           Up(s) == {u \in free : u <= s}
<1>1. IsFiniteSet(free) /\ n \in Nat /\ free \subseteq Nat
  <2>1. DiskSectors - 1 \in Int /\ SectorIds \subseteq Nat
    BY InodeAssumption DEF SectorIds
  <2>2. IsFiniteSet(SectorIds)
    BY <2>1, FS_Interval DEF SectorIds
  <2>3. IsFiniteSet(free)
    BY <2>2, FS_Subset
  <2> QED
    BY <2>1, <2>3, FS_CardinalityType
<1>2. PICK rank : /\ rank = [s \in free |-> Cardinality(Up(s))]
                  /\ Available(map) = [k \in 1 .. n |-> CHOOSE s \in free : rank[s] = k]
  <2>1. Available(map) = [k \in 1 .. n |-> CHOOSE s \in free : Cardinality(Up(s)) = k]
    BY DEF Available
  <2> DEFINE r == [s \in free |-> Cardinality(Up(s))]
  <2>2. \A k : (CHOOSE s \in free : Cardinality(Up(s)) = k) = (CHOOSE s \in free : r[s] = k)
    <3> TAKE k
    <3>1. \A s \in free : Cardinality(Up(s)) = k <=> r[s] = k
      OBVIOUS
    <3> HIDE DEF r, Up, free
    <3> QED
      BY <3>1
  <2>3. r = [s \in free |-> Cardinality(Up(s))]
    OBVIOUS
  <2> HIDE DEF r, Up, free
  <2>4. Available(map) = [k \in 1 .. n |-> CHOOSE s \in free : r[s] = k]
    BY ONLY <2>1, <2>2
  <2> QED
    BY ONLY <2>3, <2>4
<1>3. \A s \in free : IsFiniteSet(Up(s)) /\ rank[s] \in 1 .. n
  <2> TAKE s \in free
  <2>1. Up(s) \in SUBSET free /\ s \in Up(s)
    BY <1>1
  <2>2. IsFiniteSet(Up(s)) /\ Cardinality(Up(s)) \in Nat /\ Cardinality(Up(s)) <= n
    BY <1>1, <2>1, FS_Subset, FS_CardinalityType
  <2>3. Cardinality(Up(s)) # 0
    BY <2>1, <2>2, FS_EmptySet
  <2> HIDE DEF Up, free
  <2> QED
    BY <1>1, <1>2, <2>2, <2>3
<1>4. ASSUME NEW s \in free, NEW u \in free, s < u PROVE rank[s] # rank[u]
  <2>1. Up(s) \in SUBSET Up(u) /\ u \in Up(u) /\ u \notin Up(s)
    BY <1>1, <1>4
  <2>2. Cardinality(Up(u)) # Cardinality(Up(s))
    BY <1>3, <2>1, FS_Subset
  <2> QED
    BY <1>2, <2>2
<1>5. rank \in Injection(free, 1 .. n)
  <2>1. rank \in [free -> 1 .. n]
    BY <1>2, <1>3
  <2>2. \A s, u \in free : rank[s] = rank[u] => s = u
    BY <1>1, <1>4
  <2> QED
    BY <2>1, <2>2 DEF Injection, IsInjective
<1>6. \A k \in 1 .. n : \E s \in free : rank[s] = k
  <2>1. IsFiniteSet(1 .. n) /\ Cardinality(1 .. n) = n
    BY <1>1, FS_Interval
  <2>2. rank \in Surjection(free, 1 .. n)
    BY <1>1, <1>5, <2>1, FS_Injection
  <2> QED
    BY <2>2 DEF Surjection
<1> HIDE DEF free
<1>7. \A k \in 1 .. n : Available(map)[k] \in free /\ rank[Available(map)[k]] = k
  <2> TAKE k \in 1 .. n
  <2>1. (CHOOSE s \in free : rank[s] = k) \in free /\ rank[CHOOSE s \in free : rank[s] = k] = k
    BY ONLY <1>6, k \in 1 .. n
  <2>2. Available(map)[k] = CHOOSE s \in free : rank[s] = k
    BY ONLY <1>2, k \in 1 .. n
  <2> QED
    BY ONLY <2>1, <2>2
<1>8. Available(map) \in [1 .. n -> free]
  BY <1>2, <1>7
<1> QED
  BY <1>1, <1>7, <1>8 DEF free

-----------------------------------------------------------------------------
(* How file_grow() divides new blocks.                                     *)

Divisions == [direct : Nat, single : Nat, double : Nat, further : Nat, index : Int, before : Int,
              newSingle : {0, 1}, newDouble : {0, 1}, newList : {0, 1}, newFurther : {0, 1}]

(* What a division d of the blocks after the first b says, when it has all *)
(* of them: each part starts where the one before it ends and stays within *)
(* its list.                                                               *)
Parts(d, b, new) ==
  /\ d \in Divisions
  /\ d.direct + d.single + d.double + d.further = new
  /\ d.direct > 0 => b + d.direct <= Direct
  /\ d.single + d.double + d.further > 0 => b + d.direct >= Direct
  /\ d.single > 0 => d.index = b + d.direct - Direct /\ d.index + d.single <= ListSize
  /\ d.double > 0 => /\ d.before = b + d.direct + d.single - Direct - ListSize
                     /\ d.before >= 0 /\ (d.before % ListSize) + d.double <= ListSize
  /\ d.further > 0 => /\ d.double > 0 /\ d.further <= ListSize
                      /\ (d.before % ListSize) + d.double = ListSize
  /\ d.newSingle = 1 <=> d.single > 0 /\ d.index = 0
  /\ d.newDouble = 1 <=> d.double > 0 /\ d.before = 0
  /\ d.newList = 1 <=> d.double > 0 /\ d.before % ListSize = 0
  /\ d.newFurther = 1 <=> d.further > 0

(* A directory grows by a block and a new file has one: in both cases the  *)
(* single list is entered at its first block or left room in.              *)
LEMMA DivisionParts ==
  ASSUME NEW b \in Nat \ {0}, NEW new \in Nat \ {0}, new = 1 \/ b = 1,
         NEW d, d = Division(b, new), d.direct + d.single + d.double + d.further = new
  PROVE  Parts(d, b, new)
<1> DEFINE direct == IF b < Direct THEN Smaller(new, Direct - b) ELSE 0
           index  == b + direct - Direct
           single == IF new > direct /\ index < ListSize
                     THEN IF index + new - direct > ListSize THEN ListSize ELSE new - direct
                     ELSE 0
           left   == new - direct - single
           before == index + single - ListSize
           double == IF left > 0 THEN Smaller(left, RoomInList(before)) ELSE 0
           more   == left - double
           further == IF more <= ListSize THEN more ELSE double
<1>1. Direct \in Nat \ {0} /\ ListSize \in Nat \ {0}
  BY InodeAssumption
<1>2. /\ d.direct = direct /\ d.single = single /\ d.double = double /\ d.further = further
      /\ d.index = index /\ d.before = before
      /\ d.newSingle = One(single > 0 /\ index = 0) /\ d.newDouble = One(left > 0 /\ before = 0)
      /\ d.newList = One(left > 0 /\ before % ListSize = 0) /\ d.newFurther = One(more > 0)
  BY DEF Division
<1>3. /\ direct \in Nat /\ direct <= new /\ (direct > 0 => b + direct <= Direct)
      /\ direct < new => b + direct >= Direct
  BY <1>1 DEF Smaller
<1> HIDE DEF direct
<1>4. index \in Int /\ (direct < new => index >= 0)
  BY <1>1, <1>3
<1>5. direct < new => new = 1 \/ index = 0 \/ (b = 1 /\ direct = 0 /\ index >= 0)
  BY <1>1, <1>3, <1>4
<1>6. direct < new /\ b = 1 => index = 0
  BY <1>1, <1>3 DEF direct
<1> HIDE DEF index
<1>7. /\ single \in Nat /\ direct + single <= new
      /\ single > 0 => direct < new /\ index + single <= ListSize
      /\ direct + single < new => index + single >= ListSize
  BY <1>1, <1>3, <1>4, <1>5, <1>6
<1> HIDE DEF single
<1>8. left \in Nat /\ before \in Int /\ (left > 0 => before >= 0)
  BY <1>1, <1>3, <1>4, <1>7
<1> HIDE DEF left, before
<1>9. before % ListSize \in 0 .. ListSize - 1
  BY <1>1, <1>8
<1>10. /\ double \in Nat /\ double <= left /\ (before % ListSize) + double <= ListSize
       /\ left > 0 <=> double > 0
       /\ double < left => (before % ListSize) + double = ListSize
  BY <1>1, <1>8, <1>9 DEF Smaller, RoomInList
<1> HIDE DEF double
<1>11. more \in Nat
  BY <1>8, <1>10
<1>12. further = more /\ more <= ListSize
  <2>1. direct + single + double + further = new
    BY <1>2
  <2>2. further = more
    BY <1>3, <1>7, <1>8, <1>10, <2>1 DEF left
  <2>3. double <= ListSize
    BY <1>1, <1>9, <1>10
  <2> QED
    BY <1>1, <1>10, <1>11, <2>2, <2>3
<1>13. /\ d.newSingle \in {0, 1} /\ d.newDouble \in {0, 1}
       /\ d.newList \in {0, 1} /\ d.newFurther \in {0, 1}
       /\ d.newSingle = 1 <=> single > 0 /\ index = 0
       /\ d.newDouble = 1 <=> double > 0 /\ before = 0
       /\ d.newList = 1 <=> double > 0 /\ before % ListSize = 0
       /\ d.newFurther = 1 <=> more > 0
  BY <1>2, <1>10 DEF One
<1> HIDE DEF more, further
<1>14. further > 0 => double > 0 /\ double < left
  BY <1>8, <1>10, <1>11, <1>12 DEF more
<1>15. index = b + direct - Direct /\ before = b + direct + single - Direct - ListSize
  BY <1>1, <1>3, <1>7 DEF index, before
<1>16. direct + single + double + further = new
  BY <1>2
<1>17. single + double + further > 0 => b + direct >= Direct
  BY <1>3, <1>7, <1>10, <1>11, <1>12, <1>16
<1>18. d \in Divisions
  <2>1. d = [direct |-> d.direct, single |-> d.single, double |-> d.double, further |-> d.further,
             index |-> d.index, before |-> d.before, newSingle |-> d.newSingle,
             newDouble |-> d.newDouble, newList |-> d.newList, newFurther |-> d.newFurther]
    BY DEF Division
  <2> QED
    BY ONLY <1>2, <1>3, <1>4, <1>7, <1>8, <1>10, <1>11, <1>12, <1>13, <2>1 DEF Divisions
<1> QED
  BY ONLY <1>2, <1>3, <1>4, <1>7, <1>8, <1>10, <1>11, <1>12, <1>13, <1>14, <1>15, <1>16, <1>17, <1>18
     DEF Parts

-----------------------------------------------------------------------------
(* What growing writes.                                                    *)

(* How many of the sectors taken come before the single list's blocks, the *)
(* blocks of the list that has room, and those of the further list.        *)
SingleAt(d)  == d.direct + d.newSingle
DoubleAt(d)  == SingleAt(d) + d.single + d.newDouble + d.newList
FurtherAt(d) == DoubleAt(d) + d.double + d.newFurther

LEMMA DivisionFields ==
  ASSUME NEW d \in Divisions
  PROVE  \E di \in Nat, si \in Nat, bl \in Nat, fu \in Nat, ix \in Int, be \in Int,
            ns \in 0 .. 1, nb \in 0 .. 1, nl \in 0 .. 1, nf \in 0 .. 1 :
           /\ d.direct = di /\ d.single = si /\ d.double = bl /\ d.further = fu
           /\ d.index = ix /\ d.before = be /\ d.newSingle = ns /\ d.newDouble = nb
           /\ d.newList = nl /\ d.newFurther = nf
<1>1. d.direct \in Nat /\ d.single \in Nat /\ d.double \in Nat /\ d.further \in Nat
  BY DEF Divisions
<1>2. d.index \in Int /\ d.before \in Int
  BY DEF Divisions
<1>3. d.newSingle \in 0 .. 1 /\ d.newDouble \in 0 .. 1 /\ d.newList \in 0 .. 1 /\ d.newFurther \in 0 .. 1
  BY DEF Divisions
<1> QED
  BY ONLY <1>1, <1>2, <1>3

(* An array list over A that is old but for count sectors from at on, which *)
(* are those taken after the first skip.                                    *)
Fills(list, A, old, at, count, t, skip) ==
  /\ list \in [A -> SectorIds]
  /\ \A j \in A : list[j] = IF at <= j /\ j < at + count THEN t[skip + j - at + 1] ELSE old[j]

(* inode_allocblocks() fills one part of an array. *)
LEMMA AllocateIs ==
  ASSUME NEW A \in SUBSET Int, NEW array \in [A -> SectorIds], NEW at \in Int, NEW count \in Nat,
         NEW skip \in Int, NEW n \in Nat, NEW t \in [1 .. n -> SectorIds],
         count > 0 => skip >= 0 /\ skip + count <= n
  PROVE  Fills(Allocate(array, at, count, t, skip), A, array, at, count, t, skip)
<1>1. \A i \in A : i \in at .. at + count - 1 <=> at <= i /\ i < at + count
  OBVIOUS
<1>2. DOMAIN array = A
  OBVIOUS
<1>3. \A i \in A : Allocate(array, at, count, t, skip)[i] =
              IF at <= i /\ i < at + count THEN t[skip + i - at + 1] ELSE array[i]
  BY <1>1, <1>2 DEF Allocate
<1>4. \A i \in A : at <= i /\ i < at + count => skip + i - at + 1 \in 1 .. n
  OBVIOUS
<1>5. \A i \in A : Allocate(array, at, count, t, skip)[i] \in SectorIds
  <2> TAKE i \in A
  <2>1. CASE at <= i /\ i < at + count
    BY <1>3, <1>4, <2>1
  <2>2. CASE ~(at <= i /\ i < at + count)
    BY <1>3, <2>2
  <2> QED
    BY <2>1, <2>2
<1>6. Allocate(array, at, count, t, skip) = [i \in A |-> Allocate(array, at, count, t, skip)[i]]
  BY <1>2 DEF Allocate
<1>7. Allocate(array, at, count, t, skip) \in [A -> SectorIds]
  BY ONLY <1>5, <1>6
<1> QED
  BY ONLY <1>3, <1>7 DEF Fills

(* The numbers in the inode. *)
NumberIs(number, nd, d, t) ==
  /\ number \in [0 .. Direct + 1 -> SectorIds]
  /\ \A o \in 0 .. Direct - 1 :
       number[o] = IF nd.blocks <= o /\ o < nd.blocks + d.direct THEN t[o - nd.blocks + 1]
                                                                 ELSE nd.number[o]
  /\ number[Direct] = IF d.newSingle = 1 THEN t[SingleAt(d)] ELSE nd.number[Direct]
  /\ number[Direct + 1] = IF d.newDouble = 1 THEN t[SingleAt(d) + d.single + 1]
                                             ELSE nd.number[Direct + 1]

(* The list of lists. *)
DoubleIs(both, number, d, t, J) ==
  /\ both \in [0 .. ListSize - 1 -> SectorIds]
  /\ \A j \in 0 .. ListSize - 1 :
       both[j] = IF d.newFurther = 1 /\ j = (d.before \div ListSize) + 1 THEN t[FurtherAt(d)]
                 ELSE IF d.newList = 1 /\ j = d.before \div ListSize THEN t[DoubleAt(d)]
                 ELSE NumbersIn(J, number[Direct + 1], d.newDouble)[j]

(* The lists of blocks, of which one begins at block number at. *)
BlocksAre(list, old, at, count, t, skip) ==
  Fills(list, 0 .. ListSize - 1, old, at, count, t, skip)

ListsAre(K, J, number, both, d, t) ==
  LET i == d.before \div ListSize
  IN  /\ K \in Index
      /\ d.single > 0 =>
           BlocksAre(K[number[Direct]], NumbersIn(J, number[Direct], d.newSingle),
                     d.index, d.single, t, SingleAt(d))
      /\ \A s \in SectorIds :
           (d.single > 0 => s # number[Direct]) =>
             /\ d.double > 0 /\ s = number[Direct + 1] => K[s] = both
             /\ d.double > 0 /\ s # number[Direct + 1] /\ s = both[i] =>
                  BlocksAre(K[s], NumbersIn(J, s, d.newList),
                            d.before % ListSize, d.double, t, DoubleAt(d))
             /\ d.double > 0 /\ s # number[Direct + 1] /\ s # both[i]
                /\ d.further > 0 /\ s = both[i + 1] =>
                  BlocksAre(K[s], EmptyList, 0, d.further, t, FurtherAt(d))
             /\ d.double > 0 /\ s # number[Direct + 1] /\ s # both[i]
                /\ (d.further > 0 => s # both[i + 1]) => K[s] = J[s]
             /\ d.double = 0 => K[s] = J[s]
(* The sectors that a growth of division d takes, and what it makes of the *)
(* inode nd and of the index sectors J.                                     *)
Taken(t, d) == {t[k] : k \in 1 .. Needs(d)}
Grows(g, nd, d, t, map, J) ==
  /\ g.map = map \cup Taken(t, d)
  /\ NumberIs(g.number, nd, d, t)
  /\ \E both : DoubleIs(both, g.number, d, t, J) /\ ListsAre(g.lists, J, g.number, both, d, t)

(* file_grow() writes the inode, the list of lists and the lists. *)
LEMMA GrownIs ==
  ASSUME NEW nd \in DiskInode, NEW d \in Divisions, NEW new, Parts(d, nd.blocks, new),
         NEW J \in Index, NEW map, NEW n \in Nat, NEW t \in [1 .. n -> SectorIds],
         t = Available(map), Needs(d) <= n
  PROVE  Grows(Grown(nd, d, map, J), nd, d, t, map, J)
<1>1. PICK b \in Nat \ {0}, N \in [0 .. Direct + 1 -> SectorIds] : b = nd.blocks /\ N = nd.number
  BY DEF DiskInode
<1>2. Direct \in Nat \ {0} /\ ListSize \in Nat \ {0}
  BY InodeAssumption
<1>3. PICK di \in Nat, si \in Nat, bl \in Nat, fu \in Nat, ix \in Int, be \in Int,
           ns \in 0 .. 1, nb \in 0 .. 1, nl \in 0 .. 1, nf \in 0 .. 1 :
        /\ d.direct = di /\ d.single = si /\ d.double = bl /\ d.further = fu
        /\ d.index = ix /\ d.before = be /\ d.newSingle = ns /\ d.newDouble = nb
        /\ d.newList = nl /\ d.newFurther = nf
  BY DivisionFields
<1>4. PICK sa \in Nat, da \in Nat, fa \in Nat :
        /\ SingleAt(d) = sa /\ DoubleAt(d) = da /\ FurtherAt(d) = fa
        /\ sa = di + ns /\ da = sa + si + nb + nl /\ fa = da + bl + nf
        /\ Needs(d) = fa + fu
  BY ONLY <1>3 DEF SingleAt, DoubleAt, FurtherAt, Needs
<1>5. PICK i \in Int, r \in 0 .. ListSize - 1 : be \div ListSize = i /\ be % ListSize = r
  BY ONLY <1>2
<1>6. /\ di > 0 => b + di <= Direct
      /\ ns <= si /\ nb <= bl /\ nl <= bl /\ nf <= fu /\ (bl = 0 => fu = 0) /\ fa + fu <= n
  <2>1. /\ di > 0 => b + di <= Direct
        /\ ns = 1 => si > 0
        /\ nb = 1 => bl > 0
        /\ nl = 1 => bl > 0
        /\ nf = 1 => fu > 0
        /\ fu > 0 => bl > 0
    BY <1>1, <1>3 DEF Parts
  <2>2. fa + fu <= n
    BY <1>4
  <2> QED
    BY ONLY <2>1, <2>2
<1> DEFINE T == Available(map)
           direct == Allocate(nd.number, nd.blocks, d.direct, T, 0)
           single == Allocate(direct, Direct, d.newSingle, T, d.direct)
           number == Allocate(single, Direct + 1, d.newDouble, T, d.direct + d.newSingle + d.single)
           sA == d.direct + d.newSingle
           dA == sA + d.single + d.newDouble + d.newList
           fA == dA + d.double + d.newFurther
           I == d.before \div ListSize
           top  == Allocate(NumbersIn(J, number[Direct + 1], d.newDouble), I, d.newList, T, dA - 1)
           both == Allocate(top, I + 1, d.newFurther, T, fA - 1)
           Written(s) ==
             IF d.single > 0 /\ s = number[Direct]
             THEN Allocate(NumbersIn(J, s, d.newSingle), d.index, d.single, T, sA)
             ELSE IF d.double > 0 /\ s = number[Direct + 1] THEN both
             ELSE IF d.double > 0 /\ s = both[I]
             THEN Allocate(NumbersIn(J, s, d.newList), d.before % ListSize, d.double, T, dA)
             ELSE IF d.further > 0 /\ s = both[I + 1]
             THEN Allocate(EmptyList, 0, d.further, T, fA)
             ELSE J[s]
           lists1 == [s \in SectorIds |-> Written(s)]
<1>7. Grown(nd, d, map, J) = [number |-> number, lists |-> lists1,
                              map |-> map \cup {T[k] : k \in 1 .. Needs(d)}]
  BY DEF Grown
<1>8. T = t /\ sA = sa /\ dA = da /\ fA = fa /\ I = i
  BY ONLY <1>3, <1>4, <1>5, t = Available(map) DEF SingleAt, DoubleAt, FurtherAt
<1>9. direct = Allocate(N, b, di, t, 0)
  BY ONLY <1>1, <1>3, <1>8
<1> HIDE DEF direct
<1>10. single = Allocate(direct, Direct, ns, t, di)
  BY ONLY <1>3, <1>8
<1> HIDE DEF single
<1>11. PICK sk \in Int : sk = sa + si /\ number = Allocate(single, Direct + 1, nb, t, sk)
  BY ONLY <1>3, <1>4, <1>8
<1> HIDE DEF number
<1>12. PICK dk \in Int : dk = da - 1 /\ top = Allocate(NumbersIn(J, number[Direct + 1], nb), i, nl, t, dk)
  BY ONLY <1>3, <1>4, <1>8
<1> HIDE DEF top
<1>13. PICK fk \in Int, i1 \in Int : fk = fa - 1 /\ i1 = i + 1 /\ both = Allocate(top, i1, nf, t, fk)
  BY ONLY <1>3, <1>4, <1>5, <1>8
<1> HIDE DEF both
<1>14. \A s : Written(s) =
             IF si > 0 /\ s = number[Direct]
             THEN Allocate(NumbersIn(J, s, ns), ix, si, t, sa)
             ELSE IF bl > 0 /\ s = number[Direct + 1] THEN both
             ELSE IF bl > 0 /\ s = both[i]
             THEN Allocate(NumbersIn(J, s, nl), r, bl, t, da)
             ELSE IF fu > 0 /\ s = both[i1]
             THEN Allocate(EmptyList, 0, fu, t, fa)
             ELSE J[s]
  <2>1. I + 1 = i1 /\ d.before % ListSize = r
    BY ONLY <1>3, <1>5, <1>8, <1>13
  <2> HIDE DEF sA, dA, fA, I, T
  <2> QED
    BY ONLY <1>3, <1>8, <2>1
<1> HIDE DEF T, sA, dA, fA, I, Written
<1> DEFINE numbers == 0 .. Direct + 1
           room == 0 .. ListSize - 1
<1>15. /\ numbers \in SUBSET Int /\ room \in SUBSET Int /\ n \in Nat /\ t \in [1 .. n -> SectorIds]
       /\ ns \in Nat /\ nb \in Nat /\ nl \in Nat /\ nf \in Nat
  BY ONLY <1>2, n \in Nat, t \in [1 .. n -> SectorIds], ns \in 0 .. 1, nb \in 0 .. 1, nl \in 0 .. 1, nf \in 0 .. 1
<1> HIDE DEF numbers, room
<1>16. Fills(direct, numbers, N, b, di, t, 0)
  <2>1. b \in Int /\ di \in Nat /\ 0 \in Int /\ (di > 0 => 0 >= 0 /\ 0 + di <= n)
    BY ONLY <1>1, <1>3, <1>4, <1>6, <1>15
  <2>2. N \in [numbers -> SectorIds]
    BY ONLY <1>1 DEF numbers
  <2> QED
    BY ONLY <1>9, <1>15, <2>1, <2>2, AllocateIs
<1>17. Fills(single, numbers, direct, Direct, ns, t, di)
  <2>1. Direct \in Int /\ di \in Int /\ (ns > 0 => di >= 0 /\ di + ns <= n)
    BY ONLY <1>2, <1>3, <1>4, <1>6, <1>15
  <2>2. direct \in [numbers -> SectorIds]
    BY ONLY <1>16 DEF Fills
  <2> QED
    BY ONLY <1>10, <1>15, <2>1, <2>2, AllocateIs
<1>18. PICK D1 \in Int : D1 = Direct + 1 /\ Fills(number, numbers, single, D1, nb, t, sk)
  <2>1. PICK D1 \in Int : D1 = Direct + 1
    BY ONLY <1>2
  <2>2. nb > 0 => sk >= 0 /\ sk + nb <= n
    BY ONLY <1>3, <1>4, <1>6, <1>11, <1>15
  <2>3. single \in [numbers -> SectorIds]
    BY ONLY <1>17 DEF Fills
  <2>4. number = Allocate(single, D1, nb, t, sk)
    BY ONLY <1>11, <2>1
  <2>5. Fills(number, numbers, single, D1, nb, t, sk)
    BY ONLY <1>11, <1>15, <2>1, <2>2, <2>3, <2>4, AllocateIs
  <2> QED
    BY ONLY <2>1, <2>5
<1>19. NumberIs(number, nd, d, t)
  <2>1. /\ \A o \in 0 .. Direct + 1 : direct[o] = IF b <= o /\ o < b + di THEN t[0 + o - b + 1] ELSE N[o]
        /\ \A o \in 0 .. Direct + 1 : single[o] = IF Direct <= o /\ o < Direct + ns
                                                  THEN t[di + o - Direct + 1] ELSE direct[o]
        /\ \A o \in 0 .. Direct + 1 : number[o] = IF D1 <= o /\ o < D1 + nb
                                                  THEN t[sk + o - D1 + 1] ELSE single[o]
        /\ number \in [0 .. Direct + 1 -> SectorIds]
    BY ONLY <1>16, <1>17, <1>18 DEF Fills, numbers
  <2>2. \A o \in 0 .. Direct - 1 :
          number[o] = IF b <= o /\ o < b + di THEN t[o - b + 1] ELSE N[o]
    <3> TAKE o \in 0 .. Direct - 1
    <3>1. o \in 0 .. Direct + 1 /\ ~(D1 <= o) /\ ~(Direct <= o) /\ 0 + o - b + 1 = o - b + 1
      BY ONLY <1>1, <1>2, <1>18, o \in 0 .. Direct - 1
    <3> QED
      BY ONLY <2>1, <3>1
  <2>3. number[Direct] = IF ns = 1 THEN t[sa] ELSE N[Direct]
    <3>1. Direct \in 0 .. Direct + 1 /\ ~(D1 <= Direct) /\ ~(b <= Direct /\ Direct < b + di)
      BY ONLY <1>1, <1>2, <1>3, <1>6, <1>18
    <3>2. number[Direct] = IF Direct <= Direct /\ Direct < Direct + ns
                           THEN t[di + Direct - Direct + 1] ELSE N[Direct]
      BY ONLY <2>1, <3>1
    <3>3. /\ ns = 1 => Direct <= Direct /\ Direct < Direct + ns /\ di + Direct - Direct + 1 = sa
          /\ ns # 1 => ~(Direct < Direct + ns)
      BY ONLY <1>2, <1>3, <1>4
    <3> QED
      BY ONLY <3>2, <3>3
  <2>4. number[Direct + 1] = IF nb = 1 THEN t[sa + si + 1] ELSE N[Direct + 1]
    <3>1. /\ D1 \in 0 .. Direct + 1 /\ ~(b <= D1 /\ D1 < b + di) /\ ~(D1 < Direct + ns)
      <4>1. D1 \in 0 .. Direct + 1 /\ ~(D1 < Direct + ns)
        BY ONLY <1>2, <1>3, <1>18
      <4>2. ~(b <= D1 /\ D1 < b + di)
        BY ONLY <1>1, <1>2, <1>3, <1>6, <1>18
      <4> QED
        BY ONLY <4>1, <4>2
    <3>2. number[D1] = IF D1 <= D1 /\ D1 < D1 + nb THEN t[sk + D1 - D1 + 1] ELSE N[D1]
      BY ONLY <2>1, <3>1
    <3>3. /\ nb = 1 => D1 <= D1 /\ D1 < D1 + nb /\ sk + D1 - D1 + 1 = sa + si + 1
          /\ nb # 1 => ~(D1 < D1 + nb)
      <4>1. sk \in Int /\ sk = sa + si /\ D1 \in Int
        BY ONLY <1>11, <1>18
      <4> QED
        BY ONLY <1>3, <1>4, <4>1
    <3>4. number[D1] = IF nb = 1 THEN t[sa + si + 1] ELSE N[D1]
      BY ONLY <3>2, <3>3
    <3>5. D1 = Direct + 1
      BY ONLY <1>18
    <3> QED
      BY ONLY <3>4, <3>5
  <2> QED
    BY ONLY <1>1, <1>3, <1>4, <2>1, <2>2, <2>3, <2>4 DEF NumberIs
<1>20. /\ number[Direct] \in SectorIds /\ number[Direct + 1] \in SectorIds
       /\ EmptyList \in [room -> SectorIds]
       /\ \A s \in SectorIds : \A e : NumbersIn(J, s, e) \in [room -> SectorIds]
       /\ \A s \in SectorIds : J[s] \in [room -> SectorIds]
  <2>1. 0 \in SectorIds
    BY InodeAssumption DEF SectorIds
  <2>2. EmptyList \in [room -> SectorIds]
    BY <2>1 DEF EmptyList, room
  <2>3. \A s \in SectorIds : J[s] \in [room -> SectorIds]
    BY DEF Index, room
  <2>4. number \in [numbers -> SectorIds] /\ Direct \in numbers /\ Direct + 1 \in numbers
    BY ONLY <1>2, <1>18 DEF Fills, numbers
  <2> QED
    BY ONLY <2>2, <2>3, <2>4 DEF NumbersIn
<1>21. Fills(top, room, NumbersIn(J, number[Direct + 1], nb), i, nl, t, dk)
  <2>1. NumbersIn(J, number[Direct + 1], nb) \in [room -> SectorIds]
    BY ONLY <1>20
  <2>2. nl > 0 => dk >= 0 /\ dk + nl <= n
    BY ONLY <1>3, <1>4, <1>6, <1>12, <1>15
  <2> QED
    BY ONLY <1>5, <1>12, <1>15, <2>1, <2>2, AllocateIs
<1>22. Fills(both, room, top, i1, nf, t, fk)
  <2>1. top \in [room -> SectorIds]
    BY ONLY <1>21 DEF Fills
  <2>2. nf > 0 => fk >= 0 /\ fk + nf <= n
    BY ONLY <1>3, <1>4, <1>6, <1>13, <1>15
  <2> QED
    BY ONLY <1>13, <1>15, <2>1, <2>2, AllocateIs
<1>23. DoubleIs(both, number, d, t, J)
  <2>1. ASSUME NEW j \in 0 .. ListSize - 1
        PROVE both[j] = IF nf = 1 /\ j = i + 1 THEN t[fa]
                        ELSE IF nl = 1 /\ j = i THEN t[da]
                        ELSE NumbersIn(J, number[Direct + 1], nb)[j]
    <3>1. /\ i <= j /\ j < i + nl <=> nl = 1 /\ j = i
          /\ i1 <= j /\ j < i1 + nf <=> nf = 1 /\ j = i + 1
          /\ j = i => dk + j - i + 1 = da
          /\ j = i + 1 => fk + j - i1 + 1 = fa
      <4>1. /\ dk \in Int /\ dk = da - 1 /\ fk \in Int /\ fk = fa - 1 /\ i1 \in Int /\ i1 = i + 1
            /\ i \in Int
        BY ONLY <1>5, <1>12, <1>13
      <4>2. nl \in 0 .. 1 /\ nf \in 0 .. 1 /\ da \in Nat /\ fa \in Nat /\ j \in Int
        OBVIOUS
      <4> QED
        BY ONLY <4>1, <4>2
    <3>2. /\ both[j] = IF i1 <= j /\ j < i1 + nf THEN t[fk + j - i1 + 1] ELSE top[j]
          /\ top[j] = IF i <= j /\ j < i + nl THEN t[dk + j - i + 1]
                      ELSE NumbersIn(J, number[Direct + 1], nb)[j]
      BY ONLY <1>21, <1>22, j \in 0 .. ListSize - 1 DEF Fills, room
    <3>3. CASE nf = 1 /\ j = i + 1
      BY ONLY <3>1, <3>2, <3>3
    <3>4. CASE ~(nf = 1 /\ j = i + 1) /\ nl = 1 /\ j = i
      BY ONLY <3>1, <3>2, <3>4
    <3>5. CASE ~(nf = 1 /\ j = i + 1) /\ ~(nl = 1 /\ j = i)
      BY ONLY <3>1, <3>2, <3>5
    <3> QED
      BY ONLY <3>3, <3>4, <3>5
  <2>2. both \in [0 .. ListSize - 1 -> SectorIds]
    BY ONLY <1>22 DEF Fills, room
  <2> QED
    BY ONLY <1>3, <1>4, <1>5, <2>1, <2>2 DEF DoubleIs
<1>24. \A s \in SectorIds :
         /\ si > 0 => BlocksAre(Allocate(NumbersIn(J, s, ns), ix, si, t, sa), NumbersIn(J, s, ns), ix, si, t, sa)
         /\ bl > 0 => BlocksAre(Allocate(NumbersIn(J, s, nl), r, bl, t, da), NumbersIn(J, s, nl), r, bl, t, da)
         /\ fu > 0 => BlocksAre(Allocate(EmptyList, 0, fu, t, fa), EmptyList, 0, fu, t, fa)
  <2> TAKE s \in SectorIds
  <2>1. /\ NumbersIn(J, s, ns) \in [room -> SectorIds] /\ NumbersIn(J, s, nl) \in [room -> SectorIds]
        /\ EmptyList \in [room -> SectorIds]
    BY ONLY <1>20, s \in SectorIds
  <2>2. /\ si > 0 => sa >= 0 /\ sa + si <= n
        /\ bl > 0 => da >= 0 /\ da + bl <= n
        /\ fu > 0 => fa >= 0 /\ fa + fu <= n
        /\ sa \in Int /\ da \in Int /\ fa \in Int /\ r \in Int /\ 0 \in Int
    BY ONLY <1>2, <1>3, <1>4, <1>5, <1>6, <1>15
  <2>3. Fills(Allocate(NumbersIn(J, s, ns), ix, si, t, sa), room, NumbersIn(J, s, ns), ix, si, t, sa)
    BY ONLY <1>3, <1>15, <2>1, <2>2, AllocateIs
  <2>4. Fills(Allocate(NumbersIn(J, s, nl), r, bl, t, da), room, NumbersIn(J, s, nl), r, bl, t, da)
    BY ONLY <1>3, <1>15, <2>1, <2>2, AllocateIs
  <2>5. Fills(Allocate(EmptyList, 0, fu, t, fa), room, EmptyList, 0, fu, t, fa)
    BY ONLY <1>3, <1>15, <2>1, <2>2, AllocateIs
  <2> QED
    BY ONLY <2>3, <2>4, <2>5 DEF BlocksAre, room
<1>25. \A s \in SectorIds : Written(s) \in [room -> SectorIds]
  <2> TAKE s \in SectorIds
  <2>1. /\ si > 0 => Allocate(NumbersIn(J, s, ns), ix, si, t, sa) \in [room -> SectorIds]
        /\ bl > 0 => Allocate(NumbersIn(J, s, nl), r, bl, t, da) \in [room -> SectorIds]
        /\ fu > 0 => Allocate(EmptyList, 0, fu, t, fa) \in [room -> SectorIds]
    BY ONLY <1>24, s \in SectorIds DEF BlocksAre, Fills, room
  <2>2. J[s] \in [room -> SectorIds] /\ both \in [room -> SectorIds]
    BY ONLY <1>20, <1>22, s \in SectorIds DEF Fills
  <2> QED
    BY ONLY <1>14, <2>1, <2>2
<1>26. lists1 \in Index /\ \A s \in SectorIds : lists1[s] = Written(s)
  BY ONLY <1>25 DEF Index, room
<1> HIDE DEF lists1
<1>27. ListsAre(lists1, J, number, both, d, t)
  <2>1. si > 0 => BlocksAre(lists1[number[Direct]], NumbersIn(J, number[Direct], ns), ix, si, t, sa)
    BY ONLY <1>14, <1>20, <1>24, <1>26
  <2>2. ASSUME NEW s \in SectorIds, si > 0 => s # number[Direct]
        PROVE  /\ bl > 0 /\ s = number[Direct + 1] => lists1[s] = both
               /\ bl > 0 /\ s # number[Direct + 1] /\ s = both[i] =>
                    BlocksAre(lists1[s], NumbersIn(J, s, nl), r, bl, t, da)
               /\ bl > 0 /\ s # number[Direct + 1] /\ s # both[i] /\ fu > 0 /\ s = both[i + 1] =>
                    BlocksAre(lists1[s], EmptyList, 0, fu, t, fa)
               /\ bl > 0 /\ s # number[Direct + 1] /\ s # both[i]
                  /\ (fu > 0 => s # both[i + 1]) => lists1[s] = J[s]
               /\ bl = 0 => lists1[s] = J[s]
    <3>1. lists1[s] = IF bl > 0 /\ s = number[Direct + 1] THEN both
             ELSE IF bl > 0 /\ s = both[i] THEN Allocate(NumbersIn(J, s, nl), r, bl, t, da)
             ELSE IF fu > 0 /\ s = both[i + 1] THEN Allocate(EmptyList, 0, fu, t, fa)
             ELSE J[s]
      BY ONLY <1>13, <1>14, <1>26, <2>2
    <3>2. bl = 0 => ~(bl > 0) /\ ~(fu > 0)
      BY ONLY <1>3, <1>6
    <3> QED
      BY ONLY <1>24, <3>1, <3>2, s \in SectorIds
  <2> QED
    BY ONLY <1>3, <1>4, <1>5, <1>26, <2>1, <2>2 DEF ListsAre
<1>28. PICK g : /\ g = Grown(nd, d, map, J) /\ g.number = number /\ g.lists = lists1
               /\ g.map = map \cup {T[k] : k \in 1 .. Needs(d)}
  BY ONLY <1>7
<1>29. g.map = map \cup Taken(t, d)
  BY ONLY <1>8, <1>28 DEF Taken
<1>30. Grows(g, nd, d, t, map, J)
  BY ONLY <1>19, <1>23, <1>27, <1>28, <1>29 DEF Grows
<1> QED
  BY ONLY <1>28, <1>30

-----------------------------------------------------------------------------
(* Which of the sectors taken becomes what.                                *)

(* A growth of division d, of a file with b blocks, takes its j-th sector  *)
(* for what is of kind k and numbered n.                                   *)
Place(d, b, j, k, n) ==
  LET list == d.before \div ListSize
  IN  \/ k = "block" /\ j \in 1 .. d.direct /\ n = b + j - 1
      \/ k = "single" /\ n = 0 /\ d.newSingle = 1 /\ j = SingleAt(d)
      \/ k = "block" /\ j - SingleAt(d) \in 1 .. d.single /\ n = Direct + d.index + (j - SingleAt(d)) - 1
      \/ k = "double" /\ n = 0 /\ d.newDouble = 1 /\ j = SingleAt(d) + d.single + 1
      \/ k = "list" /\ n = list /\ d.newList = 1 /\ j = DoubleAt(d)
      \/ k = "block" /\ j - DoubleAt(d) \in 1 .. d.double
         /\ n = Direct + ListSize + d.before + (j - DoubleAt(d)) - 1
      \/ k = "list" /\ n = list + 1 /\ d.newFurther = 1 /\ j = FurtherAt(d)
      \/ k = "block" /\ j - FurtherAt(d) \in 1 .. d.further
         /\ n = Direct + ListSize + (list + 1) * ListSize + (j - FurtherAt(d)) - 1

(* Multiples of the length of a list are that far apart. *)
LEMMA Multiples ==
  ASSUME NEW L \in Nat \ {0}, NEW m \in Int, NEW n \in Int, n < m
  PROVE  n * L \in Int /\ m * L \in Int /\ n * L <= m * L - L
OBVIOUS

(* What a division comes to in numbers: the counts and places of its parts, *)
(* the list i that block be falls in and the place r in it.                 *)
Numbers(d, di, si, bl, fu, ix, be, ns, nb, nl, nf, sa, da, fa, i, r) ==
  /\ di \in Nat /\ si \in Nat /\ bl \in Nat /\ fu \in Nat /\ ix \in Int /\ be \in Int
  /\ ns \in {0, 1} /\ nb \in {0, 1} /\ nl \in {0, 1} /\ nf \in {0, 1}
  /\ sa \in Nat /\ da \in Nat /\ fa \in Nat /\ i \in Int /\ r \in 0 .. ListSize - 1
  /\ d.direct = di /\ d.single = si /\ d.double = bl /\ d.further = fu
  /\ d.index = ix /\ d.before = be /\ d.newSingle = ns /\ d.newDouble = nb
  /\ d.newList = nl /\ d.newFurther = nf
  /\ SingleAt(d) = sa /\ DoubleAt(d) = da /\ FurtherAt(d) = fa /\ Needs(d) = fa + fu
  /\ sa = di + ns /\ da = sa + si + nb + nl /\ fa = da + bl + nf
  /\ be \div ListSize = i /\ be % ListSize = r
  /\ be = i * ListSize + r

(* The facts of Parts() on those numbers. *)
Sums(b, new, di, si, bl, fu, ix, be, ns, nb, nl, nf, i, r) ==
  /\ di + si + bl + fu = new
  /\ di > 0 => b + di <= Direct
  /\ si + bl + fu > 0 => b + di >= Direct
  /\ si > 0 => ix = b + di - Direct /\ ix + si <= ListSize
  /\ bl > 0 => be = b + di + si - Direct - ListSize /\ be >= 0 /\ i >= 0 /\ r + bl <= ListSize
  /\ fu > 0 => bl > 0 /\ fu <= ListSize /\ r + bl = ListSize
  /\ ns = 1 <=> si > 0 /\ ix = 0
  /\ nb = 1 <=> bl > 0 /\ be = 0
  /\ nl = 1 <=> bl > 0 /\ r = 0
  /\ nf = 1 <=> fu > 0

LEMMA DivisionNumbers ==
  ASSUME NEW d, NEW b, NEW new, Parts(d, b, new)
  PROVE  \E di, si, bl, fu, ix, be, ns, nb, nl, nf, sa, da, fa, i, r :
           /\ Numbers(d, di, si, bl, fu, ix, be, ns, nb, nl, nf, sa, da, fa, i, r)
           /\ Sums(b, new, di, si, bl, fu, ix, be, ns, nb, nl, nf, i, r)
<1>1. Direct \in Nat \ {0} /\ ListSize \in Nat \ {0}
  BY InodeAssumption
<1>2. d \in Divisions
  BY DEF Parts
<1>3. PICK di \in Nat, si \in Nat, bl \in Nat, fu \in Nat, ix \in Int, be \in Int,
           ns \in 0 .. 1, nb \in 0 .. 1, nl \in 0 .. 1, nf \in 0 .. 1 :
        /\ d.direct = di /\ d.single = si /\ d.double = bl /\ d.further = fu
        /\ d.index = ix /\ d.before = be /\ d.newSingle = ns /\ d.newDouble = nb
        /\ d.newList = nl /\ d.newFurther = nf
  BY ONLY <1>2, DivisionFields
<1>4. PICK sa \in Nat, da \in Nat, fa \in Nat :
        /\ SingleAt(d) = sa /\ DoubleAt(d) = da /\ FurtherAt(d) = fa
        /\ sa = di + ns /\ da = sa + si + nb + nl /\ fa = da + bl + nf
        /\ Needs(d) = fa + fu
  BY ONLY <1>3 DEF SingleAt, DoubleAt, FurtherAt, Needs
<1>5. PICK i \in Int, r \in 0 .. ListSize - 1 :
        be \div ListSize = i /\ be % ListSize = r /\ be = i * ListSize + r /\ (be >= 0 => i >= 0)
  BY ONLY <1>1, be \in Int
<1>6. Numbers(d, di, si, bl, fu, ix, be, ns, nb, nl, nf, sa, da, fa, i, r)
  BY ONLY <1>3, <1>4, <1>5 DEF Numbers
<1>7. Sums(b, new, di, si, bl, fu, ix, be, ns, nb, nl, nf, i, r)
  <2>1. /\ di + si + bl + fu = new
        /\ di > 0 => b + di <= Direct
        /\ si + bl + fu > 0 => b + di >= Direct
        /\ si > 0 => ix = b + di - Direct /\ ix + si <= ListSize
        /\ bl > 0 => be = b + di + si - Direct - ListSize /\ be >= 0 /\ r + bl <= ListSize
        /\ fu > 0 => bl > 0 /\ fu <= ListSize /\ r + bl = ListSize
        /\ ns = 1 <=> si > 0 /\ ix = 0
        /\ nb = 1 <=> bl > 0 /\ be = 0
        /\ nl = 1 <=> bl > 0 /\ r = 0
        /\ nf = 1 <=> fu > 0
    BY ONLY <1>3, <1>5, Parts(d, b, new) DEF Parts
  <2> QED
    BY ONLY <1>5, <2>1 DEF Sums
<1> QED
  BY ONLY <1>6, <1>7

(* Each sector taken is for one thing that the grown file has and the file *)
(* did not have, and each such thing has one.                              *)
LEMMA PlacesTaken ==
  ASSUME NEW d, NEW b \in Nat \ {0}, NEW new \in Nat, Parts(d, b, new)
  PROVE  /\ Needs(d) \in Nat
         /\ \A j \in 1 .. Needs(d) : \E k \in Kind, n \in Nat : Place(d, b, j, k, n)
         /\ \A j \in Int, k \in Kind, n \in Int : Place(d, b, j, k, n) =>
              j \in 1 .. Needs(d) /\ n \in Nat /\ Has(b + new, k, n) /\ ~Has(b, k, n)
         /\ \A j \in Int, k, l \in Kind, m, n \in Int :
              Place(d, b, j, k, m) /\ Place(d, b, j, l, n) => k = l /\ m = n
         /\ \A k \in Kind, n \in Nat : Has(b, k, n) => Has(b + new, k, n)
         /\ \A k \in Kind, n \in Nat : Has(b + new, k, n) => Has(b, k, n) \/ \E j \in Int : Place(d, b, j, k, n)
<1>1. Direct \in Nat \ {0} /\ ListSize \in Nat \ {0}
  BY InodeAssumption
<1>2. PICK di, si, bl, fu, ix, be, ns, nb, nl, nf, sa, da, fa, i, r :
        /\ Numbers(d, di, si, bl, fu, ix, be, ns, nb, nl, nf, sa, da, fa, i, r)
        /\ Sums(b, new, di, si, bl, fu, ix, be, ns, nb, nl, nf, i, r)
  BY ONLY Parts(d, b, new), DivisionNumbers
<1>3. PICK L \in Nat \ {0}, D \in Nat \ {0}, iL \in Int : L = ListSize /\ D = Direct /\ iL = i * L
  BY ONLY <1>1, <1>2 DEF Numbers
<1>4. /\ di \in Nat /\ si \in Nat /\ bl \in Nat /\ fu \in Nat /\ ix \in Int /\ be \in Int
      /\ ns \in {0, 1} /\ nb \in {0, 1} /\ nl \in {0, 1} /\ nf \in {0, 1}
      /\ sa \in Nat /\ da \in Nat /\ fa \in Nat /\ i \in Int /\ r \in 0 .. L - 1
      /\ sa = di + ns /\ da = sa + si + nb + nl /\ fa = da + bl + nf
      /\ be = iL + r /\ Needs(d) = fa + fu
  BY ONLY <1>2, <1>3 DEF Numbers
<1>5. /\ di + si + bl + fu = new
      /\ di > 0 => b + di <= D
      /\ si + bl + fu > 0 => b + di >= D
      /\ si > 0 => ix = b + di - D /\ ix + si <= L
      /\ bl > 0 => be = b + di + si - D - L /\ be >= 0 /\ i >= 0 /\ r + bl <= L
      /\ fu > 0 => bl > 0 /\ fu <= L /\ r + bl = L
      /\ ns = 1 <=> si > 0 /\ ix = 0
      /\ nb = 1 <=> bl > 0 /\ be = 0
      /\ nl = 1 <=> bl > 0 /\ r = 0
      /\ nf = 1 <=> fu > 0
  BY ONLY <1>2, <1>3 DEF Sums
<1>6. \A j \in Int, n \in Int : \A k : Place(d, b, j, k, n) <=>
      \/ k = "block" /\ j \in 1 .. di /\ n = b + j - 1
      \/ k = "single" /\ n = 0 /\ ns = 1 /\ j = sa
      \/ k = "block" /\ j - sa \in 1 .. si /\ n = D + ix + (j - sa) - 1
      \/ k = "double" /\ n = 0 /\ nb = 1 /\ j = sa + si + 1
      \/ k = "list" /\ n = i /\ nl = 1 /\ j = da
      \/ k = "block" /\ j - da \in 1 .. bl /\ n = D + L + be + (j - da) - 1
      \/ k = "list" /\ n = i + 1 /\ nf = 1 /\ j = fa
      \/ k = "block" /\ j - fa \in 1 .. fu /\ n = D + L + (iL + L) + (j - fa) - 1
  <2>1. (i + 1) * ListSize = iL + L
    BY ONLY <1>3, <1>4
  <2> QED
    BY ONLY <1>2, <1>3, <2>1 DEF Place, Numbers
<1>7. \A c \in Nat : \A k, n : Has(c, k, n) <=>
      \/ k = "inode" /\ n = 0
      \/ k = "block" /\ n < c
      \/ k = "single" /\ n = 0 /\ c > D
      \/ k = "double" /\ n = 0 /\ c > D + L
      \/ k = "list" /\ n * L < c - D - L
  BY ONLY <1>3 DEF Has
<1>8. b \in Nat /\ b > 0 /\ b + new \in Nat /\ new \in Nat
  BY ONLY b \in Nat \ {0}, new \in Nat
<1>9. \A n \in Int : /\ n * L \in Int
                     /\ n < i => n * L <= iL - L
                     /\ n = i => n * L = iL
                     /\ n = i + 1 => n * L = iL + L
                     /\ n > i + 1 => n * L >= iL + L + L
  <2> TAKE n \in Int
  <2>1. (i + 1) * L = iL + L
    BY ONLY <1>3, <1>4
  <2>2. n < i => n * L <= iL - L
    BY ONLY <1>3, <1>4, Multiples
  <2>3. n > i + 1 => (i + 1) * L <= n * L - L
    BY ONLY <1>3, <1>4, Multiples
  <2>4. n * L \in Int
    BY ONLY <1>3
  <2> QED
    BY ONLY <1>3, <1>4, <2>1, <2>2, <2>3, <2>4
<1>10. \A j \in 1 .. Needs(d) : \E k \in Kind, n \in Nat : Place(d, b, j, k, n)
  <2> TAKE j \in 1 .. Needs(d)
  <2>1. CASE j <= di
    <3>1. b + j - 1 \in Nat /\ b + j - 1 \in Int /\ j \in 1 .. di /\ j \in Int
      BY ONLY <1>4, <1>8, <2>1, j \in 1 .. Needs(d)
    <3> QED
      BY ONLY <1>6, <3>1 DEF Kind
  <2>2. CASE di < j /\ j <= sa
    BY <1>4, <1>6, <2>2 DEF Kind
  <2>3. CASE sa < j /\ j <= sa + si
    <3>1. j - sa \in 1 .. si /\ D + ix + (j - sa) - 1 \in Nat /\ j \in Int
      BY ONLY <1>3, <1>4, <1>5, <1>8, <2>3, j \in 1 .. Needs(d)
    <3> QED
      BY ONLY <1>6, <3>1 DEF Kind
  <2>4. CASE sa + si < j /\ j <= sa + si + nb
    BY <1>4, <1>6, <2>4 DEF Kind
  <2>5. CASE sa + si + nb < j /\ j <= da
    BY <1>4, <1>5, <1>6, <2>5 DEF Kind
  <2>6. CASE da < j /\ j <= da + bl
    <3>1. j - da \in 1 .. bl /\ D + L + be + (j - da) - 1 \in Nat /\ j \in Int
      BY ONLY <1>3, <1>4, <1>5, <1>8, <2>6, j \in 1 .. Needs(d)
    <3> QED
      BY ONLY <1>6, <3>1 DEF Kind
  <2>7. CASE da + bl < j /\ j <= fa
    BY <1>4, <1>5, <1>6, <2>7 DEF Kind
  <2>8. CASE fa < j
    <3>1. j - fa \in 1 .. fu /\ D + L + (iL + L) + (j - fa) - 1 \in Nat /\ j \in Int
      BY ONLY <1>3, <1>4, <1>5, <1>8, <2>8, j \in 1 .. Needs(d)
    <3> QED
      BY ONLY <1>6, <3>1 DEF Kind
  <2> QED
    BY ONLY <1>4, <2>1, <2>2, <2>3, <2>4, <2>5, <2>6, <2>7, <2>8, j \in 1 .. Needs(d)
<1>11. ASSUME NEW j \in Int, NEW k \in Kind, NEW n \in Int, Place(d, b, j, k, n)
       PROVE  j \in 1 .. Needs(d) /\ n \in Nat /\ Has(b + new, k, n) /\ ~Has(b, k, n)
  <2>1. \/ k = "block" /\ j \in 1 .. di /\ n = b + j - 1
        \/ k = "single" /\ n = 0 /\ ns = 1 /\ j = sa
        \/ k = "block" /\ j - sa \in 1 .. si /\ n = D + ix + (j - sa) - 1
        \/ k = "double" /\ n = 0 /\ nb = 1 /\ j = sa + si + 1
        \/ k = "list" /\ n = i /\ nl = 1 /\ j = da
        \/ k = "block" /\ j - da \in 1 .. bl /\ n = D + L + be + (j - da) - 1
        \/ k = "list" /\ n = i + 1 /\ nf = 1 /\ j = fa
        \/ k = "block" /\ j - fa \in 1 .. fu /\ n = D + L + (iL + L) + (j - fa) - 1
    BY ONLY <1>6, <1>11
  <2>2. j \in 1 .. Needs(d) /\ n \in Nat
    BY ONLY <1>3, <1>4, <1>5, <1>8, <2>1, j \in Int, n \in Int
  <2>3. CASE k = "block"
    <3>1. b <= n /\ n < b + new
      BY ONLY <1>3, <1>4, <1>5, <1>8, <2>1, <2>3, j \in Int, n \in Int
    <3> QED
      BY ONLY <1>7, <1>8, <2>2, <2>3, <3>1, n \in Int
  <2>4. CASE k \in {"single", "double"}
    <3>1. n = 0 /\ (k = "single" => b + new > D /\ ~(b > D)) /\ (k = "double" => b + new > D + L /\ ~(b > D + L))
      BY ONLY <1>3, <1>4, <1>5, <1>8, <2>1, <2>4
    <3> QED
      BY ONLY <1>7, <1>8, <2>2, <2>4, <3>1
  <2>5. CASE k = "list"
    <3>1. n * L < b + new - D - L /\ ~(n * L < b - D - L)
      BY ONLY <1>3, <1>4, <1>5, <1>8, <1>9, <2>1, <2>5, n \in Int
    <3> QED
      BY ONLY <1>7, <1>8, <2>2, <2>5, <3>1
  <2> QED
    BY ONLY <2>1, <2>3, <2>4, <2>5
<1>12. ASSUME NEW j \in Int, NEW k \in Kind, NEW l \in Kind, NEW m \in Int, NEW n \in Int,
              Place(d, b, j, k, m), Place(d, b, j, l, n)
       PROVE  k = l /\ m = n
  <2>1. \/ k = "block" /\ j \in 1 .. di /\ m = b + j - 1
        \/ k = "single" /\ m = 0 /\ ns = 1 /\ j = sa
        \/ k = "block" /\ j - sa \in 1 .. si /\ m = D + ix + (j - sa) - 1
        \/ k = "double" /\ m = 0 /\ nb = 1 /\ j = sa + si + 1
        \/ k = "list" /\ m = i /\ nl = 1 /\ j = da
        \/ k = "block" /\ j - da \in 1 .. bl /\ m = D + L + be + (j - da) - 1
        \/ k = "list" /\ m = i + 1 /\ nf = 1 /\ j = fa
        \/ k = "block" /\ j - fa \in 1 .. fu /\ m = D + L + (iL + L) + (j - fa) - 1
    BY ONLY <1>6, <1>12
  <2>2. \/ l = "block" /\ j \in 1 .. di /\ n = b + j - 1
        \/ l = "single" /\ n = 0 /\ ns = 1 /\ j = sa
        \/ l = "block" /\ j - sa \in 1 .. si /\ n = D + ix + (j - sa) - 1
        \/ l = "double" /\ n = 0 /\ nb = 1 /\ j = sa + si + 1
        \/ l = "list" /\ n = i /\ nl = 1 /\ j = da
        \/ l = "block" /\ j - da \in 1 .. bl /\ n = D + L + be + (j - da) - 1
        \/ l = "list" /\ n = i + 1 /\ nf = 1 /\ j = fa
        \/ l = "block" /\ j - fa \in 1 .. fu /\ n = D + L + (iL + L) + (j - fa) - 1
    BY ONLY <1>6, <1>12
  <2> QED
    BY ONLY <1>3, <1>4, <1>5, <1>8, <2>1, <2>2, j \in Int
<1>13. ASSUME NEW k \in Kind, NEW n \in Nat, Has(b, k, n) PROVE Has(b + new, k, n)
  <2>1. n * L \in Int
    BY ONLY <1>3, n \in Nat
  <2> QED
    BY ONLY <1>3, <1>7, <1>8, <1>13, <2>1, n \in Nat
<1>14. ASSUME NEW k \in Kind, NEW n \in Nat, Has(b + new, k, n), ~Has(b, k, n)
       PROVE  \E j \in Int : Place(d, b, j, k, n)
  <2>1. CASE k = "block"
    <3>1. b <= n /\ n < b + new
      BY ONLY <1>7, <1>8, <1>14, <2>1, n \in Nat
    <3>2. PICK j \in Int : \/ j \in 1 .. di /\ n = b + j - 1
                           \/ j - sa \in 1 .. si /\ n = D + ix + (j - sa) - 1
                           \/ j - da \in 1 .. bl /\ n = D + L + be + (j - da) - 1
                           \/ j - fa \in 1 .. fu /\ n = D + L + (iL + L) + (j - fa) - 1
      <4>1. CASE n < b + di
        <5>1. n - b + 1 \in 1 .. di /\ n = b + (n - b + 1) - 1 /\ n - b + 1 \in Int
          BY ONLY <1>4, <1>8, <3>1, <4>1, n \in Nat
        <5> QED
          BY ONLY <5>1
      <4>2. CASE b + di <= n /\ n < b + di + si
        <5> DEFINE j == n - (D + ix) + 1 + sa
        <5>1. j - sa \in 1 .. si /\ n = D + ix + (j - sa) - 1 /\ j \in Int
          BY ONLY <1>3, <1>4, <1>5, <1>8, <3>1, <4>2, n \in Nat
        <5> QED
          BY ONLY <5>1
      <4>3. CASE b + di + si <= n /\ n < b + di + si + bl
        <5> DEFINE j == n - (D + L + be) + 1 + da
        <5>1. j - da \in 1 .. bl /\ n = D + L + be + (j - da) - 1 /\ j \in Int
          BY ONLY <1>3, <1>4, <1>5, <1>8, <3>1, <4>3, n \in Nat
        <5> QED
          BY ONLY <5>1
      <4>4. CASE b + di + si + bl <= n
        <5> DEFINE j == n - (D + L + (iL + L)) + 1 + fa
        <5>1. j - fa \in 1 .. fu /\ n = D + L + (iL + L) + (j - fa) - 1 /\ j \in Int
          BY ONLY <1>3, <1>4, <1>5, <1>8, <3>1, <4>4, n \in Nat
        <5> QED
          BY ONLY <5>1
      <4> QED
        BY ONLY <1>4, <1>8, <4>1, <4>2, <4>3, <4>4, n \in Nat
    <3> QED
      BY ONLY <1>6, <2>1, <3>2, n \in Nat
  <2>2. CASE k = "inode"
    BY ONLY <1>7, <1>8, <1>14, <2>2
  <2>3. CASE k = "single"
    <3>1. n = 0 /\ b + new > D /\ ~(b > D)
      BY ONLY <1>7, <1>8, <1>14, <2>3
    <3>2. ns = 1
      BY ONLY <1>3, <1>4, <1>5, <1>8, <3>1
    <3> QED
      BY ONLY <1>4, <1>6, <2>3, <3>1, <3>2
  <2>4. CASE k = "double"
    <3>1. n = 0 /\ b + new > D + L /\ ~(b > D + L)
      BY ONLY <1>7, <1>8, <1>14, <2>4
    <3>2. nb = 1 /\ sa + si + 1 \in Int
      BY ONLY <1>3, <1>4, <1>5, <1>8, <3>1
    <3> QED
      BY ONLY <1>6, <2>4, <3>1, <3>2
  <2>5. CASE k = "list"
    <3>1. n * L < b + new - D - L /\ ~(n * L < b - D - L) /\ n * L >= 0
      <4>1. n * L >= 0
        BY ONLY <1>3, n \in Nat
      <4> QED
        BY ONLY <1>7, <1>8, <1>14, <2>5, <4>1
    <3>2. (n = i /\ nl = 1) \/ (n = i + 1 /\ nf = 1)
      <4>1. bl > 0
        BY ONLY <1>3, <1>4, <1>5, <1>8, <1>9, <3>1, n \in Nat
      <4>2. i <= n /\ n <= i + 1
        BY ONLY <1>3, <1>4, <1>5, <1>8, <1>9, <3>1, <4>1, n \in Nat
      <4> QED
        BY ONLY <1>3, <1>4, <1>5, <1>8, <1>9, <3>1, <4>1, <4>2, n \in Nat
    <3>3. da \in Int /\ fa \in Int /\ n \in Int
      BY ONLY <1>4, n \in Nat
    <3>4. Place(d, b, da, k, n) \/ Place(d, b, fa, k, n)
      BY ONLY <1>6, <2>5, <3>2, <3>3
    <3> QED
      BY ONLY <3>3, <3>4
  <2> QED
    BY ONLY <2>1, <2>2, <2>3, <2>4, <2>5, k \in Kind DEF Kind
<1>15. Needs(d) \in Nat
  BY ONLY <1>4
<1> QED
  BY ONLY <1>10, <1>11, <1>12, <1>13, <1>14, <1>15

-----------------------------------------------------------------------------
(* Where things are after growing.                                         *)

(* The kinds of index sectors. *)
Indices == {"single", "double", "list"}

(* A block past the single list is number p of the list q. *)
LEMMA BlockInList ==
  ASSUME NEW q \in Int, NEW p \in 0 .. ListSize - 1, NEW n \in Int, n = Direct + ListSize + q * ListSize + p, q >= 0
  PROVE  \A nd, J : BlockAt(nd, J, n) = J[J[nd.number[Direct + 1]][q]][p]
<1>1. PICK L \in Nat \ {0}, D \in Nat \ {0} : L = ListSize /\ D = Direct
  BY InodeAssumption
<1>2. PICK qL \in Int : qL = q * L /\ qL >= 0
  BY ONLY <1>1, q \in Int, q >= 0
<1>3. n - D - L = q * L + p
  BY ONLY <1>1, <1>2, n = Direct + ListSize + q * ListSize + p, n \in Int, p \in 0 .. ListSize - 1
<1>4. (q * L + p) \div L = q
  BY ONLY <1>1, q \in Int, p \in 0 .. ListSize - 1
<1>5. (n - D - L) \div L = q
  BY ONLY <1>3, <1>4
<1>6. ~(n < D) /\ ~(n < D + L) /\ n - D - L - q * L = p
  BY ONLY <1>1, <1>2, n = Direct + ListSize + q * ListSize + p, n \in Int, p \in 0 .. ListSize - 1
<1> QED
  BY ONLY <1>1, <1>5, <1>6 DEF BlockAt

(* A block is direct, in the single list, or in a list of the double list. *)
LEMMA BlockCases ==
  ASSUME NEW n \in Nat
  PROVE  \/ n < Direct
         \/ \E o \in 0 .. ListSize - 1 : n = Direct + o
         \/ \E q \in Nat, p \in 0 .. ListSize - 1 : n = Direct + ListSize + q * ListSize + p
<1>1. PICK L \in Nat \ {0}, D \in Nat \ {0} : L = ListSize /\ D = Direct
  BY InodeAssumption
<1>2. CASE n >= D + L
  <2>1. PICK m \in Nat : m = n - D - L
    BY ONLY <1>1, <1>2, n \in Nat
  <2>2. PICK q \in Nat, p \in 0 .. L - 1 : m = q * L + p
    <3>1. m \div L \in Nat /\ m % L \in 0 .. L - 1 /\ m = (m \div L) * L + (m % L)
      BY ONLY <1>1, m \in Nat
    <3> QED
      BY ONLY <3>1
  <2>3. q * L \in Int
    BY ONLY <1>1, q \in Nat
  <2>4. n = D + L + q * L + p
    BY ONLY <1>1, <2>1, <2>2, <2>3, n \in Nat
  <2> QED
    BY ONLY <1>1, <2>2, <2>4
<1>3. CASE D <= n /\ n < D + L
  <2>1. n - D \in 0 .. L - 1 /\ n = D + (n - D)
    BY ONLY <1>1, <1>3, n \in Nat
  <2> QED
    BY ONLY <1>1, <2>1
<1>4. CASE n < D
  BY <1>1, <1>4
<1> QED
  BY ONLY <1>1, <1>2, <1>3, <1>4, n \in Nat

(* What a file reaches is in S, and is different for different things. *)
Reaches(nd, J, S) == \A k \in Kind, m \in Nat : Has(nd.blocks, k, m) => At(nd, J, k, m) \in S
Apart(nd, J) ==
  \A k, l \in Kind, m, n \in Nat :
    Has(nd.blocks, k, m) /\ Has(nd.blocks, l, n) /\ At(nd, J, k, m) = At(nd, J, l, n) => k = l /\ m = n

(* The n sectors t are free and different. *)
Fresh(t, n, map) ==
  /\ t \in [1 .. n -> SectorIds]
  /\ \A j \in 1 .. n : t[j] \notin map
  /\ \A j, k \in 1 .. n : t[j] = t[k] => j = k

(* After the growth of division d that makes nd and J to nd2 and K, what   *)
(* nd had is where it was, what it did not have is in the sectors taken,    *)
(* and no index sector in map is written that is not its own.               *)
Grew(nd, nd2, d, J, K, t, map) ==
  /\ \A k \in Kind, m \in Nat : Has(nd.blocks, k, m) => At(nd2, K, k, m) = At(nd, J, k, m)
  /\ \A j \in Int, k \in Kind, m \in Nat : Place(d, nd.blocks, j, k, m) => At(nd2, K, k, m) = t[j]
  /\ \A s \in map : \/ K[s] = J[s]
                    \/ s \notin SectorIds
                    \/ \E k \in Indices, m \in Nat : Has(nd.blocks, k, m) /\ At(nd, J, k, m) = s

(* After growing, what the file had is where it was, what it did not have  *)
(* is in the sectors taken, and no other index sector is written.          *)
LEMMA GrownAt ==
  ASSUME NEW nd \in DiskInode, NEW nd2 \in DiskInode, NEW d, NEW new \in Nat, Parts(d, nd.blocks, new),
         NEW J \in Index, NEW K \in Index, NEW both, NEW map,
         NEW n \in Nat, NEW t, Fresh(t, n, map), Needs(d) <= n,
         nd.blocks + new <= Direct + ListSize + ListSize * ListSize,
         Reaches(nd, J, map), Apart(nd, J),
         nd2.sector = nd.sector, NumberIs(nd2.number, nd, d, t),
         DoubleIs(both, nd2.number, d, t, J), ListsAre(K, J, nd2.number, both, d, t)
  PROVE  Grew(nd, nd2, d, J, K, t, map)
<1>1. PICK b \in Nat \ {0}, N \in [0 .. Direct + 1 -> SectorIds], M \in [0 .. Direct + 1 -> SectorIds] :
        b = nd.blocks /\ N = nd.number /\ M = nd2.number
  BY DEF DiskInode
<1>2. PICK di, si, bl, fu, ix, be, ns, nb, nl, nf, sa, da, fa, i, r :
        /\ Numbers(d, di, si, bl, fu, ix, be, ns, nb, nl, nf, sa, da, fa, i, r)
        /\ Sums(b, new, di, si, bl, fu, ix, be, ns, nb, nl, nf, i, r)
  BY ONLY <1>1, Parts(d, nd.blocks, new), DivisionNumbers
<1>3. PICK L \in Nat \ {0}, D \in Nat \ {0}, iL \in Int, LL \in Nat :
        L = ListSize /\ D = Direct /\ iL = i * L /\ LL = L * L
  <2>1. ListSize \in Nat \ {0} /\ Direct \in Nat \ {0}
    BY InodeAssumption
  <2>2. ListSize * ListSize \in Nat /\ i * ListSize \in Int
    BY ONLY <1>2, <2>1 DEF Numbers
  <2> QED
    BY ONLY <2>1, <2>2
<1>4. /\ di \in Nat /\ si \in Nat /\ bl \in Nat /\ fu \in Nat /\ ix \in Int /\ be \in Int
      /\ ns \in {0, 1} /\ nb \in {0, 1} /\ nl \in {0, 1} /\ nf \in {0, 1}
      /\ sa \in Nat /\ da \in Nat /\ fa \in Nat /\ i \in Int /\ r \in 0 .. L - 1
      /\ sa = di + ns /\ da = sa + si + nb + nl /\ fa = da + bl + nf
      /\ be = iL + r /\ fa + fu <= n
  BY ONLY <1>2, <1>3, Needs(d) <= n DEF Numbers
<1>5. /\ di + si + bl + fu = new
      /\ di > 0 => b + di <= D
      /\ si + bl + fu > 0 => b + di >= D
      /\ si > 0 => ix = b + di - D /\ ix + si <= L
      /\ bl > 0 => be = b + di + si - D - L /\ be >= 0 /\ i >= 0 /\ r + bl <= L
      /\ fu > 0 => bl > 0 /\ fu <= L /\ r + bl = L
      /\ ns = 1 <=> si > 0 /\ ix = 0
      /\ nb = 1 <=> bl > 0 /\ be = 0
      /\ nl = 1 <=> bl > 0 /\ r = 0
      /\ nf = 1 <=> fu > 0
  BY ONLY <1>2, <1>3 DEF Sums
<1>6. /\ b \in Nat /\ b > 0 /\ new \in Nat /\ b + new <= D + L + LL
      /\ n \in Nat /\ t \in [1 .. n -> SectorIds]
  BY ONLY <1>1, <1>3, new \in Nat, nd.blocks + new <= Direct + ListSize + ListSize * ListSize,
     n \in Nat, Fresh(t, n, map) DEF Fresh
<1>7. \A q \in Int : /\ q * L \in Int
                     /\ q < i => q * L <= iL - L
                     /\ q = i => q * L = iL
                     /\ q = i + 1 => q * L = iL + L
                     /\ q > i => q * L >= iL + L
                     /\ q >= L => q * L >= LL
  <2> TAKE q \in Int
  <2>1. (i + 1) * L = iL + L
    BY ONLY <1>3, <1>4
  <2>2. q < i => q * L <= iL - L
    BY ONLY <1>3, <1>4, Multiples
  <2>3. q > i => iL <= q * L - L
    BY ONLY <1>3, <1>4, Multiples
  <2>4. q * L \in Int
    BY ONLY <1>3
  <2>5. q > L => L * L <= q * L - L
    BY ONLY <1>3, L \in Int, Multiples
  <2> QED
    BY ONLY <1>3, <1>4, <2>1, <2>2, <2>3, <2>4, <2>5
(* The lists that are written are entries of the double list. *)
<1>8. /\ bl > 0 => i \in 0 .. L - 1
      /\ fu > 0 => i + 1 \in 0 .. L - 1
  <2>1. bl > 0 => iL < LL
    BY ONLY <1>3, <1>4, <1>5, <1>6
  <2>2. i >= L => iL >= LL
    BY ONLY <1>4, <1>7
  <2>3. fu > 0 => iL + L < LL
    BY ONLY <1>3, <1>4, <1>5, <1>6
  <2>4. i + 1 >= L => iL + L >= LL
    BY ONLY <1>3, <1>4, <1>7
  <2> QED
    BY ONLY <1>3, <1>4, <1>5, <2>1, <2>2, <2>3, <2>4
<1>9. ASSUME NEW q \in Nat, q * L < b - D - L PROVE q \in 0 .. L - 1
  BY ONLY <1>3, <1>6, <1>7, <1>9
(* What was written, from the definitions. *)
<1>10. /\ \A o \in 0 .. D - 1 : M[o] = IF b <= o /\ o < b + di THEN t[o - b + 1] ELSE N[o]
       /\ M[D] = IF ns = 1 THEN t[sa] ELSE N[D]
       /\ M[D + 1] = IF nb = 1 THEN t[sa + si + 1] ELSE N[D + 1]
  BY ONLY <1>1, <1>2, <1>3, NumberIs(nd2.number, nd, d, t) DEF NumberIs, Numbers
<1>11. \A j \in 0 .. L - 1 : both[j] = IF nf = 1 /\ j = i + 1 THEN t[fa]
                                 ELSE IF nl = 1 /\ j = i THEN t[da]
                                 ELSE NumbersIn(J, M[D + 1], nb)[j]
  BY ONLY <1>1, <1>2, <1>3, DoubleIs(both, nd2.number, d, t, J) DEF DoubleIs, Numbers
<1>12. /\ si > 0 => BlocksAre(K[M[D]], NumbersIn(J, M[D], ns), ix, si, t, sa)
       /\ \A s \in SectorIds : (si > 0 => s # M[D]) =>
             /\ bl > 0 /\ s = M[D + 1] => K[s] = both
             /\ bl > 0 /\ s # M[D + 1] /\ s = both[i] =>
                  BlocksAre(K[s], NumbersIn(J, s, nl), r, bl, t, da)
             /\ bl > 0 /\ s # M[D + 1] /\ s # both[i] /\ fu > 0 /\ s = both[i + 1] =>
                  BlocksAre(K[s], EmptyList, 0, fu, t, fa)
             /\ bl > 0 /\ s # M[D + 1] /\ s # both[i] /\ (fu > 0 => s # both[i + 1]) => K[s] = J[s]
             /\ bl = 0 => K[s] = J[s]
  BY ONLY <1>1, <1>2, <1>3, ListsAre(K, J, nd2.number, both, d, t) DEF ListsAre, Numbers
(* What the file had. *)
<1>13. \A c \in Nat : \A k, m : Has(c, k, m) <=>
      \/ k = "inode" /\ m = 0
      \/ k = "block" /\ m < c
      \/ k = "single" /\ m = 0 /\ c > D
      \/ k = "double" /\ m = 0 /\ c > D + L
      \/ k = "list" /\ m * L < c - D - L
  BY ONLY <1>3 DEF Has
<1>14. \A m : /\ At(nd, J, "single", m) = N[D] /\ At(nd2, K, "single", m) = M[D]
              /\ At(nd, J, "double", m) = N[D + 1] /\ At(nd2, K, "double", m) = M[D + 1]
              /\ At(nd, J, "list", m) = J[N[D + 1]][m] /\ At(nd2, K, "list", m) = K[M[D + 1]][m]
              /\ At(nd, J, "inode", m) = At(nd2, K, "inode", m)
              /\ At(nd, J, "block", m) = BlockAt(nd, J, m) /\ At(nd2, K, "block", m) = BlockAt(nd2, K, m)
  BY ONLY <1>1, <1>3, nd2.sector = nd.sector DEF At
<1>15. /\ b > D => N[D] \in map
       /\ b > D + L => N[D + 1] \in map /\ N[D + 1] # N[D]
  <2>1. b > D => Has(b, "single", 0) /\ "single" \in Kind
    BY ONLY <1>6, <1>13 DEF Kind
  <2>2. b > D + L => Has(b, "double", 0) /\ "double" \in Kind /\ b > D
    BY ONLY <1>3, <1>6, <1>13 DEF Kind
  <2> QED
    BY ONLY <1>1, <1>14, <2>1, <2>2, Reaches(nd, J, map), Apart(nd, J) DEF Reaches, Apart
<1>16. ASSUME NEW q \in Nat, q * L < b - D - L
       PROVE  /\ J[N[D + 1]][q] \in map /\ J[N[D + 1]][q] # N[D] /\ J[N[D + 1]][q] # N[D + 1]
              /\ \A p \in Nat : p * L < b - D - L /\ J[N[D + 1]][q] = J[N[D + 1]][p] => p = q
  <2>1. b > D + L /\ b > D
    <3>1. q * L >= 0 /\ q * L \in Int
      BY ONLY <1>3, q \in Nat
    <3> QED
      BY ONLY <1>3, <1>6, <1>16, <3>1
  <2>2. /\ Has(b, "single", 0) /\ Has(b, "double", 0) /\ {"single", "double", "list"} \subseteq Kind
        /\ \A p \in Nat : p * L < b - D - L => Has(b, "list", p)
    BY ONLY <1>6, <1>13, <2>1 DEF Kind
  <2>3. Has(b, "list", q) /\ \A p \in Nat : p * L < b - D - L => Has(b, "list", p)
    BY ONLY <1>16, <2>2, q \in Nat
  <2>4. /\ \A k \in Kind, m \in Nat : Has(b, k, m) => At(nd, J, k, m) \in map
        /\ \A k, l \in Kind, m, p \in Nat :
             Has(b, k, m) /\ Has(b, l, p) /\ At(nd, J, k, m) = At(nd, J, l, p) => k = l /\ m = p
    BY ONLY <1>1, Reaches(nd, J, map), Apart(nd, J) DEF Reaches, Apart
  <2>5. /\ J[N[D + 1]][q] \in map /\ J[N[D + 1]][q] # N[D] /\ J[N[D + 1]][q] # N[D + 1]
        /\ \A p \in Nat : Has(b, "list", p) /\ J[N[D + 1]][q] = J[N[D + 1]][p] => p = q
    <3>1. \A p : At(nd, J, "list", p) = J[N[D + 1]][p]
      BY ONLY <1>14
    <3>2. At(nd, J, "list", q) \in map
      BY ONLY <2>2, <2>3, <2>4, q \in Nat
    <3>3. At(nd, J, "list", q) # At(nd, J, "single", 0) /\ At(nd, J, "list", q) # At(nd, J, "double", 0)
      BY ONLY <2>2, <2>3, <2>4, q \in Nat, 0 \in Nat
    <3>4. \A p \in Nat : Has(b, "list", p) /\ At(nd, J, "list", q) = At(nd, J, "list", p) => p = q
      BY ONLY <2>2, <2>3, <2>4, q \in Nat
    <3> QED
      BY ONLY <1>14, <3>1, <3>2, <3>3, <3>4
  <2> QED
    BY ONLY <2>3, <2>5
(* The sectors taken. *)
<1>17. /\ \A j \in 1 .. n : t[j] \in SectorIds /\ t[j] \notin map
       /\ \A j, k \in 1 .. n : t[j] = t[k] => j = k
  BY ONLY <1>6, Fresh(t, n, map) DEF Fresh
<1>18. /\ ns = 1 => sa \in 1 .. n
       /\ nb = 1 => sa + si + 1 \in 1 .. n /\ sa + si + 1 # sa
       /\ nl = 1 => da \in 1 .. n /\ da # sa /\ (nb = 1 => da # sa + si + 1)
       /\ nf = 1 => fa \in 1 .. n /\ fa # sa /\ fa # sa + si + 1 /\ fa # da
  BY ONLY <1>4, <1>5, <1>6
(* The index sectors after growing. *)
<1>19. /\ si > 0 => b + di = D + ix /\ b < D + L /\ (b > D => ns = 0) /\ (bl > 0 => nb = 1)
       /\ bl > 0 /\ nb = 0 => di = 0 /\ si = 0 /\ be = b - D - L /\ b > D + L /\ ns = 0
       /\ b > D => di = 0 /\ ns = 0
       /\ b > D + L => si = 0 /\ nb = 0
       /\ bl > 0 /\ nl = 0 => nb = 0 /\ r > 0
       /\ bl > 0 /\ ns = 0 => b > D
       /\ bl > 0 /\ nb = 1 => iL = 0 /\ i = 0 /\ r = 0
       /\ si > 0 /\ ns = 0 => b > D
  <2>1. i > 0 => iL >= L
    BY ONLY <1>4, <1>7
  <2> QED
    BY ONLY <1>3, <1>4, <1>5, <1>6, <2>1
<1>20. /\ M[D] = IF ns = 1 THEN t[sa] ELSE N[D]
       /\ M[D + 1] = IF nb = 1 THEN t[sa + si + 1] ELSE N[D + 1]
       /\ M[D] \in SectorIds /\ M[D + 1] \in SectorIds
       /\ b > D => M[D] = N[D]
       /\ b > D + L => M[D + 1] = N[D + 1]
  <2>1. D \in 0 .. Direct + 1 /\ D + 1 \in 0 .. Direct + 1
    BY ONLY <1>3
  <2>2. M[D] \in SectorIds /\ M[D + 1] \in SectorIds
    BY ONLY <1>1, <2>1
  <2> QED
    BY ONLY <1>4, <1>10, <1>19, <2>2
<1>21. bl > 0 => M[D + 1] # M[D]
  <2>1. CASE nb = 1 /\ ns = 1
    BY ONLY <1>17, <1>18, <1>20, <2>1
  <2>2. CASE nb = 1 /\ ns = 0
    BY ONLY <1>15, <1>17, <1>18, <1>19, <1>20, <2>2
  <2>3. CASE nb = 0
    BY ONLY <1>15, <1>19, <1>20, <2>3
  <2> QED
    BY ONLY <1>4, <2>1, <2>2, <2>3
<1>22. ASSUME NEW q \in Nat, bl > 0, q * L < b - D - L
       PROVE  /\ q <= i /\ q \in 0 .. L - 1 /\ nb = 0 /\ (q = i => nl = 0)
              /\ both[q] = J[N[D + 1]][q]
  <2>1. b > D + L
    <3>1. q * L >= 0 /\ q * L \in Int
      BY ONLY <1>3, q \in Nat
    <3> QED
      BY ONLY <1>3, <1>6, <1>22, <3>1
  <2>2. q \in 0 .. L - 1
    BY ONLY <1>9, <1>22, q \in Nat
  <2>3. nb = 0 /\ be = b - D - L
    BY ONLY <1>19, <1>22, <2>1
  <2>4. q <= i /\ (q = i => r > 0)
    BY ONLY <1>3, <1>4, <1>6, <1>7, <1>22, <2>3, q \in Nat
  <2>5. q = i => nl = 0
    BY ONLY <1>4, <1>5, <2>4
  <2>6. both[q] = NumbersIn(J, M[D + 1], nb)[q]
    <3>1. ~(nf = 1 /\ q = i + 1) /\ ~(nl = 1 /\ q = i)
      BY ONLY <1>4, <2>4, <2>5, q \in Nat
    <3> QED
      BY ONLY <1>11, <2>2, <3>1
  <2>7. NumbersIn(J, M[D + 1], nb)[q] = J[N[D + 1]][q]
    BY ONLY <1>20, <2>1, <2>3 DEF NumbersIn
  <2> QED
    BY ONLY <2>2, <2>3, <2>4, <2>5, <2>6, <2>7
(* Either the list i is one that the file had, or it is the sector taken. *)
<1>23. bl > 0 => /\ nl = 0 => i \in Nat /\ i * L < b - D - L
                 /\ nl = 1 => both[i] = t[da]
                 /\ both[i] \in SectorIds
  <2> SUFFICES ASSUME bl > 0 PROVE /\ nl = 0 => i \in Nat /\ i * L < b - D - L
                                   /\ nl = 1 => both[i] = t[da]
                                   /\ both[i] \in SectorIds
    OBVIOUS
  <2>1. nl = 0 => i \in Nat /\ i * L < b - D - L
    BY ONLY <1>3, <1>4, <1>5, <1>6, <1>7, <1>19, bl > 0
  <2>2. nl = 1 => both[i] = t[da]
    <3>1. i \in 0 .. L - 1 /\ i # i + 1
      BY ONLY <1>4, <1>8, bl > 0
    <3> QED
      BY ONLY <1>11, <3>1
  <2>3. both[i] \in SectorIds
    BY ONLY <1>3, <1>8, bl > 0, DoubleIs(both, nd2.number, d, t, J) DEF DoubleIs
  <2> QED
    BY ONLY <2>1, <2>2, <2>3
<1>24. fu > 0 => both[i + 1] = t[fa] /\ both[i + 1] \in SectorIds
  BY ONLY <1>5, <1>8, <1>11, <1>17, <1>18
<1>25. bl > 0 => both[i] # M[D] /\ both[i] # M[D + 1]
  <2> SUFFICES ASSUME bl > 0 PROVE both[i] # M[D] /\ both[i] # M[D + 1]
    OBVIOUS
  <2>1. CASE nl = 0
    <3>1. both[i] = J[N[D + 1]][i] /\ i \in Nat /\ i * L < b - D - L /\ nb = 0 /\ ns = 0
      BY ONLY <1>19, <1>22, <1>23, <2>1, bl > 0
    <3> QED
      BY ONLY <1>16, <1>20, <3>1
  <2>2. CASE nl = 1
    <3>1. both[i] = t[da] /\ da \in 1 .. n
      BY ONLY <1>18, <1>23, <2>2, bl > 0
    <3>2. t[da] # M[D]
      <4>1. CASE ns = 1
        BY ONLY <1>17, <1>18, <1>20, <2>2, <3>1, <4>1
      <4>2. CASE ns = 0
        BY ONLY <1>15, <1>17, <1>19, <1>20, <3>1, <4>2, bl > 0
      <4> QED
        BY ONLY <1>4, <4>1, <4>2
    <3>3. t[da] # M[D + 1]
      <4>1. CASE nb = 1
        BY ONLY <1>17, <1>18, <1>20, <2>2, <3>1, <4>1
      <4>2. CASE nb = 0
        BY ONLY <1>15, <1>17, <1>19, <1>20, <3>1, <4>2, bl > 0
      <4> QED
        BY ONLY <1>4, <4>1, <4>2
    <3> QED
      BY ONLY <3>1, <3>2, <3>3
  <2> QED
    BY ONLY <1>4, <2>1, <2>2
<1>26. fu > 0 => both[i + 1] # M[D] /\ both[i + 1] # M[D + 1] /\ both[i + 1] # both[i]
  <2> SUFFICES ASSUME fu > 0 PROVE both[i + 1] # M[D] /\ both[i + 1] # M[D + 1] /\ both[i + 1] # both[i]
    OBVIOUS
  <2>0. both[i + 1] = t[fa]
    BY ONLY <1>24, fu > 0
  <2>1. bl > 0 /\ nf = 1 /\ fa \in 1 .. n
    BY ONLY <1>4, <1>5, <1>18, fu > 0
  <2>2. t[fa] # M[D]
    <3>1. CASE ns = 1
      BY ONLY <1>17, <1>18, <1>20, <2>1, <3>1
    <3>2. CASE ns = 0
      BY ONLY <1>15, <1>17, <1>19, <1>20, <2>1, <3>2
    <3> QED
      BY ONLY <1>4, <3>1, <3>2
  <2>3. t[fa] # M[D + 1]
    <3>1. CASE nb = 1
      BY ONLY <1>17, <1>18, <1>20, <2>1, <3>1
    <3>2. CASE nb = 0
      BY ONLY <1>15, <1>17, <1>19, <1>20, <2>1, <3>2
    <3> QED
      BY ONLY <1>4, <3>1, <3>2
  <2>4. CASE nl = 0
    <3>1. both[i] = J[N[D + 1]][i] /\ i \in Nat /\ i * L < b - D - L
      BY ONLY <1>22, <1>23, <2>1, <2>4
    <3> QED
      BY ONLY <1>16, <1>17, <2>0, <2>1, <2>2, <2>3, <3>1
  <2>5. CASE nl = 1
    BY ONLY <1>17, <1>18, <1>23, <2>0, <2>1, <2>2, <2>3, <2>5
  <2> QED
    BY ONLY <1>4, <2>4, <2>5
(* What they hold. *)
<1>27. ASSUME NEW o \in 0 .. L - 1
       PROVE  /\ b > D /\ D + o < b => K[M[D]][o] = J[N[D]][o]
              /\ si > 0 /\ ix <= o /\ o < ix + si => K[M[D]][o] = t[sa + o - ix + 1]
  <2>1. CASE si > 0
    <3>1. K[M[D]][o] = IF ix <= o /\ o < ix + si THEN t[sa + o - ix + 1]
                       ELSE NumbersIn(J, M[D], ns)[o]
      BY ONLY <1>3, <1>12, <2>1, o \in 0 .. L - 1 DEF BlocksAre, Fills
    <3>2. b > D /\ D + o < b => ~(ix <= o) /\ ns = 0 /\ M[D] = N[D]
      BY ONLY <1>3, <1>4, <1>6, <1>19, <1>20, <2>1, o \in 0 .. L - 1
    <3>3. ns = 0 => NumbersIn(J, M[D], ns)[o] = J[M[D]][o]
      BY ONLY <1>4 DEF NumbersIn
    <3> QED
      BY ONLY <3>1, <3>2, <3>3
  <2>2. CASE ~(si > 0)
    <3>1. b > D => K[M[D]] = J[M[D]]
      <4>1. b > D => \/ bl = 0
                     \/ M[D] # M[D + 1] /\ M[D] # both[i] /\ (fu > 0 => M[D] # both[i + 1])
        BY ONLY <1>4, <1>21, <1>25, <1>26
      <4> QED
        BY ONLY <1>4, <1>12, <1>20, <2>2, <4>1
    <3> QED
      BY ONLY <1>20, <2>2, <3>1
  <2> QED
    BY ONLY <2>1, <2>2
<1>28. /\ bl > 0 => K[M[D + 1]] = both
       /\ b > D + L => \A q \in Nat : q * L < b - D - L => K[M[D + 1]][q] = J[N[D + 1]][q]
  <2>1. bl > 0 => K[M[D + 1]] = both
    BY ONLY <1>12, <1>20, <1>21
  <2>2. CASE bl > 0
    BY ONLY <1>22, <2>1, <2>2
  <2>3. CASE ~(bl > 0)
    <3>1. bl = 0
      BY ONLY <1>4, <2>3
    <3>2. b > D + L => M[D + 1] = N[D + 1] /\ K[M[D + 1]] = J[M[D + 1]]
      BY ONLY <1>4, <1>12, <1>19, <1>20, <3>1
    <3> QED
      BY ONLY <2>1, <3>2
  <2> QED
    BY ONLY <2>2, <2>3, <2>1
(* A list that the file had keeps the blocks it had. *)
<1>29. ASSUME NEW q \in Nat, NEW p \in 0 .. L - 1, D + L + q * L + p < b
       PROVE  /\ q * L < b - D - L /\ b > D + L
              /\ K[J[N[D + 1]][q]][p] = J[J[N[D + 1]][q]][p]
  <2>1. PICK qL \in Int : qL = q * L /\ qL >= 0
    BY ONLY <1>3, q \in Nat
  <2>2. q * L < b - D - L /\ b > D + L
    BY ONLY <1>3, <1>6, <1>29, <2>1, p \in 0 .. L - 1
  <2> DEFINE s == J[N[D + 1]][q]
  <2>3. si = 0
    BY ONLY <1>19, <2>2
  <2>4. s \in SectorIds
    <3>1. N[D + 1] \in SectorIds /\ q \in 0 .. L - 1
      BY ONLY <1>9, <1>20, <2>2, q \in Nat
    <3> QED
      BY ONLY <1>3, <3>1, J \in Index DEF Index
  <2>5. K[s][p] = J[s][p]
    <3> HIDE DEF s
    <3>5. CASE bl = 0
      BY ONLY <1>4, <1>12, <2>2, <2>3, <2>4, <3>5
    <3>6. CASE bl > 0
      <4>1. s = both[q] /\ q <= i /\ (q = i => nl = 0) /\ nb = 0
        BY ONLY <1>22, <2>2, <3>6, q \in Nat DEF s
      <4>2. s # M[D + 1]
        BY ONLY <1>16, <1>20, <2>2, q \in Nat DEF s
      <4>3. CASE q = i
        <5>1. K[s][p] = IF r <= p /\ p < r + bl THEN t[da + p - r + 1] ELSE NumbersIn(J, s, nl)[p]
          BY ONLY <1>3, <1>4, <1>12, <2>3, <2>4, <3>6, <4>1, <4>2, <4>3, p \in 0 .. L - 1 DEF BlocksAre, Fills
        <5>2. ~(r <= p)
          BY ONLY <1>3, <1>4, <1>6, <1>7, <1>19, <1>29, <2>1, <3>6, <4>1, <4>3, p \in 0 .. L - 1
        <5> QED
          BY ONLY <4>1, <4>3, <5>1, <5>2 DEF NumbersIn
      <4>4. CASE q < i
        <5>1. s # both[i]
          <6>1. CASE nl = 1
            BY ONLY <1>16, <1>17, <1>18, <1>23, <2>2, <3>6, <6>1, q \in Nat DEF s
          <6>2. CASE nl = 0
            <7>1. i \in Nat /\ i * L < b - D - L /\ both[i] = J[N[D + 1]][i] /\ q # i
              BY ONLY <1>4, <1>22, <1>23, <3>6, <4>4, <6>2, q \in Nat
            <7> QED
              BY ONLY <1>16, <2>2, <7>1, q \in Nat DEF s
          <6> QED
            BY ONLY <1>4, <6>1, <6>2
        <5>2. fu > 0 => s # both[i + 1]
          BY ONLY <1>5, <1>16, <1>17, <1>18, <1>24, <2>2, q \in Nat DEF s
        <5>3. si > 0 => s # M[D]
          BY ONLY <1>4, <2>3
        <5> QED
          BY ONLY <1>12, <2>4, <3>6, <4>2, <5>1, <5>2, <5>3
      <4> QED
        BY ONLY <1>4, <4>1, <4>3, <4>4, q \in Nat
    <3> QED
      BY ONLY <1>4, <3>5, <3>6
  <2> QED
    BY ONLY <2>2, <2>5 DEF s
(* The new blocks of the list that had room, and of the further one. *)
<1>30. ASSUME bl > 0, NEW p \in 0 .. L - 1, r <= p, p < r + bl PROVE K[both[i]][p] = t[da + p - r + 1]
  <2>1. BlocksAre(K[both[i]], NumbersIn(J, both[i], nl), r, bl, t, da)
    BY ONLY <1>12, <1>23, <1>25, <1>30
  <2> QED
    BY ONLY <1>3, <1>30, <2>1, p \in 0 .. L - 1 DEF BlocksAre, Fills
<1>31. ASSUME fu > 0, NEW p \in 0 .. L - 1, p < fu PROVE K[both[i + 1]][p] = t[fa + p + 1]
  <2>1. BlocksAre(K[both[i + 1]], EmptyList, 0, fu, t, fa)
    BY ONLY <1>5, <1>12, <1>24, <1>26, <1>31
  <2>2. 0 <= p /\ p < 0 + fu /\ fa + p - 0 + 1 = fa + p + 1
    BY ONLY <1>4, <1>31, p \in 0 .. L - 1
  <2> QED
    BY ONLY <1>3, <1>31, <2>1, <2>2, p \in 0 .. L - 1 DEF BlocksAre, Fills
<1>32. ASSUME NEW k \in Kind, NEW m \in Nat, Has(b, k, m) PROVE At(nd2, K, k, m) = At(nd, J, k, m)
  <2>1. CASE k = "inode"
    BY ONLY <1>14, <2>1
  <2>2. CASE k = "single"
    BY ONLY <1>6, <1>13, <1>14, <1>20, <1>32, <2>2
  <2>3. CASE k = "double"
    BY ONLY <1>6, <1>13, <1>14, <1>20, <1>32, <2>3
  <2>4. CASE k = "list"
    <3>1. m * L < b - D - L
      BY ONLY <1>6, <1>13, <1>32, <2>4
    <3>2. b > D + L
      <4>1. m * L \in Int /\ m * L >= 0
        BY ONLY <1>3, m \in Nat
      <4> QED
        BY ONLY <1>3, <1>6, <3>1, <4>1
    <3>3. K[M[D + 1]][m] = J[N[D + 1]][m]
      BY ONLY <1>28, <3>1, <3>2, m \in Nat
    <3> QED
      BY ONLY <1>14, <2>4, <3>3
  <2>5. CASE k = "block"
    <3>1. m < b
      BY ONLY <1>6, <1>13, <1>32, <2>5
    <3>2. CASE m < D
      <4>1. M[m] = N[m]
        BY ONLY <1>6, <1>10, <3>1, <3>2, m \in Nat
      <4> QED
        BY ONLY <1>1, <1>3, <1>14, <2>5, <3>2, <4>1 DEF BlockAt
    <3>3. ASSUME NEW o \in 0 .. L - 1, m = D + o PROVE At(nd2, K, k, m) = At(nd, J, k, m)
      <4>1. ~(m < D) /\ m < D + L /\ m - D = o /\ b > D /\ D + o < b
        BY ONLY <1>3, <1>6, <3>1, <3>3, o \in 0 .. L - 1
      <4>2. BlockAt(nd, J, m) = J[N[D]][o] /\ BlockAt(nd2, K, m) = K[M[D]][o]
        BY ONLY <1>1, <1>3, <4>1 DEF BlockAt
      <4> QED
        BY ONLY <1>14, <1>27, <2>5, <4>1, <4>2, o \in 0 .. L - 1
    <3>4. ASSUME NEW q \in Nat, NEW p \in 0 .. L - 1, m = D + L + q * L + p
          PROVE  At(nd2, K, k, m) = At(nd, J, k, m)
      <4>1. BlockAt(nd, J, m) = J[J[N[D + 1]][q]][p] /\ BlockAt(nd2, K, m) = K[K[M[D + 1]][q]][p]
        <5>1. m \in Int /\ q \in Int /\ q >= 0 /\ p \in 0 .. ListSize - 1 /\ m = Direct + ListSize + q * ListSize + p
          BY ONLY <1>3, <3>4, m \in Nat, q \in Nat, p \in 0 .. L - 1
        <5>2. \A a, I : BlockAt(a, I, m) = I[I[a.number[Direct + 1]][q]][p]
          BY ONLY <5>1, BlockInList
        <5> QED
          BY ONLY <1>1, <1>3, <5>2
      <4>2. D + L + q * L + p < b
        BY ONLY <3>1, <3>4
      <4>3. /\ q * L < b - D - L /\ b > D + L
            /\ K[J[N[D + 1]][q]][p] = J[J[N[D + 1]][q]][p]
        BY ONLY <1>29, <4>2, q \in Nat, p \in 0 .. L - 1
      <4>4. K[M[D + 1]][q] = J[N[D + 1]][q]
        BY ONLY <1>28, <4>3, q \in Nat
      <4> QED
        BY ONLY <1>14, <2>5, <4>1, <4>3, <4>4
    <3>5. \/ m < D
          \/ \E o \in 0 .. L - 1 : m = D + o
          \/ \E q \in Nat, p \in 0 .. L - 1 : m = D + L + q * L + p
      <4>1. \/ m < Direct
            \/ \E o \in 0 .. ListSize - 1 : m = Direct + o
            \/ \E q \in Nat, p \in 0 .. ListSize - 1 : m = Direct + ListSize + q * ListSize + p
        BY ONLY BlockCases, m \in Nat
      <4>2. D = Direct /\ L = ListSize
        BY ONLY <1>3
      <4> QED
        BY ONLY <4>1, <4>2
    <3> QED
      BY ONLY <3>2, <3>3, <3>4, <3>5
  <2> QED
    BY ONLY <2>1, <2>2, <2>3, <2>4, <2>5, k \in Kind DEF Kind
<1>33. ASSUME NEW j \in Int, NEW k \in Kind, NEW m \in Nat, Place(d, b, j, k, m)
       PROVE  At(nd2, K, k, m) = t[j]
  <2>1. \/ k = "block" /\ j \in 1 .. di /\ m = b + j - 1
        \/ k = "single" /\ m = 0 /\ ns = 1 /\ j = sa
        \/ k = "block" /\ j - sa \in 1 .. si /\ m = D + ix + (j - sa) - 1
        \/ k = "double" /\ m = 0 /\ nb = 1 /\ j = sa + si + 1
        \/ k = "list" /\ m = i /\ nl = 1 /\ j = da
        \/ k = "block" /\ j - da \in 1 .. bl /\ m = D + L + be + (j - da) - 1
        \/ k = "list" /\ m = i + 1 /\ nf = 1 /\ j = fa
        \/ k = "block" /\ j - fa \in 1 .. fu /\ m = D + L + (i + 1) * L + (j - fa) - 1
    <3>1. /\ SingleAt(d) = sa /\ DoubleAt(d) = da /\ FurtherAt(d) = fa /\ d.before \div ListSize = i
          /\ d.direct = di /\ d.single = si /\ d.double = bl /\ d.further = fu
          /\ d.index = ix /\ d.before = be /\ d.newSingle = ns /\ d.newDouble = nb
          /\ d.newList = nl /\ d.newFurther = nf /\ Direct = D /\ ListSize = L
      BY ONLY <1>2, <1>3 DEF Numbers
    <3> QED
      BY ONLY <1>33, <3>1 DEF Place
  <2>2. CASE k = "block" /\ j \in 1 .. di /\ m = b + j - 1
    <3>1. m \in 0 .. D - 1 /\ m < D /\ b <= m /\ m < b + di /\ m - b + 1 = j
      BY ONLY <1>3, <1>4, <1>5, <1>6, <2>2, m \in Nat, j \in Int
    <3>2. M[m] = t[j]
      BY ONLY <1>10, <3>1
    <3> QED
      BY ONLY <1>1, <1>3, <1>14, <2>2, <3>1, <3>2 DEF BlockAt
  <2>3. CASE k = "single" /\ ns = 1 /\ j = sa
    BY ONLY <1>14, <1>20, <2>3
  <2>4. CASE k = "block" /\ j - sa \in 1 .. si /\ m = D + ix + (j - sa) - 1
    <3>1. PICK o \in 0 .. L - 1 : m = D + o /\ si > 0 /\ ix <= o /\ o < ix + si /\ sa + o - ix + 1 = j
      <4>1. ix + (j - sa) - 1 \in 0 .. L - 1 /\ si > 0
        BY ONLY <1>3, <1>4, <1>5, <1>6, <2>4, m \in Nat, j \in Int
      <4>2. LET o == ix + (j - sa) - 1
            IN  m = D + o /\ ix <= o /\ o < ix + si /\ sa + o - ix + 1 = j
        BY ONLY <1>3, <1>4, <1>5, <1>6, <2>4, m \in Nat, j \in Int
      <4> QED
        BY ONLY <4>1, <4>2
    <3>2. ~(m < D) /\ m < D + L /\ m - D = o
      BY ONLY <1>3, <3>1
    <3>3. BlockAt(nd2, K, m) = K[M[D]][o]
      BY ONLY <1>1, <1>3, <3>2 DEF BlockAt
    <3> QED
      BY ONLY <1>14, <1>27, <2>4, <3>1, <3>3
  <2>5. CASE k = "double" /\ nb = 1 /\ j = sa + si + 1
    BY ONLY <1>14, <1>20, <2>5
  <2>6. CASE k = "list" /\ m = i /\ nl = 1 /\ j = da
    <3>1. bl > 0
      BY ONLY <1>5, <2>6
    <3> QED
      BY ONLY <1>14, <1>23, <1>28, <2>6, <3>1
  <2>7. CASE k = "block" /\ j - da \in 1 .. bl /\ m = D + L + be + (j - da) - 1
    <3>1. bl > 0 /\ i \in Nat
      BY ONLY <1>4, <1>5, <2>7, j \in Int
    <3>2. PICK p \in 0 .. L - 1 : p = r + (j - da) - 1 /\ r <= p /\ p < r + bl /\ da + p - r + 1 = j
      <4>1. r + (j - da) - 1 \in 0 .. L - 1
        BY ONLY <1>3, <1>4, <1>5, <2>7, <3>1, j \in Int
      <4>2. LET p == r + (j - da) - 1 IN r <= p /\ p < r + bl /\ da + p - r + 1 = j
        BY ONLY <1>3, <1>4, <1>5, <2>7, <3>1, j \in Int
      <4> QED
        BY ONLY <4>1, <4>2
    <3>3. m = D + L + i * L + p
      BY ONLY <1>3, <1>4, <2>7, <3>2, j \in Int
    <3>4. BlockAt(nd2, K, m) = K[K[M[D + 1]][i]][p]
      <4>1. m \in Int /\ i \in Int /\ i >= 0 /\ p \in 0 .. ListSize - 1 /\ m = Direct + ListSize + i * ListSize + p
        BY ONLY <1>3, <3>1, <3>3, m \in Nat, p \in 0 .. L - 1
      <4>2. \A a, I : BlockAt(a, I, m) = I[I[a.number[Direct + 1]][i]][p]
        BY ONLY <4>1, BlockInList
      <4> QED
        BY ONLY <1>1, <1>3, <4>2
    <3> QED
      BY ONLY <1>14, <1>28, <1>30, <2>7, <3>1, <3>2, <3>4
  <2>8. CASE k = "list" /\ m = i + 1 /\ nf = 1 /\ j = fa
    <3>1. bl > 0 /\ fu > 0
      BY ONLY <1>5, <2>8
    <3> QED
      BY ONLY <1>14, <1>24, <1>28, <2>8, <3>1
  <2>9. CASE k = "block" /\ j - fa \in 1 .. fu /\ m = D + L + (i + 1) * L + (j - fa) - 1
    <3>1. bl > 0 /\ fu > 0 /\ i + 1 \in Nat
      BY ONLY <1>4, <1>5, <2>9, j \in Int
    <3>2. PICK p \in 0 .. L - 1 : p = (j - fa) - 1 /\ p < fu /\ fa + p + 1 = j
      <4>1. (j - fa) - 1 \in 0 .. L - 1
        BY ONLY <1>3, <1>4, <1>5, <2>9, <3>1, j \in Int
      <4>2. LET p == (j - fa) - 1 IN p < fu /\ fa + p + 1 = j
        BY ONLY <1>3, <1>4, <1>5, <2>9, <3>1, j \in Int
      <4> QED
        BY ONLY <4>1, <4>2
    <3>3. PICK i1 \in Nat : i1 = i + 1
      BY ONLY <3>1
    <3>4. m = D + L + i1 * L + p
      <4>1. i1 * L \in Int
        BY ONLY <1>3, i1 \in Nat
      <4>2. m = D + L + i1 * L + (j - fa) - 1
        BY ONLY <2>9, <3>3
      <4> QED
        BY ONLY <1>3, <1>4, <3>2, <4>1, <4>2, j \in Int
    <3>5. BlockAt(nd2, K, m) = K[K[M[D + 1]][i1]][p]
      <4>1. m \in Int /\ i1 \in Int /\ i1 >= 0 /\ p \in 0 .. ListSize - 1 /\ m = Direct + ListSize + i1 * ListSize + p
        BY ONLY <1>3, <3>4, m \in Nat, i1 \in Nat, p \in 0 .. L - 1
      <4>2. \A a, I : BlockAt(a, I, m) = I[I[a.number[Direct + 1]][i1]][p]
        BY ONLY <4>1, BlockInList
      <4> QED
        BY ONLY <1>1, <1>3, <4>2
    <3> QED
      BY ONLY <1>14, <1>28, <1>31, <2>9, <3>1, <3>2, <3>3, <3>5
  <2> QED
    BY ONLY <2>1, <2>2, <2>3, <2>4, <2>5, <2>6, <2>7, <2>8, <2>9
<1>34. ASSUME NEW s \in map, s \in SectorIds,
              \A k \in Indices, m \in Nat : ~(Has(b, k, m) /\ At(nd, J, k, m) = s)
       PROVE  K[s] = J[s]
  <2>1. /\ b > D => s # N[D]
        /\ b > D + L => s # N[D + 1]
        /\ \A q \in Nat : q * L < b - D - L => s # J[N[D + 1]][q]
    <3>1. b > D => Has(b, "single", 0)
      BY ONLY <1>6, <1>13
    <3>2. b > D + L => Has(b, "double", 0)
      BY ONLY <1>6, <1>13
    <3>3. \A q \in Nat : q * L < b - D - L => Has(b, "list", q)
      BY ONLY <1>6, <1>13
    <3>4. "single" \in Indices /\ "double" \in Indices /\ "list" \in Indices /\ 0 \in Nat
      BY DEF Indices
    <3>5. b > D => s # N[D]
      BY ONLY <1>14, <1>34, <3>1, <3>4
    <3>6. b > D + L => s # N[D + 1]
      BY ONLY <1>14, <1>34, <3>2, <3>4
    <3>7. \A q \in Nat : Has(b, "list", q) => s # J[N[D + 1]][q]
      BY ONLY <1>14, <1>34, <3>4
    <3> QED
      BY ONLY <3>3, <3>5, <3>6, <3>7
  <2>2. si > 0 => s # M[D]
    <3>1. CASE ns = 1
      BY ONLY <1>17, <1>18, <1>20, <3>1, s \in map
    <3>2. CASE ns = 0
      BY ONLY <1>19, <1>20, <2>1, <3>2
    <3> QED
      BY ONLY <1>4, <3>1, <3>2
  <2>3. CASE bl = 0
    BY ONLY <1>4, <1>12, <1>34, <2>2, <2>3
  <2>4. CASE bl > 0
    <3>1. s # M[D + 1]
      <4>1. CASE nb = 1
        BY ONLY <1>17, <1>18, <1>20, <4>1, s \in map
      <4>2. CASE nb = 0
        BY ONLY <1>19, <1>20, <2>1, <2>4, <4>2
      <4> QED
        BY ONLY <1>4, <4>1, <4>2
    <3>2. s # both[i]
      <4>1. CASE nl = 1
        BY ONLY <1>17, <1>18, <1>23, <2>4, <4>1, s \in map
      <4>2. CASE nl = 0
        <5>1. i \in Nat /\ i * L < b - D - L /\ both[i] = J[N[D + 1]][i]
          BY ONLY <1>22, <1>23, <2>4, <4>2
        <5> QED
          BY ONLY <2>1, <5>1
      <4> QED
        BY ONLY <1>4, <4>1, <4>2
    <3>3. fu > 0 => s # both[i + 1]
      BY ONLY <1>5, <1>17, <1>18, <1>24, s \in map
    <3> QED
      BY ONLY <1>12, <1>34, <2>2, <2>4, <3>1, <3>2, <3>3
  <2> QED
    BY ONLY <1>4, <2>3, <2>4
<1> QED
  BY ONLY <1>1, <1>32, <1>33, <1>34 DEF Grew

(* What a file reaches depends on its inode and its index sectors only. *)
LEMMA ReachedThrough ==
  ASSUME NEW nd, nd.blocks \in Nat, NEW J, NEW K,
         \A k \in Indices, m \in Nat : Has(nd.blocks, k, m) => K[At(nd, J, k, m)] = J[At(nd, J, k, m)]
  PROVE  \A k \in Kind, m \in Nat : Has(nd.blocks, k, m) => At(nd, K, k, m) = At(nd, J, k, m)
<1>1. PICK L \in Nat \ {0}, D \in Nat \ {0}, b \in Nat : L = ListSize /\ D = Direct /\ b = nd.blocks
  BY InodeAssumption
<1>2. /\ b > D => Has(b, "single", 0)
      /\ b > D + L => Has(b, "double", 0)
      /\ \A q \in Nat : q * L < b - D - L => Has(b, "list", q)
  BY ONLY <1>1 DEF Has
<1>3. \A I, m : /\ At(nd, I, "single", m) = nd.number[D]
                /\ At(nd, I, "double", m) = nd.number[D + 1]
                /\ At(nd, I, "list", m) = I[nd.number[D + 1]][m]
                /\ At(nd, I, "block", m) = BlockAt(nd, I, m)
                /\ At(nd, I, "inode", m) = nd.sector
  BY ONLY <1>1 DEF At
<1>4. "single" \in Indices /\ "double" \in Indices /\ "list" \in Indices /\ 0 \in Nat
  BY DEF Indices
<1>5. /\ b > D => K[nd.number[D]] = J[nd.number[D]]
      /\ b > D + L => K[nd.number[D + 1]] = J[nd.number[D + 1]]
      /\ \A q \in Nat : q * L < b - D - L => K[J[nd.number[D + 1]][q]] = J[J[nd.number[D + 1]][q]]
  <2>1. \A k \in Indices, m \in Nat : Has(b, k, m) => K[At(nd, J, k, m)] = J[At(nd, J, k, m)]
    BY <1>1
  <2>2. \A q \in Nat : Has(b, "list", q) => K[J[nd.number[D + 1]][q]] = J[J[nd.number[D + 1]][q]]
    BY ONLY <1>3, <1>4, <2>1
  <2>3. /\ b > D => K[nd.number[D]] = J[nd.number[D]]
        /\ b > D + L => K[nd.number[D + 1]] = J[nd.number[D + 1]]
    BY ONLY <1>2, <1>3, <1>4, <2>1
  <2> QED
    BY ONLY <1>2, <2>2, <2>3
<1>6. ASSUME NEW k \in Kind, NEW m \in Nat, Has(b, k, m) PROVE At(nd, K, k, m) = At(nd, J, k, m)
  <2>1. CASE k \in {"inode", "single", "double"}
    BY ONLY <1>3, <2>1
  <2>2. CASE k = "list"
    <3>1. b > D + L
      <4>1. m * L < b - D - L
        BY ONLY <1>1, <1>6, <2>2 DEF Has
      <4>2. m * L \in Int /\ m * L >= 0
        BY ONLY <1>1, m \in Nat
      <4> QED
        BY ONLY <1>1, <4>1, <4>2
    <3> QED
      BY ONLY <1>3, <1>5, <2>2, <3>1
  <2>3. CASE k = "block"
    <3>1. m < b
      BY ONLY <1>6, <2>3 DEF Has
    <3>2. CASE m < D
      BY ONLY <1>1, <1>3, <2>3, <3>2 DEF BlockAt
    <3>3. ASSUME NEW o \in 0 .. L - 1, m = D + o PROVE At(nd, K, k, m) = At(nd, J, k, m)
      <4>1. ~(m < D) /\ m < D + L /\ m - D = o /\ b > D
        BY ONLY <1>1, <3>1, <3>3, o \in 0 .. L - 1
      <4>2. BlockAt(nd, J, m) = J[nd.number[D]][o] /\ BlockAt(nd, K, m) = K[nd.number[D]][o]
        BY ONLY <1>1, <4>1 DEF BlockAt
      <4> QED
        BY ONLY <1>3, <1>5, <2>3, <4>1, <4>2
    <3>4. ASSUME NEW q \in Nat, NEW p \in 0 .. L - 1, m = D + L + q * L + p
          PROVE  At(nd, K, k, m) = At(nd, J, k, m)
      <4>1. \A I : BlockAt(nd, I, m) = I[I[nd.number[D + 1]][q]][p]
        <5>1. m \in Int /\ q \in Int /\ q >= 0 /\ p \in 0 .. ListSize - 1 /\ m = Direct + ListSize + q * ListSize + p
          BY ONLY <1>1, <3>4, m \in Nat, q \in Nat, p \in 0 .. L - 1
        <5>2. \A a, I : BlockAt(a, I, m) = I[I[a.number[Direct + 1]][q]][p]
          BY ONLY <5>1, BlockInList
        <5> QED
          BY ONLY <1>1, <5>2
      <4>2. q * L < b - D - L /\ b > D + L
        <5>1. q * L \in Int /\ q * L >= 0
          BY ONLY <1>1, q \in Nat
        <5> QED
          BY ONLY <1>1, <3>1, <3>4, <5>1, p \in 0 .. L - 1
      <4>3. K[nd.number[D + 1]] = J[nd.number[D + 1]] /\ K[J[nd.number[D + 1]][q]] = J[J[nd.number[D + 1]][q]]
        BY ONLY <1>5, <4>2, q \in Nat
      <4> QED
        BY ONLY <1>3, <2>3, <4>1, <4>3
    <3>5. \/ m < D
          \/ \E o \in 0 .. L - 1 : m = D + o
          \/ \E q \in Nat, p \in 0 .. L - 1 : m = D + L + q * L + p
      <4>1. \/ m < Direct
            \/ \E o \in 0 .. ListSize - 1 : m = Direct + o
            \/ \E q \in Nat, p \in 0 .. ListSize - 1 : m = Direct + ListSize + q * ListSize + p
        BY ONLY BlockCases, m \in Nat
      <4>2. D = Direct /\ L = ListSize
        BY ONLY <1>1
      <4> QED
        BY ONLY <4>1, <4>2
    <3> QED
      BY ONLY <3>2, <3>3, <3>4, <3>5
  <2> QED
    BY ONLY <2>1, <2>2, <2>3, k \in Kind DEF Kind
<1> QED
  BY ONLY <1>1, <1>6

(* The file f gets the sectors T for what it did not have, and no index     *)
(* sector in map is written but its own.                                    *)
Obtains(f, S, N, N2, J, K, map, T) ==
  /\ \A g \in S \ {f} : N2[g] = N[g]
  /\ \A k \in Kind, m \in Nat : Has(N[f].blocks, k, m) =>
       Has(N2[f].blocks, k, m) /\ At(N2[f], K, k, m) = At(N[f], J, k, m)
  /\ \A k \in Kind, m \in Nat : Has(N2[f].blocks, k, m) =>
       Has(N[f].blocks, k, m) \/ At(N2[f], K, k, m) \in T
  /\ \A k, l \in Kind, m, n \in Nat :
       /\ Has(N2[f].blocks, k, m) /\ ~Has(N[f].blocks, k, m)
       /\ Has(N2[f].blocks, l, n) /\ ~Has(N[f].blocks, l, n)
       /\ At(N2[f], K, k, m) = At(N2[f], K, l, n)
       => k = l /\ m = n
  /\ \A s \in T : \E k \in Kind, m \in Nat : Has(N2[f].blocks, k, m) /\ At(N2[f], K, k, m) = s
  /\ \A s \in map : \/ K[s] = J[s]
                    \/ s \notin SectorIds
                    \/ \E k \in Indices, m \in Nat : Has(N[f].blocks, k, m) /\ At(N[f], J, k, m) = s

(* What the files S had is where it was. *)
Kept(S, N, N2, J, K) ==
  \A g \in S, k \in Kind, m \in Nat : Has(N[g].blocks, k, m) => At(N2[g], K, k, m) = At(N[g], J, k, m)

(* The files keep what they own when one of them gains sectors. *)
LEMMA OwnedGrows ==
  ASSUME NEW S, NEW N, NEW N2, NEW J, NEW K, NEW map, NEW T, NEW f \in S,
         \A g \in S : N[g].blocks \in Nat,
         Owned(S, N, J, map), map \subseteq SectorIds, Reserved \subseteq map, T \cap map = {},
         Obtains(f, S, N, N2, J, K, map, T)
  PROVE  Owned(S, N2, K, map \cup T) /\ Kept(S, N, N2, J, K)
<1> USE DEF Obtains
<1>1. Indices \subseteq Kind
  BY DEF Indices, Kind
<1>2. /\ \A g \in S, k \in Kind, n \in Nat : Has(N[g].blocks, k, n) => At(N[g], J, k, n) \in map \ Reserved
      /\ \A g, h \in S, k, l \in Kind, m, n \in Nat :
           /\ Has(N[g].blocks, k, m) /\ Has(N[h].blocks, l, n)
           /\ At(N[g], J, k, m) = At(N[h], J, l, n)
           => g = h /\ k = l /\ m = n
      /\ \A s \in map : \/ s \in Reserved
                        \/ \E g \in S, k \in Kind, n \in Nat :
                             Has(N[g].blocks, k, n) /\ At(N[g], J, k, n) = s
  BY ONLY Owned(S, N, J, map) DEF Owned
<1>3. ASSUME NEW g \in S, g # f
      PROVE  \A k \in Kind, m \in Nat : Has(N2[g].blocks, k, m) =>
               Has(N[g].blocks, k, m) /\ At(N2[g], K, k, m) = At(N[g], J, k, m)
  <2>1. N2[g] = N[g] /\ N[g].blocks \in Nat
    BY <1>3
  <2>2. ASSUME NEW k \in Indices, NEW m \in Nat, Has(N[g].blocks, k, m)
        PROVE  K[At(N[g], J, k, m)] = J[At(N[g], J, k, m)]
    <3>1. At(N[g], J, k, m) \in map /\ At(N[g], J, k, m) \in SectorIds /\ k \in Kind
      BY ONLY <1>1, <1>2, <2>2, map \subseteq SectorIds, g \in S
    <3>2. \A l \in Kind, n \in Nat : ~(Has(N[f].blocks, l, n) /\ At(N[f], J, l, n) = At(N[g], J, k, m))
      BY ONLY <1>2, <1>3, <2>2, <3>1, f \in S
    <3> QED
      BY <1>1, <3>1, <3>2
  <2>3. \A k \in Kind, m \in Nat : Has(N[g].blocks, k, m) => At(N[g], K, k, m) = At(N[g], J, k, m)
    BY ONLY <2>1, <2>2, ReachedThrough
  <2> QED
    BY ONLY <2>1, <2>3
<1>4. ASSUME NEW g \in S, NEW k \in Kind, NEW m \in Nat, Has(N2[g].blocks, k, m)
      PROVE  \/ Has(N[g].blocks, k, m) /\ At(N2[g], K, k, m) = At(N[g], J, k, m)
             \/ g = f /\ ~Has(N[f].blocks, k, m) /\ At(N2[f], K, k, m) \in T
  BY <1>3, <1>4
<1>5. \A g \in S, k \in Kind, n \in Nat :
        Has(N2[g].blocks, k, n) => At(N2[g], K, k, n) \in (map \cup T) \ Reserved
  BY <1>2, <1>4
<1>6. ASSUME NEW g \in S, NEW h \in S, NEW k \in Kind, NEW l \in Kind, NEW m \in Nat, NEW n \in Nat,
             Has(N2[g].blocks, k, m), Has(N2[h].blocks, l, n), At(N2[g], K, k, m) = At(N2[h], K, l, n)
      PROVE  g = h /\ k = l /\ m = n
  <2>1. \/ Has(N[g].blocks, k, m) /\ At(N2[g], K, k, m) = At(N[g], J, k, m) /\ At(N[g], J, k, m) \in map
        \/ g = f /\ ~Has(N[f].blocks, k, m) /\ At(N2[f], K, k, m) \in T
    BY ONLY <1>2, <1>4, <1>6
  <2>2. \/ Has(N[h].blocks, l, n) /\ At(N2[h], K, l, n) = At(N[h], J, l, n) /\ At(N[h], J, l, n) \in map
        \/ h = f /\ ~Has(N[f].blocks, l, n) /\ At(N2[f], K, l, n) \in T
    BY ONLY <1>2, <1>4, <1>6
  <2>3. CASE Has(N[g].blocks, k, m) /\ Has(N[h].blocks, l, n)
    <3>1. At(N[g], J, k, m) = At(N[h], J, l, n)
      BY ONLY <1>6, <2>1, <2>2, <2>3
    <3> QED
      BY ONLY <1>2, <2>3, <3>1
  <2>4. CASE ~Has(N[g].blocks, k, m) /\ ~Has(N[h].blocks, l, n)
    <3>1. g = f /\ h = f
      BY <2>1, <2>2, <2>4
    <3> QED
      BY <1>6, <2>4, <3>1
  <2>5. CASE Has(N[g].blocks, k, m) /\ ~Has(N[h].blocks, l, n)
    BY <1>6, <2>1, <2>2, <2>5
  <2>6. CASE ~Has(N[g].blocks, k, m) /\ Has(N[h].blocks, l, n)
    BY <1>6, <2>1, <2>2, <2>6
  <2> QED
    BY ONLY <2>3, <2>4, <2>5, <2>6
<1>7. ASSUME NEW s \in map \cup T, s \notin Reserved
      PROVE  \E g \in S, k \in Kind, n \in Nat : Has(N2[g].blocks, k, n) /\ At(N2[g], K, k, n) = s
  <2>1. CASE s \in T
    BY <2>1
  <2>2. CASE s \in map
    <3>1. PICK g \in S, k \in Kind, n \in Nat : Has(N[g].blocks, k, n) /\ At(N[g], J, k, n) = s
      BY ONLY <1>2, <1>7, <2>2
    <3>2. CASE g = f
      BY <3>1, <3>2
    <3>3. CASE g # f
      <4>1. N2[g] = N[g]
        BY <3>3
      <4> QED
        BY <1>3, <3>1, <3>3, <4>1
    <3> QED
      BY ONLY <3>2, <3>3
  <2> QED
    BY <2>1, <2>2
<1>8. \A g \in S, k \in Kind, m \in Nat : Has(N[g].blocks, k, m) => At(N2[g], K, k, m) = At(N[g], J, k, m)
  <2> SUFFICES ASSUME NEW g \in S PROVE \A k \in Kind, m \in Nat :
                 Has(N[g].blocks, k, m) => At(N2[g], K, k, m) = At(N[g], J, k, m)
    OBVIOUS
  <2>1. CASE g = f
    BY <2>1
  <2>2. CASE g # f
    <3>1. N2[g] = N[g]
      BY <2>2
    <3> QED
      BY ONLY <1>3, <2>2, <3>1
  <2> QED
    BY ONLY <2>1, <2>2
<1> QED
  BY ONLY <1>5, <1>6, <1>7, <1>8 DEF Owned, Kept

(* The files S have inodes, of which f's alone changes. *)
HaveInodes(S, N) == \A g \in S : N[g] \in DiskInode
OnlyChanges(f, S, N, N2) == \A g \in S \ {f} : N2[g] = N[g]

(* What a growth g of the file f, from the inodes N to N2, is to achieve. *)
FilesGrown(f, S, N, N2, J, g) ==
  /\ N2[f] \in DiskInode
  /\ g.lists \in Index /\ g.map \subseteq SectorIds /\ Reserved \subseteq g.map
  /\ Owned(S, N2, g.lists, g.map)
  /\ Kept(S, N, N2, J, g.lists)

(* A file grows by all of its new blocks. *)
LEMMA GrowthOwned ==
  ASSUME NEW S, NEW N, NEW N2, NEW J \in Index, NEW map, NEW f \in S, NEW new \in Nat \ {0}, NEW end \in Nat,
         HaveInodes(S, N),
         Owned(S, N, J, map), map \subseteq SectorIds, Reserved \subseteq map,
         new = 1 \/ N[f].blocks = 1,
         N[f].blocks + new <= Direct + ListSize + ListSize * ListSize,
         LeftOut(Division(N[f].blocks, new), new, map) = "none",
         NEW g, g = Grown(N[f], Division(N[f].blocks, new), map, J),
         OnlyChanges(f, S, N, N2),
         N2[f] = [sector |-> N[f].sector, blocks |-> N[f].blocks + new, length |-> end, number |-> g.number]
  PROVE  FilesGrown(f, S, N, N2, J, g)
<1> USE DEF HaveInodes, OnlyChanges
<1> DEFINE d == Division(N[f].blocks, new)
           t == Available(map)
           T == Taken(t, d)
<1>1. PICK b \in Nat \ {0} : b = N[f].blocks
  BY DEF DiskInode
<1>2. d.direct + d.single + d.double + d.further = new /\ ~(Needs(d) > Cardinality(SectorIds \ map))
  BY DEF LeftOut
<1>3. Parts(d, b, new)
  BY <1>1, <1>2, DivisionParts
<1> HIDE DEF d
<1>4. PICK n \in Nat : /\ n = Cardinality(SectorIds \ map) /\ t \in [1 .. n -> SectorIds \ map]
                       /\ \A j, k \in 1 .. n : t[j] = t[k] => j = k
  BY AvailableSectors
<1>5. /\ Needs(d) \in Nat
      /\ \A j \in 1 .. Needs(d) : \E k \in Kind, m \in Nat : Place(d, b, j, k, m)
      /\ \A j \in Int, k \in Kind, m \in Int : Place(d, b, j, k, m) =>
           j \in 1 .. Needs(d) /\ m \in Nat /\ Has(b + new, k, m) /\ ~Has(b, k, m)
      /\ \A j \in Int, k, l \in Kind, m, p \in Int :
           Place(d, b, j, k, m) /\ Place(d, b, j, l, p) => k = l /\ m = p
      /\ \A k \in Kind, m \in Nat : Has(b, k, m) => Has(b + new, k, m)
      /\ \A k \in Kind, m \in Nat : Has(b + new, k, m) => Has(b, k, m) \/ \E j \in Int : Place(d, b, j, k, m)
  <2>1. new \in Nat
    OBVIOUS
  <2> QED
    BY ONLY <1>1, <1>3, <2>1, PlacesTaken
<1>6. Needs(d) <= n
  BY ONLY <1>2, <1>4, <1>5
<1> HIDE DEF t
<1>7. /\ t \in [1 .. n -> SectorIds]
      /\ \A j \in 1 .. n : t[j] \in SectorIds /\ t[j] \notin map
      /\ \A j \in 1 .. Needs(d) : j \in 1 .. n
      /\ T \subseteq SectorIds /\ T \cap map = {}
  <2>1. t \in [1 .. n -> SectorIds] /\ \A j \in 1 .. n : t[j] \in SectorIds /\ t[j] \notin map
    BY ONLY <1>4
  <2>2. \A j \in 1 .. Needs(d) : j \in 1 .. n
    BY ONLY <1>5, <1>6, n \in Nat
  <2> QED
    BY ONLY <2>1, <2>2 DEF Taken
<1>8. /\ g.map = map \cup T
      /\ Grows(g, N[f], d, t, map, J)
  <2>1. d \in Divisions
    BY <1>3 DEF Parts
  <2>2. t = Available(map) /\ Parts(d, N[f].blocks, new) /\ N[f] \in DiskInode
    BY <1>1, <1>3 DEF t
  <2>3. g = Grown(N[f], d, map, J)
    BY DEF d
  <2> DEFINE nd == N[f]
  <2>4. /\ nd \in DiskInode /\ Parts(d, nd.blocks, new) /\ d \in Divisions /\ J \in Index
        /\ n \in Nat /\ t \in [1 .. n -> SectorIds] /\ t = Available(map) /\ Needs(d) <= n
    BY ONLY <1>6, <1>7, <2>1, <2>2, n \in Nat, J \in Index
  <2> HIDE DEF nd
  <2>5. Grows(Grown(nd, d, map, J), nd, d, t, map, J)
    BY ONLY <2>4, GrownIs
  <2> QED
    BY ONLY <2>3, <2>5 DEF nd, Grows
<1>9. PICK both : DoubleIs(both, g.number, d, t, J) /\ ListsAre(g.lists, J, g.number, both, d, t)
  BY ONLY <1>8 DEF Grows
<1>10. g.lists \in Index /\ g.number \in [0 .. Direct + 1 -> SectorIds]
  BY ONLY <1>8, <1>9 DEF ListsAre, NumberIs, Grows
<1>11. N[f] \in DiskInode /\ N2[f] \in DiskInode
  <2>1. N[f] \in DiskInode /\ N[f].sector \in SectorIds /\ N[f].blocks + new \in Nat \ {0}
    BY DEF DiskInode
  <2> QED
    BY <1>10, <2>1 DEF DiskInode
<1>12. N2[f].sector = N[f].sector /\ N2[f].number = g.number /\ N2[f].blocks = b + new
  BY <1>1
<1>13. Reaches(N[f], J, map) /\ Apart(N[f], J)
  <2>1. \A k \in Kind, m \in Nat : Has(N[f].blocks, k, m) => At(N[f], J, k, m) \in map
    BY ONLY Owned(S, N, J, map), f \in S DEF Owned
  <2>2. ASSUME NEW k \in Kind, NEW l \in Kind, NEW m \in Nat, NEW p \in Nat,
               Has(N[f].blocks, k, m), Has(N[f].blocks, l, p), At(N[f], J, k, m) = At(N[f], J, l, p)
        PROVE  k = l /\ m = p
    BY ONLY Owned(S, N, J, map), <2>2, f \in S DEF Owned
  <2> QED
    BY ONLY <2>1, <2>2 DEF Reaches, Apart
<1>14. Grew(N[f], N2[f], d, J, g.lists, t, map)
  <2>1. /\ new \in Nat /\ Parts(d, N[f].blocks, new)
        /\ N[f].blocks + new <= Direct + ListSize + ListSize * ListSize
    BY <1>1, <1>3
  <2>2. NumberIs(N2[f].number, N[f], d, t) /\ DoubleIs(both, N2[f].number, d, t, J)
        /\ ListsAre(g.lists, J, N2[f].number, both, d, t)
    BY ONLY <1>8, <1>9, <1>12 DEF Grows
  <2>3. Fresh(t, n, map)
    BY ONLY <1>4, <1>7 DEF Fresh
  <2> QED
    BY ONLY <1>6, <1>10, <1>11, <1>12, <1>13, <2>1, <2>2, <2>3, J \in Index, n \in Nat, GrownAt
<1>15. /\ \A k \in Kind, m \in Nat : Has(N[f].blocks, k, m) =>
            Has(N2[f].blocks, k, m) /\ At(N2[f], g.lists, k, m) = At(N[f], J, k, m)
       /\ \A s \in map : \/ g.lists[s] = J[s]
                         \/ s \notin SectorIds
                         \/ \E k \in Indices, m \in Nat : Has(N[f].blocks, k, m) /\ At(N[f], J, k, m) = s
  BY ONLY <1>1, <1>5, <1>12, <1>14 DEF Grew
<1>16. \A k \in Kind, m \in Nat : Has(b + new, k, m) /\ ~Has(b, k, m) =>
         \E j \in 1 .. Needs(d) : Place(d, b, j, k, m) /\ At(N2[f], g.lists, k, m) = t[j]
  <2> TAKE k \in Kind, m \in Nat
  <2> HAVE Has(b + new, k, m) /\ ~Has(b, k, m)
  <2>1. PICK j \in Int : Place(d, b, j, k, m)
    BY ONLY <1>5, k \in Kind, m \in Nat, Has(b + new, k, m) /\ ~Has(b, k, m)
  <2>2. m \in Int
    OBVIOUS
  <2>3. j \in 1 .. Needs(d)
    BY ONLY <1>5, <2>1, <2>2, k \in Kind
  <2>4. At(N2[f], g.lists, k, m) = t[j]
    BY ONLY <1>1, <1>14, <2>1, k \in Kind, m \in Nat DEF Grew
  <2> QED
    BY ONLY <2>1, <2>3, <2>4
<1>17. \A k \in Kind, m \in Nat : Has(N2[f].blocks, k, m) =>
         Has(N[f].blocks, k, m) \/ At(N2[f], g.lists, k, m) \in T
  BY ONLY <1>1, <1>12, <1>16 DEF Taken
<1>18. ASSUME NEW k \in Kind, NEW l \in Kind, NEW m \in Nat, NEW p \in Nat,
              Has(N2[f].blocks, k, m), ~Has(N[f].blocks, k, m),
              Has(N2[f].blocks, l, p), ~Has(N[f].blocks, l, p),
              At(N2[f], g.lists, k, m) = At(N2[f], g.lists, l, p)
       PROVE  k = l /\ m = p
  <2>1. PICK i \in 1 .. Needs(d) : Place(d, b, i, k, m) /\ At(N2[f], g.lists, k, m) = t[i]
    BY ONLY <1>1, <1>12, <1>16, <1>18
  <2>2. PICK j \in 1 .. Needs(d) : Place(d, b, j, l, p) /\ At(N2[f], g.lists, l, p) = t[j]
    BY ONLY <1>1, <1>12, <1>16, <1>18
  <2>3. i = j
    BY ONLY <1>4, <1>7, <1>18, <2>1, <2>2
  <2>4. i \in Int /\ m \in Int /\ p \in Int
    OBVIOUS
  <2> QED
    BY ONLY <1>5, <2>1, <2>2, <2>3, <2>4, k \in Kind, l \in Kind
<1>19. \A s \in T : \E k \in Kind, m \in Nat : Has(N2[f].blocks, k, m) /\ At(N2[f], g.lists, k, m) = s
  <2> TAKE s \in T
  <2>1. PICK j \in 1 .. Needs(d) : s = t[j]
    BY DEF Taken
  <2>2. PICK k \in Kind, m \in Nat : Place(d, b, j, k, m)
    BY ONLY <1>5, j \in 1 .. Needs(d)
  <2>3. j \in Int /\ m \in Int
    BY ONLY <1>5, j \in 1 .. Needs(d), m \in Nat
  <2> QED
    BY ONLY <1>1, <1>5, <1>12, <1>14, <2>1, <2>2, <2>3 DEF Grew
<1>20. \A h \in S : N[h].blocks \in Nat
  BY DEF DiskInode
<1> HIDE DEF T
<1>21. Obtains(f, S, N, N2, J, g.lists, map, T)
  <2>1. \A h \in S \ {f} : N2[h] = N[h]
    OBVIOUS
  <2>2. \A k, l \in Kind, m, p \in Nat :
          /\ Has(N2[f].blocks, k, m) /\ ~Has(N[f].blocks, k, m)
          /\ Has(N2[f].blocks, l, p) /\ ~Has(N[f].blocks, l, p)
          /\ At(N2[f], g.lists, k, m) = At(N2[f], g.lists, l, p)
          => k = l /\ m = p
    <3> TAKE k, l \in Kind, m, p \in Nat
    <3> QED
      BY ONLY <1>18, k \in Kind, l \in Kind, m \in Nat, p \in Nat
  <2> QED
    BY ONLY <1>15, <1>17, <1>19, <2>1, <2>2 DEF Obtains
<1>22. Owned(S, N2, g.lists, map \cup T) /\ Kept(S, N, N2, J, g.lists)
  BY <1>7, <1>20, <1>21, OwnedGrows
<1>23. g.map \subseteq SectorIds /\ Reserved \subseteq g.map
  BY <1>7, <1>8
<1> QED
  BY ONLY <1>8, <1>10, <1>11, <1>22, <1>23 DEF FilesGrown

-----------------------------------------------------------------------------
(* The operations on files.                                                *)

(* Each operation keeps this. *)
FileInv ==
  /\ freeMap \subseteq SectorIds /\ Reserved \subseteq freeMap
  /\ lists \in Index
  /\ inode \in [Files -> DiskInode \cup {NoInode}]
  /\ \A f \in Live : inode[f].sector # 0 /\ Measured(inode[f])
  /\ Owned(Live, inode, lists, freeMap)

(* The number of blocks of the longest file. *)
LEMMA EndBlock ==
  ASSUME NEW end \in Nat
  PROVE  /\ end \div SectorBytes \in Nat /\ end \div SectorBytes + 1 \in Nat \ {0}
         /\ end <= MaxEnd => end \div SectorBytes + 1 <= Direct + ListSize + ListSize * ListSize
         /\ MaxEnd \in Nat /\ 0 \div SectorBytes + 1 = 1
         /\ (end + EntryBytes) \div SectorBytes + 1 \in
              {end \div SectorBytes + 1, end \div SectorBytes + 2}
         /\ end + EntryBytes \in Nat
<1>1. PICK B \in Nat \ {0}, L \in Nat \ {0}, D \in Nat \ {0}, e \in Nat \ {0} :
        B = SectorBytes /\ L = ListSize /\ D = Direct /\ e = EntryBytes /\ e <= B
  BY InodeAssumption
<1>2. PICK X \in Nat \ {0} : X = D + L + L * L
  <2>1. L * L \in Nat
    BY ONLY <1>1
  <2> QED
    BY ONLY <1>1, <2>1
<1>3. MaxEnd = X * B - 1
  BY ONLY <1>1, <1>2 DEF MaxEnd
<1>4. PICK q \in Nat, r \in 0 .. B - 1 : q = end \div B /\ end = q * B + r
  <2>1. end \div B \in Nat /\ end % B \in 0 .. B - 1 /\ end = (end \div B) * B + (end % B)
    BY ONLY <1>1, end \in Nat
  <2> QED
    BY ONLY <2>1
<1>5. end <= X * B - 1 => q < X
  <2>1. ~(q < X) => q * B >= X * B
    BY ONLY <1>1, <1>2, q \in Nat
  <2>2. q * B \in Int /\ X * B \in Int
    BY ONLY <1>1, <1>2, q \in Nat
  <2> QED
    BY ONLY <1>1, <1>4, <2>1, <2>2, end \in Nat, q \in Nat
<1>6. X * B - 1 \in Nat
  BY ONLY <1>1, <1>2
<1>7. 0 \div B = 0
  BY ONLY <1>1
<1>8. (end + e) \div B \in {q, q + 1}
  <2>1. CASE r + e < B
    <3>1. end + e = q * B + (r + e) /\ r + e \in 0 .. B - 1
      BY ONLY <1>1, <1>4, <2>1, r \in 0 .. B - 1, end \in Nat, q * B \in Int
    <3>2. (q * B + (r + e)) \div B = q
      BY ONLY <1>1, <3>1, q \in Nat
    <3> QED
      BY ONLY <3>1, <3>2
  <2>2. CASE ~(r + e < B)
    <3>1. PICK q1 \in Nat, r1 \in 0 .. B - 1 : q1 = q + 1 /\ r1 = r + e - B
      BY ONLY <1>1, <2>2, r \in 0 .. B - 1, q \in Nat
    <3>2. q1 * B = q * B + B /\ q * B \in Int
      BY ONLY <1>1, <3>1, q \in Nat
    <3>3. end + e = q1 * B + r1
      BY ONLY <1>1, <1>4, <3>1, <3>2, r \in 0 .. B - 1, end \in Nat
    <3>4. (q1 * B + r1) \div B = q1
      BY ONLY <1>1, q1 \in Nat, r1 \in 0 .. B - 1
    <3> QED
      BY ONLY <3>1, <3>3, <3>4
  <2> QED
    BY ONLY <2>1, <2>2
<1>9. /\ q + 1 \in Nat \ {0}
      /\ end <= MaxEnd => q + 1 <= X
      /\ MaxEnd \in Nat
  BY ONLY <1>2, <1>3, <1>5, <1>6, q \in Nat
<1>10. (end + e) \div B + 1 \in {q + 1, q + 2} /\ end + e \in Nat
  BY ONLY <1>1, <1>8, q \in Nat, end \in Nat
<1> QED
  BY ONLY <1>1, <1>2, <1>4, <1>7, <1>9, <1>10

(* An inode that is in use is not NoInode. *)
LEMMA InUseInode ==
  ASSUME NEW nd \in DiskInode, nd.sector # 0
  PROVE  nd # NoInode
BY DEF NoInode

(* Owning depends on what is reached only. *)
LEMMA SameOwned ==
  ASSUME NEW S, NEW N, NEW N2, NEW J, NEW map, Owned(S, N, J, map),
         \A h \in S : /\ N2[h].blocks = N[h].blocks
                     /\ \A k, m : At(N2[h], J, k, m) = At(N[h], J, k, m)
  PROVE  Owned(S, N2, J, map)
<1>1. ASSUME NEW f \in S, NEW k \in Kind, NEW n \in Nat, Has(N2[f].blocks, k, n)
      PROVE  At(N2[f], J, k, n) \in map \ Reserved
  <2>1. Has(N[f].blocks, k, n) /\ At(N2[f], J, k, n) = At(N[f], J, k, n)
    BY <1>1
  <2> QED
    BY <2>1 DEF Owned
<1>2. ASSUME NEW f \in S, NEW g \in S, NEW k \in Kind, NEW l \in Kind, NEW m \in Nat, NEW n \in Nat,
             Has(N2[f].blocks, k, m), Has(N2[g].blocks, l, n), At(N2[f], J, k, m) = At(N2[g], J, l, n)
      PROVE  f = g /\ k = l /\ m = n
  <2>1. Has(N[f].blocks, k, m) /\ Has(N[g].blocks, l, n) /\ At(N[f], J, k, m) = At(N[g], J, l, n)
    BY <1>2
  <2> QED
    BY <2>1 DEF Owned
<1>3. ASSUME NEW s \in map, s \notin Reserved
      PROVE  \E f \in S, k \in Kind, n \in Nat : Has(N2[f].blocks, k, n) /\ At(N2[f], J, k, n) = s
  <2>1. PICK f \in S, k \in Kind, n \in Nat : Has(N[f].blocks, k, n) /\ At(N[f], J, k, n) = s
    BY <1>3 DEF Owned
  <2> QED
    BY <2>1
<1> QED
  BY ONLY <1>1, <1>2, <1>3 DEF Owned

(* file_write_at() past the end of a file that has what it needs. *)
LEMMA WriteToStep ==
  ASSUME NEW S \in SUBSET Files, NEW f \in S, NEW N, NEW node, NEW end \in Nat, NEW map,
         DOMAIN inode = Files, N = [inode EXCEPT ![f] = node],
         \A g \in Files \ S : inode[g] = NoInode,
         \A g \in S : N[g] \in DiskInode /\ N[g].sector # 0,
         \A g \in S \ {f} : Measured(N[g]),
         map \subseteq SectorIds, Reserved \subseteq map, lists \in Index, Owned(S, N, lists, map),
         end <= MaxEnd,
         node.blocks <= end \div SectorBytes + 1,
         node.blocks = 1 \/ end \div SectorBytes + 1 <= node.blocks + 1,
         WriteTo(f, node, end, map, lists), left_out' = "none"
  PROVE  FileInv' /\ Kept(S, N, inode', lists, lists')
<1>1. f \in Files /\ N[f] = node /\ node \in DiskInode /\ node.sector # 0
  OBVIOUS
<1>2. PICK b \in Nat \ {0}, c \in Nat \ {0} :
        /\ b = node.blocks /\ c = end \div SectorBytes + 1
        /\ b <= c /\ (b = 1 \/ c <= b + 1) /\ c <= Direct + ListSize + ListSize * ListSize
  BY <1>1, EndBlock DEF DiskInode
<1> DEFINE new == end \div SectorBytes + 1 - node.blocks
           d == Division(node.blocks, new)
           g == Grown(node, d, map, lists)
           kept == [node EXCEPT !.length = end, !.blocks = end \div SectorBytes + 1]
           nd2 == IF new > 0 THEN [kept EXCEPT !.number = g.number] ELSE kept
<1>3. /\ left_out' = IF new > 0 THEN LeftOut(d, new, map) ELSE "none"
      /\ freeMap' = IF new > 0 THEN g.map ELSE map
      /\ lists' = IF new > 0 THEN g.lists ELSE lists
      /\ inode' = [inode EXCEPT ![f] = nd2]
  BY DEF WriteTo
<1>4. /\ new = c - b /\ new \in Nat
      /\ kept = [sector |-> node.sector, blocks |-> c, length |-> end, number |-> node.number]
      /\ nd2 = [sector |-> node.sector, blocks |-> c, length |-> end,
                number |-> IF new > 0 THEN g.number ELSE node.number]
  <2>1. /\ b = node.blocks /\ c = end \div SectorBytes + 1 /\ b \in Nat /\ c \in Nat \ {0} /\ b <= c
        /\ end \div SectorBytes \in Nat
    BY ONLY <1>2, EndBlock, end \in Nat
  <2>2. new = c - b /\ new \in Nat
    BY ONLY <2>1
  <2>3. kept = [node EXCEPT !.length = end, !.blocks = c]
    BY ONLY <2>1
  <2> HIDE DEF new, g, d, kept
  <2>4. kept = [sector |-> node.sector, blocks |-> c, length |-> end, number |-> node.number]
    BY ONLY <1>1, <2>3 DEF DiskInode
  <2> QED
    BY <2>2, <2>4
<1> HIDE DEF nd2
<1>5. /\ inode'[f] = nd2 /\ DOMAIN inode' = Files
      /\ \A h \in S \ {f} : inode'[h] = N[h]
      /\ \A h \in Files \ S : inode'[h] = NoInode
  BY <1>1, <1>3
<1>6. /\ nd2 \in DiskInode /\ freeMap' \subseteq SectorIds /\ Reserved \subseteq freeMap' /\ lists' \in Index
      /\ Owned(S, inode', lists', freeMap')
      /\ Kept(S, N, inode', lists, lists')
  <2>1. CASE new > 0
    <3>1. LeftOut(Division(N[f].blocks, new), new, map) = "none"
      BY <1>1, <1>3, <2>1
    <3>2. /\ new \in Nat \ {0} /\ (new = 1 \/ N[f].blocks = 1) /\ N[f].blocks + new = c
          /\ N[f].blocks + new <= Direct + ListSize + ListSize * ListSize
      <4>1. /\ c - b \in Nat \ {0} /\ (c - b = 1 \/ b = 1) /\ b + (c - b) = c
            /\ b + (c - b) <= Direct + ListSize + ListSize * ListSize
        <5>1. b + (c - b) = c
          BY ONLY <1>2
        <5> QED
          BY ONLY <1>2, <1>4, <2>1, <5>1
      <4> HIDE DEF new
      <4> QED
        BY ONLY <1>1, <1>2, <1>4, <4>1
    <3>3. g = Grown(N[f], Division(N[f].blocks, new), map, lists)
      BY <1>1
    <3>4. inode'[f] = [sector |-> N[f].sector, blocks |-> N[f].blocks + new, length |-> end, number |-> g.number]
      BY <1>1, <1>4, <1>5, <2>1, <3>2
    <3> HIDE DEF new, d, g
    <3>5. FilesGrown(f, S, N, inode', lists, g)
      <4>1. HaveInodes(S, N) /\ OnlyChanges(f, S, N, inode')
        BY <1>5 DEF HaveInodes, OnlyChanges
      <4> QED
        BY ONLY <3>1, <3>2, <3>3, <3>4, <4>1, GrowthOwned, end \in Nat, f \in S, lists \in Index,
           Owned(S, N, lists, map), map \subseteq SectorIds, Reserved \subseteq map
    <3> QED
      BY ONLY <1>3, <1>5, <2>1, <3>5 DEF FilesGrown
  <2>2. CASE ~(new > 0)
    <3>1. b = c
      BY <1>2, <1>4, <2>2
    <3>2. nd2 = [sector |-> node.sector, blocks |-> c, length |-> end, number |-> node.number]
      BY ONLY <1>4, <2>2
    <3>3. nd2 \in DiskInode /\ nd2.sector = node.sector /\ nd2.blocks = node.blocks /\ nd2.number = node.number
      BY <1>1, <1>2, <3>1, <3>2 DEF DiskInode
    <3>4. lists' = lists /\ freeMap' = map
      BY ONLY <1>3, <2>2
    <3>5. \A h \in S : /\ inode'[h].blocks = N[h].blocks
                       /\ \A k, m : At(inode'[h], lists, k, m) = At(N[h], lists, k, m)
      <4> TAKE h \in S
      <4>1. inode'[h].blocks = N[h].blocks /\ inode'[h].sector = N[h].sector /\ inode'[h].number = N[h].number
        BY <1>1, <1>5, <3>3
      <4> QED
        BY ONLY <4>1 DEF At, BlockAt
    <3>6. Owned(S, inode', lists, map)
      BY ONLY <3>5, SameOwned, Owned(S, N, lists, map)
    <3>7. Kept(S, N, inode', lists, lists)
      BY ONLY <3>5 DEF Kept
    <3> QED
      BY <3>3, <3>4, <3>6, <3>7
  <2> QED
    BY ONLY <2>1, <2>2
<1>7. Measured(nd2) /\ nd2.sector # 0
  <2>1. nd2.length = end /\ nd2.blocks = c /\ nd2.sector = node.sector
    BY ONLY <1>4
  <2> QED
    BY <1>1, <1>2, <2>1 DEF Measured
<1>8. Live' = S
  <2>1. \A h \in S : inode'[h] # NoInode
    <3> TAKE h \in S
    <3>1. inode'[h] \in DiskInode /\ inode'[h].sector # 0
      BY <1>5, <1>6, <1>7
    <3> QED
      BY ONLY <3>1, InUseInode
  <2> QED
    BY <1>5, <2>1 DEF Live
<1>9. \A h \in S : inode'[h].sector # 0 /\ Measured(inode'[h])
  BY <1>5, <1>7
<1>10. inode' \in [Files -> DiskInode \cup {NoInode}]
  BY <1>3, <1>6
<1>11. FileInv'
  BY ONLY <1>6, <1>8, <1>9, <1>10 DEF FileInv
<1> QED
  BY ONLY <1>6, <1>11

(* A file of at most Direct blocks reaches its inode and its blocks only. *)
LEMMA SmallFile ==
  ASSUME NEW nd, nd.blocks \in Nat \ {0}, nd.blocks <= Direct, NEW J
  PROVE  \A k \in Kind, m \in Nat : Has(nd.blocks, k, m) =>
           \/ k = "inode" /\ m = 0 /\ At(nd, J, k, m) = nd.sector
           \/ k = "block" /\ m \in 0 .. nd.blocks - 1 /\ At(nd, J, k, m) = nd.number[m]
<1>1. PICK L \in Nat \ {0}, D \in Nat \ {0}, b \in Nat : L = ListSize /\ D = Direct /\ b = nd.blocks /\ b <= D
  BY InodeAssumption
<1> SUFFICES ASSUME NEW k \in Kind, NEW m \in Nat, Has(nd.blocks, k, m)
             PROVE  \/ k = "inode" /\ m = 0 /\ At(nd, J, k, m) = nd.sector
                    \/ k = "block" /\ m \in 0 .. nd.blocks - 1 /\ At(nd, J, k, m) = nd.number[m]
  OBVIOUS
<1>2. m * L \in Int /\ m * L >= 0
  BY ONLY <1>1, m \in Nat
<1>3. ~(m * L < b - D - L)
  BY ONLY <1>1, <1>2
<1>4. \/ k = "inode" /\ m = 0
      \/ k = "block" /\ m < b
  BY ONLY <1>1, <1>3, Has(nd.blocks, k, m) DEF Has
<1> QED
  BY ONLY <1>1, <1>4, m \in Nat DEF At, BlockAt

(* A new file f owns the sector a of its inode and the sector c of its      *)
(* first block.                                                             *)
LEMMA OwnedCreated ==
  ASSUME NEW S, NEW N, NEW N2, NEW J, NEW map, Owned(S, N, J, map), NEW f, f \notin S,
         \A g \in S : N2[g] = N[g],
         NEW a, NEW c, a # c, {a, c} \cap (map \cup Reserved) = {},
         N2[f].sector = a, N2[f].blocks = 1, N2[f].number[0] = c
  PROVE  Owned(S \cup {f}, N2, J, map \cup {a, c})
<1>1. \A k \in Kind, m \in Nat : Has(N2[f].blocks, k, m) =>
        \/ k = "inode" /\ m = 0 /\ At(N2[f], J, k, m) = a
        \/ k = "block" /\ m = 0 /\ At(N2[f], J, k, m) = c
  <2>1. N2[f].blocks \in Nat \ {0} /\ N2[f].blocks <= Direct
    BY InodeAssumption
  <2>2. \A k \in Kind, m \in Nat : Has(N2[f].blocks, k, m) =>
           \/ k = "inode" /\ m = 0 /\ At(N2[f], J, k, m) = N2[f].sector
           \/ k = "block" /\ m \in 0 .. N2[f].blocks - 1 /\ At(N2[f], J, k, m) = N2[f].number[m]
    BY ONLY <2>1, SmallFile
  <2>3. \A m : m \in 0 .. N2[f].blocks - 1 => m = 0
    OBVIOUS
  <2> QED
    BY <2>2, <2>3
<1>2. /\ Has(N2[f].blocks, "inode", 0) /\ At(N2[f], J, "inode", 0) = a
      /\ Has(N2[f].blocks, "block", 0) /\ At(N2[f], J, "block", 0) = c
      /\ "inode" \in Kind /\ "block" \in Kind /\ 0 \in Nat
  BY InodeAssumption DEF Has, At, BlockAt, Kind
<1>3. /\ \A g \in S, k \in Kind, n \in Nat : Has(N2[g].blocks, k, n) => At(N2[g], J, k, n) \in map \ Reserved
      /\ \A g, h \in S, k, l \in Kind, m, n \in Nat :
           /\ Has(N2[g].blocks, k, m) /\ Has(N2[h].blocks, l, n)
           /\ At(N2[g], J, k, m) = At(N2[h], J, l, n)
           => g = h /\ k = l /\ m = n
      /\ \A s \in map : \/ s \in Reserved
                        \/ \E g \in S, k \in Kind, n \in Nat :
                             Has(N2[g].blocks, k, n) /\ At(N2[g], J, k, n) = s
  <2>1. Owned(S, N2, J, map)
    BY SameOwned
  <2> QED
    BY ONLY <2>1 DEF Owned
<1>4. ASSUME NEW g \in S \cup {f}, NEW k \in Kind, NEW n \in Nat, Has(N2[g].blocks, k, n)
      PROVE  At(N2[g], J, k, n) \in (map \cup {a, c}) \ Reserved
  BY ONLY <1>1, <1>3, <1>4, {a, c} \cap (map \cup Reserved) = {}
<1>5. ASSUME NEW g \in S \cup {f}, NEW h \in S \cup {f}, NEW k \in Kind, NEW l \in Kind,
             NEW m \in Nat, NEW n \in Nat, Has(N2[g].blocks, k, m), Has(N2[h].blocks, l, n),
             At(N2[g], J, k, m) = At(N2[h], J, l, n)
      PROVE  g = h /\ k = l /\ m = n
  <2>1. CASE g \in S /\ h \in S
    BY ONLY <1>3, <1>5, <2>1
  <2>2. CASE g = f /\ h = f
    BY ONLY <1>1, <1>5, <2>2, a # c
  <2>3. CASE g = f /\ h \in S
    BY ONLY <1>1, <1>3, <1>5, <2>3, {a, c} \cap (map \cup Reserved) = {}
  <2>4. CASE g \in S /\ h = f
    BY ONLY <1>1, <1>3, <1>5, <2>4, {a, c} \cap (map \cup Reserved) = {}
  <2> QED
    BY ONLY <2>1, <2>2, <2>3, <2>4, g \in S \cup {f}, h \in S \cup {f}
<1>6. ASSUME NEW s \in map \cup {a, c}, s \notin Reserved
      PROVE  \E g \in S \cup {f}, k \in Kind, n \in Nat :
               Has(N2[g].blocks, k, n) /\ At(N2[g], J, k, n) = s
  <2>1. CASE s \in map
    BY ONLY <1>3, <1>6, <2>1
  <2>2. CASE s \in {a, c}
    BY ONLY <1>2, <2>2
  <2> QED
    BY ONLY <2>1, <2>2, s \in map \cup {a, c}
<1> QED
  BY ONLY <1>4, <1>5, <1>6 DEF Owned

(* The sectors that releasing an inode gives back. *)
GivenBack(nd) == {nd.sector} \cup {nd.number[i] : i \in 0 .. nd.blocks - 1}

(* The other files own the rest when a small file gives back its sectors.  *)
LEMMA OwnedReleased ==
  ASSUME NEW S, NEW N, NEW N2, NEW J, NEW map, Owned(S, N, J, map), NEW f \in S,
         \A g \in S \ {f} : N2[g] = N[g],
         N[f].blocks \in Nat \ {0}, N[f].blocks <= Direct,
         NEW R, R = GivenBack(N[f])
  PROVE  Owned(S \ {f}, N2, J, map \ R) /\ R \cap Reserved = {}
<1>1. \A k \in Kind, m \in Nat : Has(N[f].blocks, k, m) => At(N[f], J, k, m) \in R
  <2>1. \A k \in Kind, m \in Nat : Has(N[f].blocks, k, m) =>
           \/ k = "inode" /\ m = 0 /\ At(N[f], J, k, m) = N[f].sector
           \/ k = "block" /\ m \in 0 .. N[f].blocks - 1 /\ At(N[f], J, k, m) = N[f].number[m]
    BY SmallFile
  <2> QED
    BY <2>1 DEF GivenBack
<1>2. \A s \in R : \E k \in Kind, m \in Nat : Has(N[f].blocks, k, m) /\ At(N[f], J, k, m) = s
  <2>1. PICK D \in Nat \ {0}, b \in Nat : D = Direct /\ b = N[f].blocks /\ b <= D
    BY InodeAssumption
  <2>2. "inode" \in Kind /\ "block" \in Kind
    BY DEF Kind
  <2>3. Has(b, "inode", 0) /\ At(N[f], J, "inode", 0) = N[f].sector
    BY DEF Has, At
  <2>4. ASSUME NEW i \in 0 .. b - 1
        PROVE  i \in Nat /\ Has(b, "block", i) /\ At(N[f], J, "block", i) = N[f].number[i]
    BY ONLY <2>1, i \in 0 .. b - 1 DEF Has, At, BlockAt
  <2> QED
    BY <2>1, <2>2, <2>3, <2>4 DEF GivenBack
<1>3. /\ \A g \in S, k \in Kind, n \in Nat : Has(N[g].blocks, k, n) => At(N[g], J, k, n) \in map \ Reserved
      /\ \A g, h \in S, k, l \in Kind, m, n \in Nat :
           /\ Has(N[g].blocks, k, m) /\ Has(N[h].blocks, l, n)
           /\ At(N[g], J, k, m) = At(N[h], J, l, n)
           => g = h /\ k = l /\ m = n
      /\ \A s \in map : \/ s \in Reserved
                        \/ \E g \in S, k \in Kind, n \in Nat :
                             Has(N[g].blocks, k, n) /\ At(N[g], J, k, n) = s
  BY ONLY Owned(S, N, J, map) DEF Owned
<1>4. ASSUME NEW g \in S \ {f}, NEW k \in Kind, NEW n \in Nat, Has(N2[g].blocks, k, n)
      PROVE  At(N2[g], J, k, n) \in (map \ R) \ Reserved
  <2>1. Has(N[g].blocks, k, n) /\ At(N2[g], J, k, n) = At(N[g], J, k, n) /\ g \in S /\ g # f
    BY ONLY <1>4, g \in S \ {f}, \A h \in S \ {f} : N2[h] = N[h]
  <2>2. At(N[g], J, k, n) \notin R
    BY ONLY <1>2, <1>3, <2>1, k \in Kind, n \in Nat, f \in S
  <2> QED
    BY ONLY <1>3, <2>1, <2>2, k \in Kind, n \in Nat
<1>5. ASSUME NEW g \in S \ {f}, NEW h \in S \ {f}, NEW k \in Kind, NEW l \in Kind,
             NEW m \in Nat, NEW n \in Nat, Has(N2[g].blocks, k, m), Has(N2[h].blocks, l, n),
             At(N2[g], J, k, m) = At(N2[h], J, l, n)
      PROVE  g = h /\ k = l /\ m = n
  BY ONLY <1>3, <1>5, \A u \in S \ {f} : N2[u] = N[u]
<1>6. ASSUME NEW s \in map \ R, s \notin Reserved
      PROVE  \E g \in S \ {f}, k \in Kind, n \in Nat :
               Has(N2[g].blocks, k, n) /\ At(N2[g], J, k, n) = s
  <2>1. PICK g \in S, k \in Kind, n \in Nat : Has(N[g].blocks, k, n) /\ At(N[g], J, k, n) = s
    BY ONLY <1>3, <1>6
  <2>2. g # f
    BY ONLY <1>1, <1>6, <2>1
  <2> QED
    BY ONLY <2>1, <2>2, \A u \in S \ {f} : N2[u] = N[u]
<1>7. R \cap Reserved = {}
  BY ONLY <1>2, <1>3, f \in S
<1> QED
  BY ONLY <1>4, <1>5, <1>6, <1>7 DEF Owned

(* What each file that stays has is where it was. *)
StaysFound ==
  \A f \in Live : inode'[f] # NoInode =>
    /\ \A k \in Kind, m \in Nat :
         Has(inode[f].blocks, k, m) => At(inode'[f], lists', k, m) = At(inode[f], lists, k, m)
    /\ \A m \in Nat : Has(inode[f].blocks, "block", m) <=> m \in BlocksOf(f)

(* The blocks of an inode by number. *)
LEMMA HasBlock ==
  ASSUME NEW b \in Nat
  PROVE  \A m \in Nat : Has(b, "block", m) <=> m \in 0 .. b - 1
BY DEF Has

(* A step that leaves files, lists and the free map alone. *)
LEMMA FilesUnchanged ==
  ASSUME FileInv, UNCHANGED <<freeMap, inode, lists>>
  PROVE  FileInv' /\ StaysFound
<1>1. Live' = Live
  BY DEF Live
<1>2. FileInv'
  BY <1>1 DEF FileInv
<1>3. \A f \in Live : inode[f].blocks \in Nat
  BY DEF FileInv, Live, DiskInode
<1> QED
  BY <1>2, <1>3, HasBlock DEF StaysFound, BlocksOf

LEMMA InitFiles == InodeInit => FileInv
<1> SUFFICES ASSUME InodeInit PROVE FileInv
  OBVIOUS
<1> USE DEF InodeInit
<1>1. Live = {}
  BY DEF Live
<1>2. SectorIds = 0 .. DiskSectors - 1 /\ DiskSectors \in Nat \ {0, 1}
  BY InodeAssumption DEF SectorIds
<1>3. Reserved \subseteq SectorIds /\ 0 \in SectorIds
  BY <1>2 DEF Reserved
<1>4. lists \in Index
  BY <1>3 DEF Index, EmptyList
<1>5. Owned({}, inode, lists, Reserved)
  BY DEF Owned
<1> QED
  BY <1>1, <1>3, <1>4, <1>5 DEF FileInv

(* filesys_create(). *)
LEMMA CreateStep ==
  ASSUME FileInv, NEW f \in Files, NEW length \in Lengths, InodeCreate(f, length)
  PROVE  FileInv' /\ StaysFound
<1> DEFINE t    == Available(freeMap)
           node == [sector |-> t[1], blocks |-> 1, length |-> 0,
                    number |-> [i \in 0 .. Direct + 1 |-> IF i = 0 THEN t[2] ELSE 0]]
           map  == freeMap \union {t[1], t[2]}
           N    == [inode EXCEPT ![f] = node]
           S    == Live \cup {f}
<1>1. /\ f \notin Live
      /\ \/ Len(t) > 1 /\ length > 0 /\ WriteTo(f, node, length, map, lists)
         \/ Len(t) > 1 /\ length = 0 /\ inode' = N /\ freeMap' = map /\ lists' = lists
         \/ UNCHANGED <<freeMap, inode, lists>>
  BY DEF InodeCreate
<1>2. CASE UNCHANGED <<freeMap, inode, lists>>
  BY <1>2, FilesUnchanged
<1>3. CASE /\ Len(t) > 1
           /\ \/ length > 0 /\ WriteTo(f, node, length, map, lists) /\ left_out' = "none"
              \/ length = 0 /\ inode' = N /\ freeMap' = map /\ lists' = lists
  <2>1. PICK n \in Nat : /\ t \in [1 .. n -> SectorIds \ freeMap]
                         /\ \A j, k \in 1 .. n : t[j] = t[k] => j = k
    BY AvailableSectors
  <2> HIDE DEF t
  <2>2. Len(t) = n
    BY ONLY <2>1, n \in Nat
  <2>3. 1 \in 1 .. n /\ 2 \in 1 .. n
    BY ONLY <1>3, <2>2, n \in Nat
  <2>4. /\ t[1] \in SectorIds \ freeMap /\ t[2] \in SectorIds \ freeMap /\ t[1] # t[2]
        /\ 0 \in SectorIds /\ Direct \in Nat \ {0}
    <3>1. t[1] \in SectorIds \ freeMap /\ t[2] \in SectorIds \ freeMap /\ t[1] # t[2]
      BY ONLY <2>1, <2>3
    <3> QED
      BY ONLY <3>1, InodeAssumption DEF SectorIds
  <2>5. /\ freeMap \subseteq SectorIds /\ Reserved \subseteq freeMap /\ lists \in Index
        /\ inode \in [Files -> DiskInode \cup {NoInode}]
        /\ \A h \in Files : inode[h] = NoInode \/ (inode[h] \in DiskInode /\ inode[h].sector # 0)
        /\ \A h \in Live : Measured(inode[h])
        /\ Owned(Live, inode, lists, freeMap)
    BY DEF FileInv, Live
  <2>6. /\ node.sector = t[1] /\ node.blocks = 1 /\ node.length = 0 /\ node.number[0] = t[2]
        /\ node \in DiskInode /\ node.sector # 0
    <3>1. 0 \in 0 .. Direct + 1
      BY <2>4
    <3>2. node.number[0] = t[2]
      BY <3>1
    <3> QED
      BY <2>4, <2>5, <3>2 DEF DiskInode, Reserved
  <2> HIDE DEF node
  <2>7. N[f] = node /\ DOMAIN inode = Files /\ \A h \in Files \ {f} : N[h] = inode[h]
    BY ONLY <2>5, f \in Files
  <2>8. S \in SUBSET Files /\ f \in S /\ (\A h \in Files \ S : inode[h] = NoInode) /\ f \notin Live
        /\ (\A h \in S \ {f} : h \in Live /\ N[h] = inode[h]) /\ (\A h \in Live : N[h] = inode[h] /\ h # f)
    BY <1>1, <2>7 DEF Live
  <2>9. \A h \in S : N[h] \in DiskInode /\ N[h].sector # 0
    BY <2>5, <2>6, <2>7, <2>8 DEF Live
  <2>10. \A h \in S \ {f} : Measured(N[h])
    BY ONLY <2>5, <2>8
  <2>11. map \subseteq SectorIds /\ Reserved \subseteq map
    BY ONLY <2>4, <2>5
  <2>12. Owned(S, N, lists, map)
    <3>1. {t[1], t[2]} \cap (freeMap \cup Reserved) = {}
      BY ONLY <2>4, <2>5
    <3>2. \A h \in Live : N[h] = inode[h]
      BY ONLY <2>8
    <3>3. t[1] # t[2] /\ N[f].sector = t[1] /\ N[f].blocks = 1 /\ N[f].number[0] = t[2]
      BY ONLY <2>4, <2>6, <2>7
    <3> HIDE DEF N
    <3> QED
      BY ONLY <2>5, <2>8, <3>1, <3>2, <3>3, OwnedCreated
  <2>13. length \in Nat /\ length <= MaxEnd
    <3>1. length \in 0 .. MaxEnd
      BY InodeAssumption
    <3>2. MaxEnd \in Nat
      BY EndBlock
    <3> QED
      BY ONLY <3>1, <3>2
  <2>14. \A h \in Live : inode[h].blocks \in Nat
    BY <2>5 DEF Live, DiskInode
  <2>15. CASE length > 0 /\ WriteTo(f, node, length, map, lists) /\ left_out' = "none"
    <3>1. /\ length \div SectorBytes + 1 \in Nat \ {0}
      BY ONLY <2>13, EndBlock
    <3>2. node.blocks <= length \div SectorBytes + 1 /\ node.blocks = 1
      BY ONLY <2>6, <3>1
    <3>3. FileInv' /\ Kept(S, N, inode', lists, lists')
      <4>1. N = [inode EXCEPT ![f] = node]
        OBVIOUS
      <4> HIDE DEF N, S, map
      <4> QED
        BY ONLY <2>5, <2>8, <2>9, <2>10, <2>11, <2>12, <2>13, <2>15, <3>2, <4>1, WriteToStep
    <3>4. StaysFound
      BY ONLY <2>8, <2>14, <3>3, HasBlock DEF StaysFound, BlocksOf, Kept
    <3> QED
      BY ONLY <3>3, <3>4
  <2>16. CASE length = 0 /\ inode' = N /\ freeMap' = map /\ lists' = lists
    <3>1. Live' = S
      <4>1. \A h \in S : N[h] # NoInode
        BY ONLY <2>9, InUseInode
      <4> QED
        BY <2>7, <2>8, <2>16, <4>1 DEF Live
    <3>2. Measured(node)
      BY <2>6, EndBlock DEF Measured
    <3>3. \A h \in S : Measured(inode'[h])
      BY ONLY <2>7, <2>10, <2>16, <3>2
    <3>4. \A h \in Files : inode'[h] = NoInode \/ (inode'[h] \in DiskInode /\ inode'[h].sector # 0)
      BY ONLY <2>7, <2>8, <2>9, <2>16
    <3>5. FileInv'
      <4>1. inode' \in [Files -> DiskInode \cup {NoInode}]
        BY <2>5, <2>6, <2>16
      <4>2. \A h \in S : inode'[h].sector # 0
        BY ONLY <2>9, <2>16
      <4> HIDE DEF N, S, map
      <4> QED
        BY ONLY <4>1, <4>2, <2>5, <2>7, <2>11, <2>12, <2>16, <3>1, <3>3, <3>4 DEF FileInv
    <3>6. StaysFound
      BY ONLY <2>8, <2>14, <2>16, HasBlock DEF StaysFound, BlocksOf
    <3> QED
      BY ONLY <3>5, <3>6
  <2> QED
    BY <1>3, <2>15, <2>16
<1>4. CASE WriteTo(f, node, length, map, lists) /\ left_out' # "none"
  BY <1>4, FilesUnchanged DEF WriteTo
<1> QED
  BY ONLY <1>1, <1>2, <1>3, <1>4

(* dir_add() at the end of a directory. *)
LEMMA AppendStep ==
  ASSUME FileInv, NEW f \in Files, InodeAppend(f)
  PROVE  FileInv' /\ StaysFound
<1> DEFINE node == inode[f]
           end  == node.length + EntryBytes
<1>1. f \in Live /\ end <= MaxEnd /\ WriteTo(f, node, end, freeMap, lists)
  BY DEF InodeAppend
<1>2. CASE left_out' # "none"
  BY <1>1, <1>2, FilesUnchanged DEF WriteTo
<1>3. CASE left_out' = "none"
  <2>1. /\ freeMap \subseteq SectorIds /\ Reserved \subseteq freeMap /\ lists \in Index
        /\ inode \in [Files -> DiskInode \cup {NoInode}]
        /\ \A h \in Files : inode[h] = NoInode \/ (inode[h] \in DiskInode /\ inode[h].sector # 0)
        /\ \A h \in Live : Measured(inode[h])
        /\ Owned(Live, inode, lists, freeMap)
    BY DEF FileInv, Live
  <2>2. /\ Live \in SUBSET Files /\ \A h \in Files \ Live : inode[h] = NoInode
        /\ \A h \in Live : inode[h] \in DiskInode /\ inode[h].sector # 0
    BY <2>1 DEF Live
  <2>3. inode = [inode EXCEPT ![f] = node]
    BY ONLY <2>1
  <2>4. node \in DiskInode /\ Measured(node) /\ node.length \in Nat /\ node.blocks \in Nat
    BY <1>1, <2>1, <2>2 DEF DiskInode
  <2> HIDE DEF node
  <2>5. /\ end \in Nat
        /\ end \div SectorBytes + 1 \in {node.blocks, node.blocks + 1}
    <3>1. /\ end \div SectorBytes + 1 \in {node.length \div SectorBytes + 1, node.length \div SectorBytes + 2}
          /\ end \in Nat /\ node.length \div SectorBytes \in Nat
      BY ONLY <2>4, EndBlock
    <3>2. node.length \div SectorBytes + 2 = (node.length \div SectorBytes + 1) + 1
      BY ONLY <3>1
    <3> QED
      BY ONLY <2>4, <3>1, <3>2 DEF Measured
  <2> HIDE DEF end
  <2>6. node.blocks <= end \div SectorBytes + 1 /\ end \div SectorBytes + 1 <= node.blocks + 1
    <3> DEFINE c == end \div SectorBytes + 1
    <3> HIDE DEF c
    <3>1. node.blocks <= c /\ c <= node.blocks + 1
      BY ONLY <2>4, <2>5 DEF c
    <3> QED
      BY ONLY <3>1 DEF c
  <2>7. FileInv' /\ Kept(Live, inode, inode', lists, lists')
    <3>1. DOMAIN inode = Files
      BY ONLY <2>1
    <3> QED
      BY ONLY <3>1, <1>1, <1>3, <2>1, <2>2, <2>3, <2>5, <2>6, WriteToStep
  <2>8. \A h \in Live : inode[h].blocks \in Nat
    BY ONLY <2>2 DEF DiskInode
  <2>9. StaysFound
    BY ONLY <2>7, <2>8, HasBlock DEF StaysFound, BlocksOf, Kept
  <2> QED
    BY ONLY <2>7, <2>9
<1> QED
  BY ONLY <1>2, <1>3

(* The last inode_close() of a removed file. *)
LEMMA ReleaseStep ==
  ASSUME FileInv, NEW f \in Files, InodeRelease(f)
  PROVE  FileInv' /\ StaysFound
<1>1. f \in Live /\ lists' = lists
  BY DEF InodeRelease
<1>2. CASE inode[f].blocks <= Direct
  <2>1. freeMap' = freeMap \ Released(f) /\ inode' = [inode EXCEPT ![f] = NoInode]
    BY <1>2 DEF InodeRelease
  <2>2. /\ freeMap \subseteq SectorIds /\ Reserved \subseteq freeMap /\ lists \in Index
        /\ inode \in [Files -> DiskInode \cup {NoInode}]
        /\ \A h \in Files : inode[h] = NoInode \/ (inode[h] \in DiskInode /\ inode[h].sector # 0)
        /\ \A h \in Live : Measured(inode[h])
        /\ Owned(Live, inode, lists, freeMap)
    BY DEF FileInv, Live
  <2>3. /\ \A h \in Live : inode[h] \in DiskInode
        /\ inode[f].blocks \in Nat \ {0}
    BY <1>1, <2>2 DEF Live, DiskInode
  <2>4. inode'[f] = NoInode /\ (\A h \in Files \ {f} : inode'[h] = inode[h])
    BY ONLY <2>1, <2>2, f \in Files
  <2>5. Live' = Live \ {f}
    BY ONLY <2>4, f \in Files DEF Live
  <2>6. \A h \in Live \ {f} : inode'[h] = inode[h]
    BY <2>4 DEF Live
  <2>7. Owned(Live \ {f}, inode', lists, freeMap \ Released(f)) /\ Released(f) \cap Reserved = {}
    <3>1. Released(f) = GivenBack(inode[f])
      BY DEF Released, GivenBack
    <3>2. Owned(Live, inode, lists, freeMap)
      BY ONLY <2>2
    <3>3. inode[f].blocks \in Nat \ {0}
      BY ONLY <2>3
    <3> QED
      BY ONLY <1>1, <1>2, <2>6, <3>1, <3>2, <3>3, OwnedReleased
  <2>8. FileInv'
    <3>1. inode' \in [Files -> DiskInode \cup {NoInode}]
      BY ONLY <2>1, <2>2
    <3>2. \A h \in Live \ {f} : inode'[h].sector # 0
      BY ONLY <2>2, <2>6 DEF Live
    <3> QED
      BY ONLY <3>1, <3>2, <1>1, <2>1, <2>2, <2>4, <2>5, <2>6, <2>7, f \in Files DEF FileInv
  <2>9. \A h \in Live : inode'[h] # NoInode => inode'[h] = inode[h] /\ inode[h].blocks \in Nat
    BY ONLY <2>3, <2>4, <2>6 DEF DiskInode
  <2>10. StaysFound
    BY ONLY <1>1, <2>9, HasBlock DEF StaysFound, BlocksOf
  <2> QED
    BY ONLY <2>8, <2>10
<1>3. CASE ~(inode[f].blocks <= Direct)
  BY <1>3, FilesUnchanged DEF InodeRelease
<1> QED
  BY ONLY <1>2, <1>3

(* Each step. *)
LEMMA FilesStep == FileInv /\ [InodeNext]_inodeVars => FileInv' /\ StaysFound
<1> SUFFICES ASSUME FileInv, [InodeNext]_inodeVars PROVE FileInv' /\ StaysFound
  OBVIOUS
<1>1. CASE InodeNext
  BY <1>1, CreateStep, AppendStep, ReleaseStep DEF InodeNext
<1>2. CASE UNCHANGED inodeVars
  BY <1>2, FilesUnchanged DEF inodeVars
<1> QED
  BY <1>1, <1>2

(* The sectors of its lists that a file reaches, by its number of blocks.  *)
LEMMA ListsReached ==
  ASSUME NEW b \in Nat, b > Direct + ListSize
  PROVE  \A i \in Nat : i \in 0 .. (b - Direct - ListSize + ListSize - 1) \div ListSize - 1 <=> Has(b, "list", i)
<1>1. PICK L \in Nat \ {0}, D \in Nat \ {0} : L = ListSize /\ D = Direct
  BY InodeAssumption
<1>2. PICK x \in Nat \ {0} : x = b - D - L
  BY ONLY <1>1, b \in Nat, b > Direct + ListSize
<1>3. PICK e \in Nat : e = x + L - 1 /\ e = b - D - L + L - 1
  BY ONLY <1>1, <1>2, b \in Nat
<1>4. PICK q \in Nat, r \in 0 .. L - 1 : q = e \div L /\ e = q * L + r
  <2>1. e \div L \in Nat /\ e % L \in 0 .. L - 1 /\ e = (e \div L) * L + (e % L)
    BY ONLY <1>1, e \in Nat
  <2> QED
    BY ONLY <2>1
<1>5. ASSUME NEW i \in Nat PROVE i \in 0 .. q - 1 <=> i * L < x
  <2>1. i * L \in Int /\ q * L \in Int
    BY ONLY <1>1, i \in Nat, q \in Nat
  <2>2. CASE i < q
    <3>1. PICK j \in Nat : q = i + 1 + j
      <4>1. q - i - 1 \in Nat /\ q = i + 1 + (q - i - 1)
        BY ONLY <2>2, i \in Nat, q \in Nat
      <4> QED
        BY ONLY <4>1
    <3>2. q * L = i * L + L + j * L /\ j * L \in Int /\ j * L >= 0
      BY ONLY <1>1, <3>1, i \in Nat, j \in Nat
    <3>3. i * L < x
      BY ONLY <1>1, <1>3, <1>4, <2>1, <3>2, x \in Nat, r \in 0 .. L - 1
    <3> QED
      BY ONLY <2>2, <3>3, i \in Nat, q \in Nat
  <2>3. CASE ~(i < q)
    <3>1. PICK j \in Nat : i = q + j
      <4>1. i - q \in Nat /\ i = q + (i - q)
        BY ONLY <2>3, i \in Nat, q \in Nat
      <4> QED
        BY ONLY <4>1
    <3>2. i * L = q * L + j * L /\ j * L \in Int /\ j * L >= 0
      BY ONLY <1>1, <3>1, q \in Nat, j \in Nat
    <3>3. ~(i * L < x)
      BY ONLY <1>1, <1>3, <1>4, <2>1, <3>2, x \in Nat, r \in 0 .. L - 1
    <3> QED
      BY ONLY <2>3, <3>3, i \in Nat, q \in Nat
  <2> QED
    BY ONLY <2>2, <2>3
<1>6. \A i : Has(b, "list", i) <=> i * L < x
  BY ONLY <1>1, <1>2 DEF Has
<1> QED
  BY ONLY <1>1, <1>3, <1>4, <1>5, <1>6

(* What the model's lookups and index sectors are of a file in use. *)
Lookups(f) ==
  /\ \A off : FindBlock(f, off) = At(inode[f], lists, "block", off)
  /\ \A off : off \in BlocksOf(f) <=> off \in Nat /\ Has(inode[f].blocks, "block", off)
  /\ \A s : s \in Metadata(f) <=> \E k \in Kind \ {"block"}, m \in Nat :
                                    Has(inode[f].blocks, k, m) /\ At(inode[f], lists, k, m) = s

LEMMA LookupsAre ==
  ASSUME FileInv, NEW f \in Live
  PROVE  Lookups(f)
<1> DEFINE b  == inode[f].blocks
           Reached(s) == \E k \in Kind \ {"block"}, m \in Nat : Has(b, k, m) /\ At(inode[f], lists, k, m) = s
<1>1. b \in Nat \ {0}
  BY DEF FileInv, Live, DiskInode
<1>2. \A off : FindBlock(f, off) = At(inode[f], lists, "block", off)
  BY DEF FindBlock, At, BlockAt
<1>3. \A off : off \in BlocksOf(f) <=> off \in Nat /\ Has(b, "block", off)
  BY <1>1 DEF BlocksOf, Has
<1>4. PICK L \in Nat \ {0}, D \in Nat \ {0} : L = ListSize /\ D = Direct
  BY InodeAssumption
<1>5. /\ Has(b, "inode", 0) /\ At(inode[f], lists, "inode", 0) = inode[f].sector
      /\ b > D => Has(b, "single", 0) /\ At(inode[f], lists, "single", 0) = inode[f].number[Direct]
      /\ b > D + L => Has(b, "double", 0) /\ At(inode[f], lists, "double", 0) = inode[f].number[Direct + 1]
      /\ \A i : At(inode[f], lists, "list", i) = lists[inode[f].number[Direct + 1]][i]
      /\ {"inode", "single", "double", "list"} = Kind \ {"block"} /\ 0 \in Nat
  BY ONLY <1>4 DEF Has, At, Kind
<1>6. b > D + L => \A i \in Nat : i \in 0 .. ListsUsed(f) - 1 <=> Has(b, "list", i)
  <2>1. b \in Nat
    BY ONLY <1>1
  <2> QED
    BY ONLY <1>4, <2>1, ListsReached DEF ListsUsed
<1>7. \A i : i \in 0 .. ListsUsed(f) - 1 => i \in Nat
  <2>1. ASSUME NEW i \in 0 .. ListsUsed(f) - 1 PROVE i \in Nat
    OBVIOUS
  <2> QED
    BY ONLY <2>1
<1>8. \A s : s \in IndexSectors(f) <=>
        \/ b > D /\ s = inode[f].number[Direct]
        \/ b > D + L /\ s = inode[f].number[Direct + 1]
        \/ b > D + L /\ \E i \in 0 .. ListsUsed(f) - 1 : s = lists[inode[f].number[Direct + 1]][i]
  <2> DEFINE number == inode[f].number
             One1 == {number[Direct] : i \in {1} \cap {One(b > Direct)}}
             Two  == {number[Direct + 1]} \cup {lists[number[Direct + 1]][i] : i \in 0 .. ListsUsed(f) - 1}
  <2>1. \A s : s \in One1 <=> b > D /\ s = number[Direct]
    <3>1. One(b > Direct) = IF b > D THEN 1 ELSE 0
      BY ONLY <1>4 DEF One
    <3>2. CASE b > D
      BY ONLY <1>4, <3>1, <3>2
    <3>3. CASE ~(b > D)
      BY ONLY <1>4, <3>1, <3>3
    <3> QED
      BY ONLY <3>2, <3>3
  <2>2. \A s : s \in Two <=> \/ s = number[Direct + 1]
                            \/ \E i \in 0 .. ListsUsed(f) - 1 : s = lists[number[Direct + 1]][i]
    OBVIOUS
  <2>3. IndexSectors(f) = One1 \cup (IF b <= Direct + ListSize THEN {} ELSE Two)
    BY DEF IndexSectors
  <2>4. b <= Direct + ListSize <=> ~(b > D + L)
    BY ONLY <1>1, <1>4
  <2> HIDE DEF One1, Two
  <2> QED
    BY ONLY <2>1, <2>2, <2>3, <2>4
<1>9. ASSUME NEW s, s \in Metadata(f) PROVE Reached(s)
  <2>1. s = inode[f].sector \/ s \in IndexSectors(f)
    BY <1>9 DEF Metadata
  <2>2. CASE b > D + L /\ \E i \in 0 .. ListsUsed(f) - 1 : s = lists[inode[f].number[Direct + 1]][i]
    BY ONLY <1>5, <1>6, <1>7, <2>2
  <2> QED
    BY ONLY <1>5, <1>8, <2>1, <2>2
<1>10. ASSUME NEW s, NEW k \in Kind \ {"block"}, NEW m \in Nat, Has(b, k, m), At(inode[f], lists, k, m) = s
       PROVE  s \in Metadata(f)
  <2>1. CASE k = "inode"
    BY <1>10, <2>1 DEF At, Metadata
  <2>2. CASE k = "single"
    BY ONLY <1>4, <1>5, <1>8, <1>10, <2>2 DEF Has, At, Metadata
  <2>3. CASE k = "double"
    <3>1. b > D + L /\ s = inode[f].number[Direct + 1]
      BY ONLY <1>4, <1>10, <2>3 DEF Has, At
    <3> QED
      BY ONLY <1>8, <3>1 DEF Metadata
  <2>4. CASE k = "list"
    <3>1. m * L < b - D - L
      BY ONLY <1>4, <1>10, <2>4 DEF Has
    <3>2. m * L \in Int /\ m * L >= 0
      BY ONLY <1>4, m \in Nat
    <3>3. b > D + L
      BY ONLY <1>1, <1>4, <3>1, <3>2
    <3>4. m \in 0 .. ListsUsed(f) - 1 /\ s = lists[inode[f].number[Direct + 1]][m]
      BY ONLY <1>5, <1>6, <1>10, <2>4, <3>3, m \in Nat
    <3> QED
      BY ONLY <1>8, <3>3, <3>4 DEF Metadata
  <2> QED
    BY ONLY <1>5, <2>1, <2>2, <2>3, <2>4
<1>11. \A s : s \in Metadata(f) <=> Reached(s)
  BY ONLY <1>9, <1>10
<1> QED
  BY ONLY <1>2, <1>3, <1>11 DEF Lookups

(* The blocks of files, as pairs. *)
LEMMA BlocksAll ==
  /\ \A p \in Blocks : p[1] \in Live /\ p[2] \in BlocksOf(p[1]) /\ p = <<p[1], p[2]>>
  /\ \A f \in Live : \A off \in BlocksOf(f) : <<f, off>> \in Blocks
BY DEF Blocks

LEMMA FilesFound == FileInv => BlocksFound /\ SectorsAccounted
<1> SUFFICES ASSUME FileInv PROVE BlocksFound /\ SectorsAccounted
  OBVIOUS
<1>1. \A f \in Live : Lookups(f)
  BY LookupsAre
<1>2. /\ freeMap \subseteq SectorIds /\ Reserved \subseteq freeMap
      /\ Owned(Live, inode, lists, freeMap)
  BY DEF FileInv
<1>3. /\ \A f \in Live, k \in Kind, n \in Nat :
           Has(inode[f].blocks, k, n) => At(inode[f], lists, k, n) \in freeMap \ Reserved
      /\ \A f, g \in Live, k, l \in Kind, m, n \in Nat :
           /\ Has(inode[f].blocks, k, m) /\ Has(inode[g].blocks, l, n)
           /\ At(inode[f], lists, k, m) = At(inode[g], lists, l, n)
           => f = g /\ k = l /\ m = n
      /\ \A s \in freeMap : \/ s \in Reserved
                            \/ \E f \in Live, k \in Kind, n \in Nat :
                                 Has(inode[f].blocks, k, n) /\ At(inode[f], lists, k, n) = s
  BY ONLY <1>2 DEF Owned
<1>4. "block" \in Kind
  BY DEF Kind
<1>5. \A p \in Blocks :
        /\ p[1] \in Live /\ p[2] \in Nat /\ p = <<p[1], p[2]>>
        /\ Has(inode[p[1]].blocks, "block", p[2])
        /\ FindBlock(p[1], p[2]) = At(inode[p[1]], lists, "block", p[2])
  BY ONLY <1>1, BlocksAll DEF Lookups
<1>6. ASSUME NEW p \in Blocks, NEW q \in Blocks, FindBlock(p[1], p[2]) = FindBlock(q[1], q[2])
      PROVE  p = q
  <2>1. p[1] = q[1] /\ p[2] = q[2]
    BY ONLY <1>3, <1>4, <1>5, <1>6, p \in Blocks, q \in Blocks
  <2> QED
    BY ONLY <1>5, <2>1, p \in Blocks, q \in Blocks
<1>7. ASSUME NEW p \in Blocks, NEW f \in Live
      PROVE  FindBlock(p[1], p[2]) \in freeMap \ Reserved /\ FindBlock(p[1], p[2]) \notin Metadata(f)
  <2>1. FindBlock(p[1], p[2]) \in freeMap \ Reserved
    BY ONLY <1>3, <1>4, <1>5, p \in Blocks
  <2>2. ASSUME FindBlock(p[1], p[2]) \in Metadata(f) PROVE FALSE
    <3>1. PICK k \in Kind \ {"block"}, m \in Nat :
            Has(inode[f].blocks, k, m) /\ At(inode[f], lists, k, m) = FindBlock(p[1], p[2])
      BY ONLY <1>1, <2>2, f \in Live DEF Lookups
    <3>2. k \in Kind /\ k # "block"
      OBVIOUS
    <3> QED
      BY ONLY <1>3, <1>4, <1>5, <3>1, <3>2, p \in Blocks, f \in Live, m \in Nat
  <2> QED
    BY ONLY <2>1, <2>2
<1>8. BlocksFound
  BY ONLY <1>6, <1>7 DEF BlocksFound
<1> DEFINE Marked == Reserved \cup {FindBlock(p[1], p[2]) : p \in Blocks} \cup UNION {Metadata(f) : f \in Live}
<1>9. ASSUME NEW s \in freeMap PROVE s \in Marked
  <2>1. CASE s \in Reserved
    BY ONLY <2>1
  <2>2. ASSUME NEW f \in Live, NEW k \in Kind, NEW n \in Nat,
               Has(inode[f].blocks, k, n), At(inode[f], lists, k, n) = s
        PROVE  s \in Marked
    <3>1. CASE k = "block"
      <4>1. n \in BlocksOf(f) /\ s = FindBlock(f, n)
        BY ONLY <1>1, <2>2, <3>1, f \in Live, n \in Nat DEF Lookups
      <4>2. <<f, n>> \in Blocks
        BY ONLY <4>1, BlocksAll, f \in Live
      <4>3. s = FindBlock(<<f, n>>[1], <<f, n>>[2])
        BY ONLY <4>1
      <4> QED
        BY ONLY <4>2, <4>3
    <3>2. CASE k # "block"
      <4>1. s \in Metadata(f)
        BY ONLY <1>1, <2>2, <3>2, f \in Live, n \in Nat, k \in Kind DEF Lookups
      <4> QED
        BY ONLY <4>1, f \in Live
    <3> QED
      BY ONLY <3>1, <3>2
  <2> QED
    BY ONLY <1>3, <2>1, <2>2, s \in freeMap
<1>10. ASSUME NEW s \in Marked PROVE s \in freeMap
  <2>1. CASE s \in Reserved
    BY ONLY <1>2, <2>1
  <2>2. ASSUME NEW f \in Live, s \in Metadata(f) PROVE s \in freeMap
    BY ONLY <1>1, <1>3, <2>2, f \in Live DEF Lookups
  <2>3. ASSUME NEW p \in Blocks, s = FindBlock(p[1], p[2]) PROVE s \in freeMap
    BY ONLY <1>5, <1>7, <2>3, p \in Blocks
  <2> QED
    BY ONLY <2>1, <2>2, <2>3, s \in Marked
<1>11. SectorsAccounted
  BY ONLY <1>9, <1>10 DEF SectorsAccounted
<1> QED
  BY ONLY <1>8, <1>11

(* inode.c and free-map.c: whatever is created, extended and released, and  *)
(* for every size of inodes, lists and disks, files own what they reach.    *)
THEOREM FileInvariant == InodeSpec => []FileInv
<1>1. InodeInit => FileInv
  BY InitFiles
<1>2. FileInv /\ [InodeNext]_inodeVars => FileInv'
  BY FilesStep
<1> QED
  BY <1>1, <1>2, PTL DEF InodeSpec

(* inode.c, file_grow() and find_directblock(): each block number that a    *)
(* lookup computes is the one that growth assigned, and no two of them, nor *)
(* an inode or a list, share a sector.                                      *)
THEOREM BlocksFoundThm == InodeSpec => []BlocksFound
<1>1. FileInv => BlocksFound
  BY FilesFound
<1> QED
  BY <1>1, FileInvariant, PTL

(* free-map.c and inode.c: the free map marks what inodes reach and nothing *)
(* else.                                                                    *)
THEOREM SectorsAccountedThm == InodeSpec => []SectorsAccounted
<1>1. FileInv => SectorsAccounted
  BY FilesFound
<1> QED
  BY <1>1, FileInvariant, PTL

(* inode.c, file_grow(): extending a list moves no block of any file.       *)
THEOREM BlocksStayThm == InodeSpec => BlocksStay
<1> DEFINE Stay == \A f \in Live : inode'[f] # NoInode =>
                     \A off \in BlocksOf(f) : FindBlock(f, off)' = FindBlock(f, off)
<1>1. InodeInit => FileInv
  BY InitFiles
<1>2. FileInv /\ [InodeNext]_inodeVars => FileInv' /\ StaysFound
  BY FilesStep
<1>3. FileInv /\ FileInv' /\ StaysFound => Stay
  <2> SUFFICES ASSUME FileInv, FileInv', StaysFound, NEW f \in Live, inode'[f] # NoInode,
                      NEW off \in BlocksOf(f)
               PROVE  FindBlock(f, off)' = FindBlock(f, off)
    OBVIOUS
  <2>1. FindBlock(f, off) = At(inode[f], lists, "block", off) /\ off \in Nat /\ Has(inode[f].blocks, "block", off)
    BY LookupsAre DEF Lookups
  <2>2. FindBlock(f, off)' = At(inode'[f], lists', "block", off)
    BY DEF FindBlock, At, BlockAt
  <2>3. At(inode'[f], lists', "block", off) = At(inode[f], lists, "block", off)
    BY <2>1 DEF StaysFound, Kind
  <2> QED
    BY <2>1, <2>2, <2>3
<1>4. FileInv /\ [InodeNext]_inodeVars => FileInv' /\ [Stay]_inodeVars
  BY <1>2, <1>3
<1> QED
  BY <1>1, <1>4, PTL DEF InodeSpec, BlocksStay

(* One more block always has its place. *)
LEMMA OneMoreBlock ==
  ASSUME NEW b \in Nat \ {0}
  PROVE  LET d == Division(b, 1) IN d.direct + d.single + d.double + d.further = 1
<1>1. PICK L \in Nat \ {0}, D \in Nat \ {0} : L = ListSize /\ D = Direct
  BY InodeAssumption
<1> DEFINE d      == Division(b, 1)
           direct == IF b < Direct THEN Smaller(1, Direct - b) ELSE 0
           index  == b + direct - Direct
           single == IF 1 > direct /\ index < ListSize
                     THEN IF index + 1 - direct > ListSize THEN ListSize ELSE 1 - direct
                     ELSE 0
           left   == 1 - direct - single
           before == index + single - ListSize
           double == IF left > 0 THEN Smaller(left, RoomInList(before)) ELSE 0
           more   == left - double
<1>2. /\ d.direct = direct /\ d.single = single /\ d.double = double
      /\ d.further = IF more <= ListSize THEN more ELSE double
  BY DEF Division
<1>3. direct = IF b < D THEN 1 ELSE 0
  BY <1>1 DEF Smaller
<1>4. \A x \in Int : RoomInList(x) \in 1 .. L
  BY ONLY <1>1 DEF RoomInList
<1> HIDE DEF d, direct
<1>5. ASSUME b < D PROVE d.direct + d.single + d.double + d.further = 1
  <2>1. direct = 1 /\ single = 0 /\ left = 0
    BY ONLY <1>1, <1>3, <1>5
  <2> HIDE DEF single, left
  <2>2. double = 0 /\ more = 0
    BY ONLY <2>1
  <2> QED
    BY ONLY <1>1, <1>2, <2>1, <2>2
<1>6. ASSUME ~(b < D) PROVE d.direct + d.single + d.double + d.further = 1
  <2>1. direct = 0 /\ index = b - D /\ index \in Nat
    BY ONLY <1>1, <1>3, <1>6, b \in Nat
  <2> HIDE DEF index
  <2>2. CASE index < L
    <3>1. single = 1 /\ left = 0
      BY ONLY <1>1, <2>1, <2>2
    <3> HIDE DEF single, left
    <3>2. double = 0 /\ more = 0
      BY ONLY <3>1
    <3> QED
      BY ONLY <1>1, <1>2, <2>1, <3>1, <3>2
  <2>3. CASE ~(index < L)
    <3>1. single = 0 /\ left = 1 /\ before \in Int
      BY ONLY <1>1, <2>1, <2>3
    <3> HIDE DEF single, left, before
    <3>2. double = 1 /\ more = 0
      BY ONLY <1>1, <1>4, <3>1 DEF Smaller
    <3> QED
      BY ONLY <1>1, <1>2, <2>1, <3>1, <3>2
  <2> QED
    BY ONLY <2>2, <2>3
<1> QED
  BY ONLY <1>5, <1>6 DEF d

(* inode.c, file_grow(): the slip of its loop over further lists is met by  *)
(* creation only.  A directory, which grows by an entry at a time, never    *)
(* loses a block to it.                                                     *)
THEOREM AppendsDivideExactly ==
  InodeSpec => [][\A f \in Files : InodeAppend(f) => left_out' # "division"]_inodeVars
<1>1. ASSUME FileInv, NEW f \in Files, InodeAppend(f) PROVE left_out' # "division"
  <2> DEFINE b   == inode[f].blocks
             end == inode[f].length + EntryBytes
             new == end \div SectorBytes + 1 - b
  <2>1. left_out' = IF new > 0 THEN LeftOut(Division(b, new), new, freeMap) ELSE "none"
    BY <1>1 DEF InodeAppend, WriteTo
  <2>2. b \in Nat \ {0} /\ inode[f].length \in Nat /\ b = inode[f].length \div SectorBytes + 1
    BY <1>1 DEF InodeAppend, FileInv, Live, DiskInode, Measured
  <2>3. /\ end \div SectorBytes + 1 \in
             {inode[f].length \div SectorBytes + 1, inode[f].length \div SectorBytes + 2}
        /\ inode[f].length \div SectorBytes \in Nat
    BY ONLY <2>2, EndBlock
  <2>4. new \in {0, 1}
    <3>1. PICK c \in Nat : c = inode[f].length \div SectorBytes
      BY ONLY <2>3
    <3>2. b = c + 1 /\ end \div SectorBytes + 1 \in {c + 1, c + 2} /\ end \div SectorBytes \in Nat
      <4>1. end \in Nat
        BY ONLY <2>2, EndBlock
      <4> QED
        BY ONLY <2>2, <2>3, <3>1, <4>1, EndBlock
    <3> HIDE DEF b, end
    <3> QED
      BY ONLY <3>2, c \in Nat
  <2> HIDE DEF new, b
  <2>5. new = 1 => LeftOut(Division(b, new), new, freeMap) # "division"
    BY ONLY <2>2, OneMoreBlock DEF LeftOut
  <2> QED
    BY ONLY <2>1, <2>4, <2>5
<1>2. FileInv /\ [InodeNext]_inodeVars =>
        [\A f \in Files : InodeAppend(f) => left_out' # "division"]_inodeVars
  BY <1>1
<1> QED
  BY <1>2, FileInvariant, PTL DEF InodeSpec
=============================================================================
