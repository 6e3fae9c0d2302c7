------------------------------- MODULE Malloc -------------------------------
(***************************************************************************)
(* The block allocator of threads/malloc.c over a pool of pages.  A        *)
(* descriptor's lock is held while an arena is made or given back, calls   *)
(* of the page allocator included; what else happens under the lock is one *)
(* action.  Sizes matter only as the descriptor they select, or the number *)
(* of pages of a big block.  calloc() and realloc() are malloc() and       *)
(* free() in sequence.                                                     *)
(***************************************************************************)
EXTENDS Palloc, Sequences, FiniteSets

CONSTANTS
  Desc,            \* descriptors
  BlocksPerArena,
  BigPages         \* page counts of big blocks

ASSUME MallocAssumption ==
  /\ NoAllocator \notin Desc
  /\ BlocksPerArena \in Nat \ {0}
  /\ BigPages \subseteq Nat \ {0}

VARIABLES
  descLock,    \* holder of each descriptor's lock
  free_list,   \* the free blocks of each descriptor, first to last
  arena,       \* arena headers: the descriptor and free_cnt, or NoArena
  allocated,   \* blocks handed out and not freed
  big,         \* big blocks handed out and not freed
  call         \* the call of the page allocator that each thread is in

arenaVars  == <<descLock, free_list, arena, allocated, big, call>>
mallocVars == <<pallocVars, arenaVars>>

Block   == Page \X (1 .. BlocksPerArena)
NoArena == [desc |-> NoAllocator, free_cnt |-> 0]
NoCall  == [kind |-> "none", desc |-> NoAllocator]
BlocksIn(page)  == [i \in 1 .. BlocksPerArena |-> <<page, i>>]
Idling(t) == call[t] = NoCall
InCall(t, kind) == call[t].kind = kind /\ OutsidePalloc(t)
Enter(t, kind, d) == call' = [call EXCEPT ![t] = [kind |-> kind, desc |-> d]]
Leave(t) == call' = [call EXCEPT ![t] = NoCall]

MallocInit ==
  /\ PallocInit
  /\ descLock = [d \in Desc |-> NoAllocator]
  /\ free_list = [d \in Desc |-> <<>>]
  /\ arena = [p \in Page |-> NoArena]
  /\ allocated = {} /\ big = {}
  /\ call = [t \in Allocator |-> NoCall]

\* Mutant: the arena's count of free blocks is not reduced.
PopBlockUncounted(d, list, headers) ==
  LET b == Head(list)
  IN  /\ free_list' = [free_list EXCEPT ![d] = Tail(list)]
      /\ arena' = headers
      /\ allocated' = allocated \cup {b}

\* The first block of a list leaves it.
PopBlock(d, list, headers) ==
  LET b == Head(list)
  IN  /\ free_list' = [free_list EXCEPT ![d] = Tail(list)]
      /\ arena' = [headers EXCEPT ![b[1]].free_cnt = @ - 1]
      /\ allocated' = allocated \cup {b}

\* malloc() of a block when the free list has one.
MallocBlock(t, d) ==
  /\ Idling(t) /\ descLock[d] = NoAllocator
  /\ free_list[d] # <<>>
  /\ PopBlock(d, free_list[d], arena)
  /\ UNCHANGED <<pallocVars, descLock, big, call>>

\* The free list is empty: a page is asked for, with the lock held.
MallocArena(t, d) ==
  /\ Idling(t) /\ descLock[d] = NoAllocator
  /\ free_list[d] = <<>>
  /\ descLock' = [descLock EXCEPT ![d] = t]
  /\ Enter(t, "arena", d)
  /\ WantPages(t, 1)
  /\ UNCHANGED <<free_list, arena, allocated, big>>

\* The page becomes an arena, and its first block the result, or malloc()
\* fails.
ArenaMade(t) ==
  LET d == call[t].desc
      p == found[t].page
  IN  /\ InCall(t, "arena")
      /\ IF found[t] = Nothing
         THEN UNCHANGED <<free_list, arena, allocated>>
         ELSE PopBlock(d, free_list[d] \o BlocksIn(p),
                [arena EXCEPT ![p] = [desc |-> d, free_cnt |-> BlocksPerArena]])
      /\ descLock' = [descLock EXCEPT ![d] = NoAllocator]
      /\ found' = [found EXCEPT ![t] = Nothing]
      /\ Leave(t)
      /\ UNCHANGED <<used_map, poolLock, search, clearing, big>>

\* malloc() of more than a descriptor's block.
MallocBig(t, cnt) ==
  /\ Idling(t)
  /\ Enter(t, "big", NoAllocator)
  /\ WantPages(t, cnt)
  /\ UNCHANGED <<descLock, free_list, arena, allocated, big>>

BigMade(t) ==
  /\ InCall(t, "big")
  /\ big' = IF found[t] = Nothing THEN big ELSE big \cup {found[t]}
  /\ found' = [found EXCEPT ![t] = Nothing]
  /\ Leave(t)
  /\ UNCHANGED <<used_map, poolLock, search, clearing, descLock, free_list, arena, allocated>>

\* The rest of a list after list_remove() of each of some blocks.
Without(list, gone) ==
  LET kept == {i \in DOMAIN list : list[i] \notin gone}
  IN  [n \in 1 .. Cardinality(kept) |->
         list[CHOOSE i \in kept : Cardinality({j \in kept : j <= i}) = n]]

\* free() of a block: it goes to the front of the list, and when all blocks
\* of its arena are free they leave the list and the page is given back,
\* still under the lock.
FreeBlock(t, b) ==
  LET p    == b[1]
      d    == arena[p].desc
      list == <<b>> \o free_list[d]
  IN  /\ Idling(t) /\ b \in allocated
      /\ descLock[d] = NoAllocator
      /\ allocated' = allocated \ {b}
      /\ IF arena[p].free_cnt + 1 < BlocksPerArena
         THEN /\ free_list' = [free_list EXCEPT ![d] = list]
              /\ arena' = [arena EXCEPT ![p].free_cnt = @ + 1]
              /\ UNCHANGED <<pallocVars, descLock, call>>
         ELSE /\ free_list' = [free_list EXCEPT ![d] =
                                 Without(list, {p} \X (1 .. BlocksPerArena))]
              /\ arena' = [arena EXCEPT ![p] = NoArena]
              /\ descLock' = [descLock EXCEPT ![d] = t]
              /\ Enter(t, "release", d)
              /\ FreePages(t, {p})
      /\ UNCHANGED big

ArenaReleased(t) ==
  /\ InCall(t, "release")
  /\ descLock' = [descLock EXCEPT ![call[t].desc] = NoAllocator]
  /\ Leave(t)
  /\ UNCHANGED <<pallocVars, free_list, arena, allocated, big>>

\* free() of a big block.
FreeBig(t, b) ==
  /\ Idling(t) /\ b \in big
  /\ big' = big \ {b}
  /\ FreePages(t, Run(b.page, b.cnt))
  /\ Enter(t, "free", NoAllocator)
  /\ UNCHANGED <<descLock, free_list, arena, allocated>>

BigFreed(t) ==
  /\ InCall(t, "free")
  /\ Leave(t)
  /\ UNCHANGED <<pallocVars, descLock, free_list, arena, allocated, big>>

MallocNext ==
  \E t \in Allocator :
    \/ \E d \in Desc : MallocBlock(t, d) \/ MallocArena(t, d)
    \/ \E cnt \in BigPages : MallocBig(t, cnt)
    \/ \E b \in allocated : FreeBlock(t, b)
    \/ \E b \in big : FreeBig(t, b)
    \/ ArenaMade(t) \/ BigMade(t) \/ ArenaReleased(t) \/ BigFreed(t)
    \/ InsidePalloc(t) /\ UNCHANGED arenaVars

MallocSpec == MallocInit /\ [][MallocNext]_mallocVars

(***************************************************************************)
(* Properties                                                              *)
(***************************************************************************)

Arenas == {p \in Page : arena[p] # NoArena}

\* The ways in which a page can be owned.
Owners(p) ==
  {<<"arena", p>> : q \in Arenas \cap {p}}
  \cup {<<"big", b>> : b \in {b \in big : p \in Run(b.page, b.cnt)}}
  \cup {<<"found", t>> : t \in {t \in Allocator : found[t] # Nothing
                                     /\ p \in Run(found[t].page, found[t].cnt)}}
  \cup {<<"clearing", t>> : t \in {t \in Allocator : p \in clearing[t]}}

\* However searches interleave with pages being given back without the lock,
\* no page is handed out twice, and a page whose bit is set is owned by
\* exactly one arena, big block or call: none is lost.
PagesOwnedOnce ==
  \A p \in Page : Cardinality(Owners(p)) = IF p \in used_map THEN 1 ELSE 0

\* Each block of an arena is either handed out or once on the free list of
\* the arena's descriptor; free_cnt is the number of the free ones, and is
\* less than all of them, so that an empty free list means that every block
\* is in use.
BlocksExact ==
  LET Free(d) == {free_list[d][i] : i \in DOMAIN free_list[d]}
  IN  /\ \A d \in Desc :
           /\ Cardinality(Free(d)) = Len(free_list[d])
           /\ Free(d) = {b \in Block : arena[b[1]].desc = d} \ allocated
      /\ allocated \subseteq Arenas \X (1 .. BlocksPerArena)
      /\ \A p \in Arenas :
           /\ arena[p].free_cnt < BlocksPerArena
           /\ arena[p].free_cnt =
                Cardinality({b \in Block : b[1] = p} \ allocated)
=============================================================================
