------------------------------- MODULE Palloc -------------------------------
(***************************************************************************)
(* A pool of threads/palloc.c.  palloc_get_multiple() looks for a run of   *)
(* clear bits under the pool's lock, one candidate after the other;        *)
(* palloc_free_multiple() clears bits one at a time without the lock,      *)
(* while a search may be under way.  The user pool and the kernel pool are *)
(* two of these, and have no state in common.                              *)
(***************************************************************************)
EXTENDS Naturals

CONSTANTS
  Allocator,   \* threads that use the pool
  PoolPages,   \* pages in the pool
  NoAllocator  \* nobody, or no page

ASSUME PallocAssumption ==
  /\ PoolPages \in Nat \ {0}
  /\ NoAllocator \notin Allocator \cup Nat

VARIABLES
  used_map,    \* pages whose bit is set
  poolLock,    \* holder of the pool's lock
  search,      \* search[t]: pages wanted and the candidate reached
  found,       \* what the last palloc_get_multiple() of a thread returned
  clearing     \* pages that a thread is giving back, bits still to clear

pallocVars == <<used_map, poolLock, search, found, clearing>>

Page == 0 .. PoolPages - 1
Run(first, cnt) == first .. first + cnt - 1
NoSearch == [cnt |-> 0, at |-> 0]
Nothing  == [cnt |-> 0, page |-> NoAllocator]

\* A thread is not inside the allocator.
OutsidePalloc(t) == search[t] = NoSearch /\ clearing[t] = {}

PallocInit ==
  /\ used_map = {}
  /\ poolLock = NoAllocator
  /\ search = [t \in Allocator |-> NoSearch]
  /\ found = [t \in Allocator |-> Nothing]
  /\ clearing = [t \in Allocator |-> {}]

\* The call of palloc_get_multiple(): the search starts with the lock.
WantPages(t, cnt) ==
  /\ OutsidePalloc(t)
  /\ search' = [search EXCEPT ![t] = [cnt |-> cnt, at |-> 0]]
  /\ found' = [found EXCEPT ![t] = Nothing]
  /\ UNCHANGED <<used_map, poolLock, clearing>>

LockPool(t) ==
  /\ search[t] # NoSearch /\ poolLock = NoAllocator
  /\ poolLock' = t
  /\ UNCHANGED <<used_map, search, found, clearing>>

EndSearch(t, result) ==
  /\ search' = [search EXCEPT ![t] = NoSearch]
  /\ found' = [found EXCEPT ![t] = result]
  /\ poolLock' = NoAllocator
  /\ UNCHANGED clearing

\* Mutant: only the first page of the run is tested.
TakePagesUntested(t) ==
  LET s == search[t]
  IN  /\ poolLock = t
      /\ Run(s.at, s.cnt) \subseteq Page /\ s.at \notin used_map
      /\ used_map' = used_map \cup Run(s.at, s.cnt)
      /\ EndSearch(t, [cnt |-> s.cnt, page |-> s.at])

\* bitmap_scan_and_flip(): the pages from one candidate on are all free, ...
TakePages(t) ==
  LET s == search[t]
  IN  /\ poolLock = t
      /\ Run(s.at, s.cnt) \subseteq Page \ used_map
      /\ used_map' = used_map \cup Run(s.at, s.cnt)
      /\ EndSearch(t, [cnt |-> s.cnt, page |-> s.at])

\* ... or the next candidate is tried, ...
TryNext(t) ==
  LET s == search[t]
  IN  /\ poolLock = t
      /\ s.at + s.cnt < PoolPages
      /\ Run(s.at, s.cnt) \cap used_map # {}
      /\ search' = [search EXCEPT ![t].at = @ + 1]
      /\ UNCHANGED <<used_map, poolLock, found, clearing>>

\* ... or there is none: a null pointer.
NoPages(t) ==
  LET s == search[t]
  IN  /\ poolLock = t
      /\ s.at + s.cnt >= PoolPages
      /\ s.at + s.cnt > PoolPages \/ Run(s.at, s.cnt) \cap used_map # {}
      /\ EndSearch(t, Nothing)
      /\ UNCHANGED used_map

\* palloc_free_multiple(): called on pages that are in use, ...
FreePages(t, pages) ==
  /\ OutsidePalloc(t)
  /\ pages \subseteq used_map
  /\ clearing' = [clearing EXCEPT ![t] = pages]
  /\ UNCHANGED <<used_map, poolLock, search, found>>

\* ... which bitmap_set_multiple() clears from the first to the last.
ClearBit(t) ==
  \E p \in clearing[t] :
    /\ \A q \in clearing[t] : p <= q
    /\ used_map' = used_map \ {p}
    /\ clearing' = [clearing EXCEPT ![t] = @ \ {p}]
    /\ UNCHANGED <<poolLock, search, found>>

InsidePalloc(t) ==
  LockPool(t) \/ TakePages(t) \/ TryNext(t) \/ NoPages(t) \/ ClearBit(t)
=============================================================================
