------------------------ MODULE AddressSpaceProofs ------------------------
(***************************************************************************)
(* Address spaces for any number of processes, pages and frames.  What is  *)
(* unconditional comes first (Sound): where pages may be placed, who waits *)
(* for whom in fork(), what a process that has not started or is being     *)
(* built can own, and the exact accounts of the swap store.  The account   *)
(* of the frames (Framed) holds as long as no process leaves the shared    *)
(* page mapped and two never allocate it at once.                          *)
(***************************************************************************)
EXTENDS AddressSpace, FiniteSetTheorems, TLAPS

(* Segment pages are backed by swap, the stack and the shared page by      *)
(* frames.                                                                 *)
Placed ==
  \A p \in Proc :
     /\ \A g \in Segment : sup[p][g] \in Swap \cup {NoPage}
     /\ sup[p][Stack] \in Frame \cup {NoPage}
     /\ sup[p][Shm] \in Frame \cup {NoPage}

(* A child that is being built has a parent, which waits, and for it only. *)
ForkPairs ==
  /\ \A q \in Proc : pc[q] = "forking" =>
       parent[q] \in Proc /\ pc[parent[q]] = "wait" /\ parent[q] \notin stranded
  /\ \A q, r \in Proc :
       pc[q] = "forking" /\ pc[r] = "forking" /\ parent[q] = parent[r] => q = r

(* In fork() without a child only after thread_create() has failed. *)
WaitsForChild ==
  \A p \in Proc :
    /\ pc[p] = "wait" /\ p \notin stranded =>
         \E q \in Proc : pc[q] = "forking" /\ parent[q] = p
    /\ p \in stranded => pc[p] = "wait"

(* What a process has.  Before it runs it maps nothing, and at first has   *)
(* no entries either; a mapped page has an entry, until process_exit()     *)
(* drops the entries; the stack is never unmapped; the flag tells whether  *)
(* it has the shared page; inside shared_memory_open_sys() it does not     *)
(* have it yet, and finds one when it comes to map it.                     *)
OwnAt(p) ==
  /\ pc[p] \in {"none", "load"} =>
       ~shm[p] /\ sup[p][Shm] = NoPage /\ \A g \in Page : pagedir[p][g] = NoPage
  /\ pc[p] = "none" => \A g \in Page : sup[p][g] = NoPage
  /\ pc[p] # "exiting" => \A g \in Page : pagedir[p][g] # NoPage => sup[p][g] # NoPage
  /\ sup[p][Stack] # NoPage => pagedir[p][Stack] = sup[p][Stack]
  /\ Alive(p) => (shm[p] <=> sup[p][Shm] # NoPage) /\ (shm[p] <=> pagedir[p][Shm] # NoPage)
  /\ pc[p] \in {"shmalloc", "shmmap"} => ~shm[p]
  /\ pc[p] = "shmmap" => shared_mem # NoPage

Own == \A p \in Proc : OwnAt(p)

Sound == SwapExact /\ Placed /\ ForkPairs /\ WaitsForChild /\ Own

(* Every process that has the shared page has the one shared_mem points    *)
(* to, as its page Shm, and gives it up before it exits.                   *)
OneShared ==
  \A p \in Proc :
     /\ sup[p][Shm] \in {NoPage, shared_mem}
     /\ pagedir[p][Shm] \in {NoPage, shared_mem}
     /\ \A g \in Page \ {Shm} : pagedir[p][g] # NoPage => pagedir[p][g] # shared_mem
     /\ pc[p] = "exiting" => pagedir[p][Shm] = NoPage

Framed == FramesExact /\ (Careful => OneShared)

SpaceInv == Sound /\ Framed

-----------------------------------------------------------------------------
(* The allocator and the tables.                                           *)

(* A set of numbers has a least element, and Lowest() is it.               *)
LEMMA LowestIsLeast ==
  ASSUME NEW S \in SUBSET Nat, S # {}
  PROVE  Lowest(S) \in S /\ \A j \in S : Lowest(S) <= j
<1> DEFINE Below(x) == {j \in S : j < x}
           D == {Below(x) : x \in S}
<1>1. D \subseteq FiniteSubsetsOf(S)
  <2> SUFFICES ASSUME NEW x \in S PROVE IsFiniteSet(Below(x))
    BY DEF FiniteSubsetsOf
  <2> QED
    BY Below(x) \in SUBSET Nat, x \in Nat, \A s \in Below(x) : s <= x,
       FS_BoundedSetOfNaturals
<1>2. PICK T \in D : \A U \in D : ~ (<<U, T>> \in StrictSubsetOrdering(S))
  <2>1. D # {} OBVIOUS
  <2> QED BY ONLY <1>1, <2>1, FS_StrictSubsetOrderingWellFounded, WFMin
<1>3. PICK x \in S : T = Below(x)
  BY <1>2
<1>4. ASSUME NEW y \in S, y < x
      PROVE  FALSE
  <2>2. ASSUME NEW j \in S, j < y PROVE j < x
    BY <1>4, <2>2, x \in Nat, y \in Nat, j \in Nat
  <2>3. Below(y) \subseteq Below(x)
    BY <2>2
  <2>4. ~(y < y)
    BY y \in Nat
  <2>5. y \in Below(x) /\ ~(y \in Below(y))
    BY <1>4, <2>4
  <2>6. <<Below(y), T>> \in StrictSubsetOrdering(S)
    BY <2>3, <2>5, <1>3 DEF StrictSubsetOrdering
  <2> QED BY <2>6, <1>2
<1>5. \A y \in S : x <= y
  BY <1>4
<1> QED
  BY <1>5 DEF Lowest

(* Frames and swap pages are disjoint sets of numbers; NoPage is neither.  *)
LEMMA Pools ==
  /\ Frame \in SUBSET Nat /\ Swap \in SUBSET Nat /\ Frame \cap Swap = {}
  /\ NoPage \notin Frame /\ NoPage \notin Swap /\ Phys = Frame \cup Swap
<1>1. Frame \in SUBSET Nat /\ Swap \in SUBSET Nat /\ Frame \cap Swap = {}
  BY AddressSpaceAssumption DEF Frame, Swap
<1> QED
  BY <1>1, NoPageAssumption DEF Phys

(* A pool hands out one of its free pages, and fills it.                   *)
LEMMA AllocEffect ==
  ASSUME TypeOK, NEW pool, pool = Frame \/ pool = Swap, NEW v \in Value, Alloc(pool, v)
  PROVE  /\ Lowest(FreeIn(pool)) \in pool /\ Lowest(FreeIn(pool)) \notin used
         /\ Lowest(FreeIn(pool)) # NoPage
         /\ used' = used \cup {Lowest(FreeIn(pool))} /\ used' \subseteq Phys
         /\ mem' \in [Phys -> Value] /\ mem'[Lowest(FreeIn(pool))] = v
         /\ \A f \in Phys : f # Lowest(FreeIn(pool)) => mem'[f] = mem[f]
<1>1. FreeIn(pool) # {} /\ FreeIn(pool) \in SUBSET Nat
  BY Pools DEF Alloc, FreeIn
<1>2. Lowest(FreeIn(pool)) \in FreeIn(pool)
  BY <1>1, LowestIsLeast
<1> DEFINE f == Lowest(FreeIn(pool))
<1>3. f \in pool /\ f \notin used /\ f \in Phys
  BY <1>2, Pools DEF FreeIn
<1>4. used' = used \cup {f} /\ mem' = [mem EXCEPT ![f] = v]
  BY DEF Alloc
<1> HIDE DEF f
<1>5. f # NoPage /\ used' \subseteq Phys /\ mem' \in [Phys -> Value] /\ mem'[f] = v
      /\ \A h \in Phys : h # f => mem'[h] = mem[h]
  BY <1>3, <1>4, NoPageAssumption DEF TypeOK
<1> QED
  BY <1>3, <1>4, <1>5 DEF f

(* One place in a table of tables is set.                                  *)
LEMMA SetPlace ==
  ASSUME NEW S, NEW table \in [Proc -> [Page -> S]], NEW p \in Proc, NEW g \in Page, NEW k \in S,
         NEW new, new = [table EXCEPT ![p][g] = k]
  PROVE  /\ new \in [Proc -> [Page -> S]]
         /\ new[p][g] = k
         /\ \A q \in Proc, h \in Page : q # p \/ h # g => new[q][h] = table[q][h]
  OBVIOUS

-----------------------------------------------------------------------------
(* What the steps do, place by place.                                      *)

Sup     == [Proc -> [Page -> Phys \cup {NoPage}]]
Pagedir == [Proc -> [Page -> Frame \cup {NoPage}]]

SetAt(new, old, p, g, k) ==
  new[p][g] = k /\ \A q \in Proc, h \in Page : q # p \/ h # g => new[q][h] = old[q][h]

Moves(p, from, to) ==
  pc[p] = from /\ pc'[p] = to /\ \A q \in Proc \ {p} : pc'[q] = pc[q]

Flags(p, b) == shm'[p] = b /\ \A q \in Proc \ {p} : shm'[q] = shm[q]

(* A free page of a pool is taken. *)
Takes(pool, k) ==
  /\ k \in pool /\ k \notin used /\ used' = used \cup {k}
  /\ \A f \in Phys \ {k} : mem'[f] = mem[f]

(* Pages are given back. *)
Returns(S) == used' = used \ S /\ \A f \in Phys \ S : mem'[f] = mem[f]

(* A segment page gets a swap page. *)
Entered(p, g, k) ==
  /\ pc[p] \in {"load", "forking"}
  /\ sup[p][g] = NoPage
  /\ Takes(Swap, k)
  /\ SetAt(sup', sup, p, g, k)
  /\ UNCHANGED <<pc, parent, pagedir, shm, shared_mem, history>>

(* The stack gets a frame. *)
Stacked(p, k) ==
  /\ \/ Moves(p, "load", "run")
     \/ pc[p] = "forking" /\ sup[p][Stack] = NoPage /\ UNCHANGED pc
  /\ Takes(Frame, k)
  /\ SetAt(sup', sup, p, Stack, k)
  /\ SetAt(pagedir', pagedir, p, Stack, k)
  /\ UNCHANGED <<parent, shm, shared_mem, history>>

(* page_fault() brings a page in. *)
Faulted(p, g, k) ==
  /\ pc[p] = "run"
  /\ sup[p][g] # NoPage /\ pagedir[p][g] = NoPage
  /\ Takes(Frame, k)
  /\ mem'[k] = mem[sup[p][g]]
  /\ SetAt(pagedir', pagedir, p, g, k)
  /\ UNCHANGED <<pc, parent, sup, shm, shared_mem, history>>

(* A mapped page is written to. *)
Written(p, g) ==
  /\ pagedir[p][g] # NoPage
  /\ \A f \in Phys : f # pagedir[p][g] => mem'[f] = mem[f]
  /\ UNCHANGED <<pc, parent, sup, pagedir, shm, shared_mem, used, history>>

(* The shared page is mapped, on opening it or on inheriting it. *)
Shared(p, k) ==
  /\ \/ Moves(p, "shmmap", "run") /\ k = shared_mem
     \/ pc[p] = "forking" /\ k = sup[parent[p]][Shm] /\ k # NoPage /\ UNCHANGED pc
  /\ SetAt(sup', sup, p, Shm, k)
  /\ SetAt(pagedir', pagedir, p, Shm, k)
  /\ Flags(p, TRUE)
  /\ UNCHANGED <<parent, shared_mem, memory, history>>

(* The shared page is allocated. *)
Allotted(p, k) ==
  /\ Moves(p, "shmalloc", "shmmap")
  /\ Takes(Frame, k)
  /\ shared_mem' = k
  /\ allocRaced' = (allocRaced \/ shared_mem # NoPage)
  /\ UNCHANGED <<parent, sup, pagedir, shm, leftOpen, stranded>>

(* It is closed, on request or on exit. *)
Closed(p) ==
  /\ Moves(p, "run", "exiting") \/ (pc[p] = "run" /\ UNCHANGED pc)
  /\ SetAt(sup', sup, p, Shm, NoPage)
  /\ SetAt(pagedir', pagedir, p, Shm, NoPage)
  /\ Flags(p, FALSE)
  /\ UNCHANGED <<parent, shared_mem, memory, history>>

(* The entries, and then the mappings, of an exiting process go. *)
Dropped(p) ==
  /\ pc[p] = "exiting"
  /\ Returns(OwnSwap(p))
  /\ \A g \in Page : sup'[p][g] = NoPage
  /\ \A q \in Proc \ {p} : sup'[q] = sup[q]
  /\ UNCHANGED <<pc, parent, pagedir, shm, shared_mem, history>>

Destroyed(p) ==
  /\ Moves(p, "exiting", "none")
  /\ Returns(Mapped(p))
  /\ \A g \in Page : sup[p][g] = NoPage /\ pagedir'[p][g] = NoPage
  /\ \A q \in Proc \ {p} : pagedir'[q] = pagedir[q]
  /\ Flags(p, FALSE)
  /\ UNCHANGED <<parent, sup, shared_mem, history>>

(* A process goes elsewhere in the kernel. *)
Moved(p) ==
  /\ \/ Moves(p, "load", "exiting") /\ UNCHANGED <<leftOpen, stranded>>
     \/ /\ Moves(p, "run", "exiting")
        /\ leftOpen' = (leftOpen \/ shm[p]) /\ UNCHANGED stranded
     \/ Moves(p, "run", "wait") /\ stranded' = stranded \cup {p} /\ UNCHANGED leftOpen
     \/ Moves(p, "run", "shmalloc") /\ ~shm[p] /\ UNCHANGED <<leftOpen, stranded>>
     \/ /\ Moves(p, "run", "shmmap") /\ ~shm[p] /\ shared_mem # NoPage
        /\ UNCHANGED <<leftOpen, stranded>>
  /\ UNCHANGED <<parent, sup, pagedir, shm, shared_mem, memory, allocRaced>>

(* Two processes go on together: fork, the end of fork, exec. *)
MoveTwo(p, to, q, onto) ==
  pc'[p] = to /\ pc'[q] = onto /\ \A r \in Proc \ {p, q} : pc'[r] = pc[r]

Forked(p, q) ==
  /\ pc[p] = "run" /\ pc[q] = "none" /\ MoveTwo(p, "wait", q, "forking")
  /\ parent'[q] = p /\ \A r \in Proc \ {q} : parent'[r] = parent[r]
  /\ UNCHANGED <<sup, pagedir, shm, shared_mem, memory, history>>

Joined(q) ==
  /\ pc[q] = "forking" /\ MoveTwo(q, "run", parent[q], "run")
  /\ \A r \in Proc \ {q} : parent'[r] = parent[r]
  /\ UNCHANGED <<sup, pagedir, shm, shared_mem, memory, history>>

Execed(p, q) ==
  /\ pc[p] = "run" /\ pc[q] = "none" /\ MoveTwo(p, "exiting", q, "load")
  /\ leftOpen' = (leftOpen \/ shm[p])
  /\ UNCHANGED <<parent, sup, pagedir, shm, shared_mem, memory, allocRaced, stranded>>

(* The kernel stops, or nothing happens. *)
Still == UNCHANGED <<pc, parent, sup, pagedir, shm, shared_mem, memory, history>>

Step ==
  \/ Still
  \/ \E p \in Proc :
        \/ \E g \in Segment, k \in Swap : Entered(p, g, k)
        \/ \E k \in Frame : Stacked(p, k) \/ Shared(p, k) \/ Allotted(p, k)
        \/ \E g \in Page, k \in Frame : Faulted(p, g, k)
        \/ \E g \in Page : Written(p, g)
        \/ Closed(p) \/ Dropped(p) \/ Destroyed(p) \/ Moved(p) \/ Joined(p)
        \/ \E q \in Proc : Forked(p, q) \/ Execed(p, q)

(* Every transition is one of these, and keeps the types.                  *)
LEMMA NextIsStep ==
  ASSUME TypeOK, Placed, ForkPairs, Own, [Next]_vars
  PROVE  TypeOK' /\ Step
<1> USE AddressSpaceAssumption, Pools
    DEF TypeOK, PC, Goto, tables, memory, history, Sup, Pagedir
<1>0. /\ Stack \in Page /\ Shm \in Page /\ Segment \subseteq Page
      /\ Image \in Value /\ Zero \in Value /\ Freed \in Value
      /\ sup \in Sup /\ pagedir \in Pagedir
  BY DEF Page
<1>1. CASE UNCHANGED vars
  BY <1>1 DEF vars, Step, Still
<1>2. ASSUME NEW p \in Proc, NEW g \in Segment, LoadPage(p, g)
      PROVE  TypeOK' /\ Step
  <2> DEFINE k == Lowest(FreeIn(Swap))
  <2>1. k \in Swap /\ Takes(Swap, k) /\ used' \subseteq Phys /\ mem' \in [Phys -> Value]
    BY <1>0, <1>2, AllocEffect DEF LoadPage, Takes
  <2> HIDE DEF k
  <2>2. sup' = [sup EXCEPT ![p][g] = k]
    BY <1>2 DEF LoadPage, AddEntry, k
  <2>3. sup' \in Sup /\ SetAt(sup', sup, p, g, k)
    BY <1>0, <2>1, <2>2, SetPlace DEF SetAt
  <2>4. /\ UNCHANGED <<pc, parent, pagedir, shm, shared_mem, frame_list, panic, leftOpen, allocRaced, stranded>>
        /\ pc[p] = "load" /\ sup[p][g] = NoPage
    BY <1>2 DEF LoadPage
  <2>5. Entered(p, g, k)
    BY <2>1, <2>3, <2>4 DEF Entered
  <2> QED
    BY <2>1, <2>3, <2>4, <2>5 DEF Step
<1>3. ASSUME NEW p \in Proc, SetupStack(p)
      PROVE  TypeOK' /\ Step
  <2> DEFINE k == Lowest(FreeIn(Frame))
  <2>1. k \in Frame /\ Takes(Frame, k) /\ used' \subseteq Phys /\ mem' \in [Phys -> Value]
    BY <1>0, <1>3, AllocEffect DEF SetupStack, Takes
  <2> HIDE DEF k
  <2>2. sup' = [sup EXCEPT ![p][Stack] = k] /\ pagedir' = [pagedir EXCEPT ![p][Stack] = k]
    BY <1>3 DEF SetupStack, AddEntry, Map, k
  <2>3. /\ sup' \in Sup /\ SetAt(sup', sup, p, Stack, k)
        /\ pagedir' \in Pagedir /\ SetAt(pagedir', pagedir, p, Stack, k)
    BY <1>0, <2>1, <2>2, SetPlace DEF SetAt
  <2>4. /\ UNCHANGED <<parent, shm, shared_mem, frame_list, panic, leftOpen, allocRaced, stranded>>
        /\ pc' = [pc EXCEPT ![p] = "run"] /\ pc[p] = "load"
    BY <1>3 DEF SetupStack
  <2>5. Stacked(p, k)
    BY <2>1, <2>3, <2>4 DEF Stacked, Moves
  <2> QED
    BY <2>1, <2>3, <2>4, <2>5 DEF Step
<1>4. ASSUME NEW p \in Proc, LoadOutOfSwap(p) \/ CopyOutOfPages(p)
      PROVE  TypeOK' /\ Step
  BY <1>4 DEF LoadOutOfSwap, CopyOutOfPages, Panic, Step, Still
<1>5. ASSUME NEW p \in Proc, LoadFails(p) \/ ForkFails(p) \/ ShmOpen(p) \/ Kill(p)
      PROVE  TypeOK' /\ Step
  <2>1. TypeOK'
    BY <1>5 DEF LoadFails, ForkFails, ShmOpen, Kill
  <2>2. Moved(p)
    BY <1>5 DEF LoadFails, ForkFails, ShmOpen, Kill, Moved, Moves
  <2> QED
    BY <2>1, <2>2 DEF Step
<1>6. ASSUME NEW p \in Proc, NEW g \in Page, PageFault(p, g)
      PROVE  TypeOK' /\ Step
  <2>1. CASE Panic("exhausted")
    BY <2>1 DEF Panic, Step, Still
  <2>2. CASE FreeIn(Frame) # {}
    <3> DEFINE k == Lowest(FreeIn(Frame))
    <3>0. sup[p][g] # NoPage /\ pagedir[p][g] = NoPage /\ pc[p] = "run" /\ mem[sup[p][g]] \in Value
      <4>0. g \in Entries(p) /\ pagedir[p][g] = NoPage /\ pc[p] = "run"
        BY ONLY <1>6 DEF PageFault
      <4>1. sup[p][g] # NoPage /\ pagedir[p][g] = NoPage /\ pc[p] = "run"
        BY <4>0 DEF Entries
      <4>2. sup[p][g] \in Phys
        BY ONLY <4>1, p \in Proc, g \in Page, sup \in [Proc -> [Page -> Phys \cup {NoPage}]]
      <4>3. mem[sup[p][g]] \in Value
        BY <4>2
      <4> QED
        BY ONLY <4>1, <4>3
    <3>1. /\ k \in Frame /\ Takes(Frame, k) /\ used' \subseteq Phys /\ mem' \in [Phys -> Value]
          /\ mem'[k] = mem[sup[p][g]]
      <4>1. Alloc(Frame, mem[sup[p][g]])
        BY <1>6, <2>2 DEF PageFault
      <4> QED
        BY <3>0, <4>1, AllocEffect DEF Takes
    <3> HIDE DEF k
    <3>2. /\ pagedir' = [pagedir EXCEPT ![p][g] = k]
          /\ frame_list' = frame_list \cup {<<p, k>>}
          /\ UNCHANGED <<pc, parent, sup, shm, shared_mem, panic, leftOpen, allocRaced, stranded>>
      BY <1>6, <2>2 DEF PageFault, Map, k
    <3>3. pagedir' \in Pagedir /\ SetAt(pagedir', pagedir, p, g, k)
      BY <1>0, <3>1, <3>2, SetPlace DEF SetAt
    <3>4. Faulted(p, g, k)
      BY <3>0, <3>1, <3>2, <3>3 DEF Faulted
    <3> QED
      BY <3>1, <3>2, <3>3, <3>4 DEF Step
  <2> QED
    BY <1>6, <2>1, <2>2 DEF PageFault
<1>7. ASSUME NEW p \in Proc, NEW g \in Page, NEW v \in Value, UserWrite(p, g, v)
      PROVE  TypeOK' /\ Step
  <2>1. /\ UNCHANGED <<pc, parent, sup, pagedir, shm, frame_list, shared_mem, used, panic,
                       leftOpen, allocRaced, stranded>>
        /\ pagedir[p][g] # NoPage
    BY <1>7 DEF UserWrite
  <2>2. /\ mem' \in [Phys -> Value]
        /\ \A f \in Phys : f # pagedir[p][g] => mem'[f] = mem[f]
    <3>1. mem' = [mem EXCEPT ![pagedir[p][g]] = v] /\ mem \in [Phys -> Value]
      BY <1>7 DEF UserWrite
    <3> QED
      BY ONLY <3>1, v \in Value
  <2>3. Written(p, g)
    BY <2>1, <2>2 DEF Written
  <2>4. Step
    BY <2>3 DEF Step
  <2> HIDE DEF Step
  <2> QED
    BY <2>1, <2>2, <2>4
<1>8. ASSUME NEW p \in Proc, NEW q \in Proc, Fork(p, q) \/ SysExec(p, q)
      PROVE  TypeOK' /\ Step
  <2>1. TypeOK'
    <3>1. \E a, b \in PC : pc' = [pc EXCEPT ![p] = a, ![q] = b]
      BY <1>8 DEF Fork, SysExec, PC
    <3>2. pc' \in [Proc -> PC]
      <4>1. pc \in [Proc -> PC]
        BY DEF TypeOK
      <4> QED
        BY ONLY <3>1, <4>1
    <3>3. CASE Fork(p, q)
      BY <3>2, <3>3 DEF Fork, tables, memory, history
    <3>4. CASE SysExec(p, q)
      BY <3>2, <3>4 DEF SysExec, tables, memory, history
    <3> QED
      BY <1>8, <3>3, <3>4
  <2>2. Forked(p, q) \/ Execed(p, q)
    <3>1. CASE Fork(p, q)
      BY <3>1 DEF Fork, Forked, MoveTwo, TypeOK
    <3>2. CASE SysExec(p, q)
      BY <3>2 DEF SysExec, Execed, MoveTwo, TypeOK
    <3> QED
      BY <1>8, <3>1, <3>2
  <2> QED
    BY <2>1, <2>2 DEF Step
<1>9. ASSUME NEW q \in Proc, NEW g \in Page, CopyEntry(q, g)
      PROVE  TypeOK' /\ Step
  <2> DEFINE p == parent[q]
  <2>1. /\ p \in Proc /\ sup[p][g] # NoPage /\ mem[sup[p][g]] \in Value
        /\ pc[q] = "forking" /\ sup[q][g] = NoPage
    <3>1. pc[q] = "forking" /\ g \in Entries(p) \ Entries(q)
      BY <1>9 DEF CopyEntry
    <3>2. p \in Proc
      BY <3>1 DEF ForkPairs
    <3>3. sup[p][g] # NoPage /\ sup[q][g] = NoPage
      BY <3>1 DEF Entries
    <3>4. sup[p][g] \in Phys
      BY ONLY <3>2, <3>3, g \in Page, sup \in [Proc -> [Page -> Phys \cup {NoPage}]]
    <3>5. mem[sup[p][g]] \in Value
      BY <3>4
    <3> QED
      BY ONLY <3>1, <3>2, <3>3, <3>5
  <2>2. UNCHANGED <<pc, parent, shared_mem, frame_list, panic, leftOpen, allocRaced, stranded>>
    BY <1>9 DEF CopyEntry
  <2>3. CASE g \in Segment
    <3> DEFINE k == Lowest(FreeIn(Swap))
    <3>0. Alloc(Swap, mem[sup[p][g]])
      BY <1>9, <2>3 DEF CopyEntry
    <3>1. k \in Swap /\ Takes(Swap, k) /\ used' \subseteq Phys /\ mem' \in [Phys -> Value]
      BY <2>1, <3>0, AllocEffect DEF Takes
    <3> HIDE DEF k
    <3>2. sup' = [sup EXCEPT ![q][g] = k] /\ UNCHANGED <<pagedir, shm>>
      BY <1>9, <2>3 DEF CopyEntry, AddEntry, k
    <3>3. sup' \in Sup /\ SetAt(sup', sup, q, g, k)
      BY <1>0, <3>1, <3>2, SetPlace DEF SetAt
    <3>4. Entered(q, g, k)
      BY <2>1, <2>2, <3>1, <3>2, <3>3 DEF Entered
    <3> QED
      BY <2>2, <2>3, <3>1, <3>2, <3>3, <3>4 DEF Step
  <2>4. CASE g = Stack
    <3> DEFINE k == Lowest(FreeIn(Frame))
    <3>0. Alloc(Frame, mem[sup[p][g]])
      BY <1>9, <2>4 DEF CopyEntry
    <3>1. k \in Frame /\ Takes(Frame, k) /\ used' \subseteq Phys /\ mem' \in [Phys -> Value]
      BY <2>1, <3>0, AllocEffect DEF Takes
    <3> HIDE DEF k
    <3>2. /\ sup' = [sup EXCEPT ![q][g] = k] /\ pagedir' = [pagedir EXCEPT ![q][g] = k]
          /\ UNCHANGED shm
      BY <1>9, <2>4 DEF CopyEntry, AddEntry, Map, k
    <3>3. /\ sup' \in Sup /\ SetAt(sup', sup, q, g, k)
          /\ pagedir' \in Pagedir /\ SetAt(pagedir', pagedir, q, g, k)
      BY <1>0, <3>1, <3>2, SetPlace DEF SetAt
    <3>4. Stacked(q, k)
      BY <2>1, <2>2, <2>4, <3>1, <3>2, <3>3 DEF Stacked
    <3> QED
      BY <2>2, <3>1, <3>2, <3>3, <3>4 DEF Step
  <2>5. CASE g = Shm
    <3> DEFINE k == sup[p][g]
    <3>1. k \in Frame
      BY <2>1, <2>5 DEF Placed
    <3>2. /\ sup' = [sup EXCEPT ![q][g] = k] /\ pagedir' = [pagedir EXCEPT ![q][g] = k]
          /\ shm' = [shm EXCEPT ![q] = TRUE] /\ UNCHANGED <<used, mem>>
      BY <1>9, <2>5 DEF CopyEntry, AddEntry, Map
    <3>3. k = sup[parent[q]][Shm] /\ k # NoPage
      BY <2>1, <2>5
    <3> HIDE DEF k
    <3>4. /\ sup' \in Sup /\ SetAt(sup', sup, q, g, k)
          /\ pagedir' \in Pagedir /\ SetAt(pagedir', pagedir, q, g, k)
      BY <1>0, <3>1, <3>2, SetPlace DEF SetAt
    <3>5. Shared(q, k)
      BY <2>1, <2>2, <2>5, <3>2, <3>3, <3>4 DEF Shared, Flags
    <3> QED
      BY <2>2, <3>1, <3>2, <3>4, <3>5 DEF Step
  <2> QED
    BY <2>3, <2>4, <2>5 DEF Page
<1>10. ASSUME NEW q \in Proc, ForkDone(q)
       PROVE  TypeOK' /\ Step
  <2>1. TypeOK'
    BY <1>10 DEF ForkDone
  <2>2. Joined(q)
    BY <1>10 DEF ForkDone, Joined, MoveTwo, ForkPairs
  <2> QED
    BY <2>1, <2>2 DEF Step
<1>11. ASSUME NEW p \in Proc, ShmAlloc(p)
       PROVE  TypeOK' /\ Step
  <2>1. CASE Panic("exhausted")
    BY <2>1 DEF Panic, Step, Still
  <2>2. CASE FreeIn(Frame) # {}
    <3> DEFINE k == Lowest(FreeIn(Frame))
    <3>1. k \in Frame /\ Takes(Frame, k) /\ used' \subseteq Phys /\ mem' \in [Phys -> Value]
      <4>1. FreeIn(Frame) \in SUBSET Nat /\ FreeIn(Frame) \subseteq Phys
        BY DEF FreeIn
      <4>2. mem[k] \in Value
        BY <2>2, <4>1, LowestIsLeast
      <4>3. Alloc(Frame, mem[k])
        BY <1>11, <2>2 DEF ShmAlloc
      <4> QED
        BY <4>2, <4>3, AllocEffect DEF Takes
    <3> HIDE DEF k
    <3>2. /\ pc[p] = "shmalloc" /\ pc' = [pc EXCEPT ![p] = "shmmap"] /\ shared_mem' = k
          /\ allocRaced' = (allocRaced \/ shared_mem # NoPage)
          /\ UNCHANGED <<parent, sup, pagedir, shm, frame_list, panic, leftOpen, stranded>>
      BY <1>11, <2>2 DEF ShmAlloc, k
    <3>3. Allotted(p, k)
      BY <3>1, <3>2 DEF Allotted, Moves
    <3> QED
      BY <3>1, <3>2, <3>3 DEF Step
  <2> QED
    BY <1>11, <2>1, <2>2 DEF ShmAlloc
<1>12. ASSUME NEW p \in Proc, ShmMap(p)
       PROVE  TypeOK' /\ Step
  <2>1. /\ sup' = [sup EXCEPT ![p][Shm] = shared_mem]
        /\ pagedir' = [pagedir EXCEPT ![p][Shm] = shared_mem]
        /\ shm' = [shm EXCEPT ![p] = TRUE] /\ pc' = [pc EXCEPT ![p] = "run"]
        /\ UNCHANGED <<parent, shared_mem, used, mem, frame_list, panic, leftOpen, allocRaced, stranded>>
        /\ pc[p] = "shmmap"
    BY <1>12 DEF ShmMap, AddEntry, Map
  <2>2. /\ sup' \in Sup /\ SetAt(sup', sup, p, Shm, shared_mem)
        /\ pagedir' \in Pagedir /\ SetAt(pagedir', pagedir, p, Shm, shared_mem)
    BY <1>0, <2>1, SetPlace DEF SetAt
  <2>3. shared_mem \in Frame
    BY <2>1 DEF Own, OwnAt
  <2>4. Shared(p, shared_mem)
    BY <2>1, <2>2 DEF Shared, Flags, Moves
  <2> QED
    BY <2>1, <2>2, <2>3, <2>4 DEF Step
<1>13. ASSUME NEW p \in Proc, CloseShm(p), pc[p] = "run",
              UNCHANGED <<parent, shared_mem, used, mem, frame_list, panic, leftOpen, allocRaced, stranded>>,
              pc' = pc \/ pc' = [pc EXCEPT ![p] = "exiting"]
       PROVE  TypeOK' /\ Step
  <2>1. /\ sup' \in Sup /\ SetAt(sup', sup, p, Shm, NoPage)
        /\ pagedir' \in Pagedir /\ SetAt(pagedir', pagedir, p, Shm, NoPage)
    BY <1>0, <1>13, SetPlace DEF CloseShm, SetAt
  <2>2. shm' \in [Proc -> BOOLEAN] /\ Flags(p, FALSE)
    BY <1>13 DEF CloseShm, Flags
  <2>3. pc' \in [Proc -> PC] /\ (Moves(p, "run", "exiting") \/ UNCHANGED pc)
    BY <1>13 DEF Moves
  <2>4. Closed(p)
    BY <1>13, <2>1, <2>2, <2>3 DEF Closed
  <2> QED
    BY <1>13, <2>1, <2>2, <2>3, <2>4 DEF Step
<1>14. ASSUME NEW p \in Proc, ShmClose(p) \/ SysExit(p)
       PROVE  TypeOK' /\ Step
  <2>0. /\ UNCHANGED <<parent, shared_mem, used, mem, frame_list, panic, leftOpen, allocRaced, stranded>>
        /\ pc' = pc \/ pc' = [pc EXCEPT ![p] = "exiting"]
        /\ pc[p] = "run"
    BY <1>14 DEF ShmClose, SysExit
  <2>1. CASE CloseShm(p)
    BY <1>13, <2>0, <2>1
  <2>2. CASE UNCHANGED <<sup, pagedir, shm>> /\ ~shm[p] /\ pc' = [pc EXCEPT ![p] = "exiting"]
    <3>1. Moved(p)
      BY <2>0, <2>2 DEF Moved, Moves
    <3> QED
      BY <2>0, <2>2, <3>1 DEF Step
  <2> QED
    BY <1>14, <2>1, <2>2 DEF ShmClose, SysExit
<1>15. ASSUME NEW p \in Proc, ReleaseSwap(p)
       PROVE  TypeOK' /\ Step
  <2>0. /\ sup' = [sup EXCEPT ![p] = NoTable]
        /\ used' = used \ OwnSwap(p)
        /\ mem' = [f \in Phys |-> IF f \in OwnSwap(p) THEN Freed ELSE mem[f]]
        /\ frame_list' \subseteq frame_list
        /\ UNCHANGED <<pc, parent, pagedir, shm, shared_mem, panic, leftOpen, allocRaced, stranded>>
        /\ pc[p] = "exiting"
    BY <1>15 DEF ReleaseSwap
  <2>1. /\ sup' \in Sup /\ \A h \in Page : sup'[p][h] = NoPage
        /\ \A q \in Proc : q # p => sup'[q] = sup[q]
    <3>1. NoTable \in [Page -> Phys \cup {NoPage}] /\ \A h \in Page : NoTable[h] = NoPage
      BY DEF NoTable
    <3> QED
      BY ONLY <2>0, <3>1, p \in Proc, sup \in [Proc -> [Page -> Phys \cup {NoPage}]] DEF Sup
  <2>2. used' \subseteq Phys /\ mem' \in [Phys -> Value] /\ frame_list' \subseteq Proc \X Frame
    BY <1>0, <2>0
  <2>3. Dropped(p)
    BY <2>0, <2>1 DEF Dropped, Returns
  <2> QED
    BY <2>0, <2>1, <2>2, <2>3 DEF Step
<1>16. ASSUME NEW p \in Proc, DestroyPagedir(p)
       PROVE  TypeOK' /\ Step
  <2>1. CASE Panic("assert")
    BY <2>1 DEF Panic, Step, Still
  <2>2. CASE Mapped(p) \subseteq used
    <3>0. /\ pc[p] = "exiting" /\ pc' = [pc EXCEPT ![p] = "none"]
          /\ used' = used \ Mapped(p)
          /\ mem' = [f \in Phys |-> IF f \in Mapped(p) THEN Freed ELSE mem[f]]
          /\ pagedir' = [pagedir EXCEPT ![p] = NoTable]
          /\ shm' = [shm EXCEPT ![p] = FALSE]
          /\ UNCHANGED <<parent, sup, shared_mem, frame_list, panic, leftOpen, allocRaced, stranded>>
          /\ \A g \in Page : sup[p][g] = NoPage
      BY <1>16, <2>2 DEF DestroyPagedir, Entries
    <3>1. /\ pagedir' \in Pagedir /\ \A h \in Page : pagedir'[p][h] = NoPage
          /\ \A q \in Proc : q # p => pagedir'[q] = pagedir[q]
      <4>1. NoTable \in [Page -> Frame \cup {NoPage}] /\ \A h \in Page : NoTable[h] = NoPage
        BY DEF NoTable
      <4> QED
        BY ONLY <3>0, <4>1, p \in Proc, pagedir \in [Proc -> [Page -> Frame \cup {NoPage}]] DEF Pagedir
    <3>2. /\ used' \subseteq Phys /\ mem' \in [Phys -> Value]
          /\ \A f \in Phys \ Mapped(p) : mem'[f] = mem[f]
      <4> HIDE DEF Mapped
      <4>1. /\ mem' \in [Phys -> Value]
            /\ \A f \in Phys \ Mapped(p) : mem'[f] = mem[f]
        BY ONLY <1>0, <3>0, mem \in [Phys -> Value]
      <4> QED
        BY <3>0, <4>1
    <3>3. Moves(p, "exiting", "none") /\ Flags(p, FALSE)
      BY <3>0 DEF Moves, Flags
    <3>4. Destroyed(p)
      BY <3>0, <3>1, <3>2, <3>3 DEF Destroyed, Returns
    <3>5. pc' \in [Proc -> PC] /\ shm' \in [Proc -> BOOLEAN]
      BY <3>0
    <3> QED
      BY <3>0, <3>1, <3>2, <3>4, <3>5 DEF Step
  <2> QED
    BY <1>16, <2>1, <2>2 DEF DestroyPagedir
<1> QED
  BY <1>1, <1>2, <1>3, <1>4, <1>5, <1>6, <1>7, <1>8, <1>9, <1>10, <1>11, <1>12, <1>14, <1>15, <1>16
     DEF Next, Kernel, User

-----------------------------------------------------------------------------
(* The parts of Sound, one at a time.                                      *)

LEMMA Pages ==
  /\ Page = Segment \cup {Stack, Shm} /\ Stack \in Page /\ Shm \in Page /\ Segment \subseteq Page
  /\ Stack \notin Segment /\ Shm \notin Segment /\ Stack # Shm
  BY AddressSpaceAssumption DEF Page

(* Pages are put only where they belong.                                   *)
LEMMA PlacedStep ==
  ASSUME TypeOK, Placed, ForkPairs, Step
  PROVE  Placed'
<1> USE Pages, Pools DEF Placed, SetAt
<1>1. CASE UNCHANGED sup
  BY <1>1
<1>2. ASSUME NEW p \in Proc, NEW g \in Segment, NEW k \in Swap, Entered(p, g, k)
      PROVE  Placed'
  BY <1>2 DEF Entered
<1>3. ASSUME NEW p \in Proc, NEW k \in Frame, SetAt(sup', sup, p, Stack, k)
      PROVE  Placed'
  BY <1>3
<1>4. ASSUME NEW p \in Proc, NEW k \in Frame \cup {NoPage}, SetAt(sup', sup, p, Shm, k)
      PROVE  Placed'
  BY <1>4
<1>5. ASSUME NEW p \in Proc, Dropped(p)
      PROVE  Placed'
  BY <1>5 DEF Dropped
<1> HIDE DEF Placed, SetAt
<1>6. ASSUME NEW p \in Proc, NEW k \in Frame, Stacked(p, k) \/ Shared(p, k)
      PROVE  Placed'
  BY <1>3, <1>4, <1>6 DEF Stacked, Shared
<1>7. ASSUME NEW p \in Proc, Closed(p)
      PROVE  Placed'
  BY <1>4, <1>7 DEF Closed
<1>8. ASSUME NEW p \in Proc, NEW k \in Frame, Allotted(p, k) \/ \E g \in Page : Faulted(p, g, k)
      PROVE  UNCHANGED sup
  BY <1>8 DEF Faulted, Allotted
<1>9. ASSUME NEW p \in Proc, \/ Destroyed(p) \/ Moved(p) \/ Joined(p) \/ \E g \in Page : Written(p, g)
                              \/ \E q \in Proc : Forked(p, q) \/ Execed(p, q)
      PROVE  UNCHANGED sup
  BY <1>9 DEF Written, Destroyed, Moved, Forked, Joined, Execed
<1> QED
  BY <1>1, <1>2, <1>5, <1>6, <1>7, <1>8, <1>9 DEF Step, Still

(* The waiting parents and their children; a step that neither starts nor  *)
(* ends a fork leaves both alone.                                          *)
Unrelated ==
  /\ UNCHANGED <<parent, stranded>>
  /\ \A p \in Proc : /\ pc'[p] = "forking" <=> pc[p] = "forking"
                     /\ pc'[p] = "wait" <=> pc[p] = "wait"

LEMMA ForkStep ==
  ASSUME TypeOK, ForkPairs, WaitsForChild, Step
  PROVE  ForkPairs' /\ WaitsForChild'
<1> USE DEF ForkPairs, WaitsForChild
<1>1. CASE Unrelated
  BY <1>1 DEF Unrelated
<1>2. ASSUME NEW p \in Proc, NEW q \in Proc, Forked(p, q)
      PROVE  ForkPairs' /\ WaitsForChild'
  BY <1>2 DEF Forked, MoveTwo, history
<1>3. ASSUME NEW q \in Proc, Joined(q)
      PROVE  ForkPairs' /\ WaitsForChild'
  BY <1>3 DEF Joined, MoveTwo, history
<1>4. ASSUME NEW p \in Proc, Moves(p, "run", "wait"), stranded' = stranded \cup {p},
             UNCHANGED parent
      PROVE  ForkPairs' /\ WaitsForChild'
  BY <1>4 DEF Moves
<1>5. ASSUME NEW p \in Proc, NEW from, NEW to, Moves(p, from, to), parent' = parent, stranded' = stranded,
             from \notin {"forking", "wait"}, to \notin {"forking", "wait"}
      PROVE  Unrelated
  BY <1>5 DEF Moves, Unrelated
<1>6. ASSUME NEW p \in Proc, NEW q \in Proc, Execed(p, q)
      PROVE  Unrelated
  BY <1>6 DEF Execed, MoveTwo, Unrelated
<1>7. ASSUME pc' = pc, parent' = parent, stranded' = stranded
      PROVE  Unrelated
  BY <1>7 DEF Unrelated
<1> QED
  <2>1. ASSUME NEW p \in Proc, NEW k, Stacked(p, k) \/ Shared(p, k) \/ Allotted(p, k)
        PROVE  Unrelated
    <3>1. CASE Stacked(p, k)
      BY <1>5, <1>7, <3>1 DEF Stacked, history
    <3>2. CASE Shared(p, k)
      BY <1>5, <1>7, <3>2 DEF Shared, history
    <3>3. CASE Allotted(p, k)
      BY <1>5, <3>3 DEF Allotted
    <3> QED
      BY <2>1, <3>1, <3>2, <3>3
  <2>2. ASSUME NEW p \in Proc, Closed(p) \/ Dropped(p) \/ Destroyed(p)
        PROVE  Unrelated
    <3>1. CASE Closed(p)
      BY <1>5, <1>7, <3>1 DEF Closed, history
    <3>2. CASE Dropped(p)
      BY <1>7, <3>2 DEF Dropped, history
    <3>3. CASE Destroyed(p)
      BY <1>5, <3>3 DEF Destroyed, history
    <3> QED
      BY <2>2, <3>1, <3>2, <3>3
  <2>3. ASSUME NEW p \in Proc, Moved(p)
        PROVE  ForkPairs' /\ WaitsForChild'
    BY <2>3, <1>1, <1>4, <1>5 DEF Moved
  <2> QED
    BY <1>1, <1>2, <1>3, <1>6, <1>7, <2>1, <2>2, <2>3 DEF Step, Still, Entered, Faulted, Written, history

(* What the processes have: those a step is not about keep it.             *)
Kept(p) ==
  /\ pc'[p] = pc[p] /\ shm'[p] = shm[p]
  /\ \A g \in Page : sup'[p][g] = sup[p][g] /\ pagedir'[p][g] = pagedir[p][g]
  /\ shared_mem' = NoPage => shared_mem = NoPage

LEMMA OwnKept ==
  ASSUME NEW p \in Proc, OwnAt(p), Kept(p)
  PROVE  OwnAt(p)'
  BY Pages DEF OwnAt, Kept, Alive

LEMMA OwnStep ==
  ASSUME TypeOK, TypeOK', Placed, ForkPairs, Own, Step
  PROVE  Own'
<1> USE Pages, Pools
<1>0. /\ \A p \in Proc : shm[p] \in BOOLEAN /\ pc[p] \in PC
      /\ \A p \in Proc : shm'[p] \in BOOLEAN /\ pc'[p] \in PC
  BY DEF TypeOK
<1>k. ASSUME NEW p \in Proc, \A q \in Proc \ {p} : Kept(q), OwnAt(p)'
      PROVE  Own'
  BY <1>k, OwnKept DEF Own
<1>1. CASE Still
  <2>1. \A p \in Proc : Kept(p)
    BY <1>1 DEF Still, Kept
  <2> QED
    BY <2>1, OwnKept DEF Own
<1>2. ASSUME NEW p \in Proc, NEW g \in Segment, NEW k \in Swap, Entered(p, g, k)
      PROVE  Own'
  <2>1. \A q \in Proc \ {p} : Kept(q)
    BY <1>2 DEF Entered, SetAt, Kept
  <2>2. OwnAt(p)'
    BY <1>2 DEF Entered, SetAt, Own, OwnAt, Alive
  <2> QED
    BY <1>k, <2>1, <2>2
<1>3. ASSUME NEW p \in Proc, NEW k \in Frame, Stacked(p, k)
      PROVE  Own'
  <2>1. \A q \in Proc \ {p} : Kept(q)
    BY <1>3 DEF Stacked, SetAt, Moves, Kept
  <2>2. OwnAt(p)'
    BY <1>3 DEF Stacked, SetAt, Moves, Own, OwnAt, Alive
  <2> QED
    BY <1>k, <2>1, <2>2
<1>4. ASSUME NEW p \in Proc, NEW k \in Frame, Shared(p, k)
      PROVE  Own'
  <2>1. \A q \in Proc \ {p} : Kept(q)
    BY <1>4 DEF Shared, SetAt, Moves, Flags, Kept
  <2>2. OwnAt(p)'
    BY <1>4 DEF Shared, SetAt, Moves, Flags, Own, OwnAt, Alive
  <2> QED
    BY <1>k, <2>1, <2>2
<1>5. ASSUME NEW p \in Proc, NEW k \in Frame, Allotted(p, k)
      PROVE  Own'
  <2>1. \A q \in Proc \ {p} : Kept(q)
    BY <1>5 DEF Allotted, Moves, Kept
  <2>2. OwnAt(p)'
    BY <1>5 DEF Allotted, Moves, Own, OwnAt, Alive
  <2> QED
    BY <1>k, <2>1, <2>2
<1>6. ASSUME NEW p \in Proc, NEW g \in Page, NEW k \in Frame, Faulted(p, g, k)
      PROVE  Own'
  <2>1. \A q \in Proc \ {p} : Kept(q)
    BY <1>6 DEF Faulted, SetAt, Kept
  <2>2. OwnAt(p)'
    BY <1>0, <1>6 DEF Faulted, SetAt, Own, OwnAt, Alive
  <2> QED
    BY <1>k, <2>1, <2>2
<1>7. ASSUME NEW p \in Proc, NEW g \in Page, Written(p, g)
      PROVE  Own'
  <2>1. \A q \in Proc : Kept(q)
    BY <1>7 DEF Written, Kept
  <2> QED
    BY <2>1, OwnKept DEF Own
<1>8. ASSUME NEW p \in Proc, Closed(p)
      PROVE  Own'
  <2>1. \A q \in Proc \ {p} : Kept(q)
    BY <1>8 DEF Closed, SetAt, Moves, Flags, Kept
  <2>2. OwnAt(p)'
    BY <1>8 DEF Closed, SetAt, Moves, Flags, Own, OwnAt, Alive
  <2> QED
    BY <1>k, <2>1, <2>2
<1>9. ASSUME NEW p \in Proc, Dropped(p)
      PROVE  Own'
  <2>1. \A q \in Proc \ {p} : Kept(q)
    BY <1>9 DEF Dropped, Kept
  <2>2. OwnAt(p)'
    BY <1>9 DEF Dropped, Own, OwnAt, Alive
  <2> QED
    BY <1>k, <2>1, <2>2
<1>10. ASSUME NEW p \in Proc, Destroyed(p)
       PROVE  Own'
  <2>1. \A q \in Proc \ {p} : Kept(q)
    BY <1>10 DEF Destroyed, Moves, Flags, Kept
  <2>2. OwnAt(p)'
    BY <1>10 DEF Destroyed, Moves, Flags, Own, OwnAt, Alive
  <2> QED
    BY <1>k, <2>1, <2>2
<1>11. ASSUME NEW p \in Proc, Moved(p)
       PROVE  Own'
  <2>1. \A q \in Proc \ {p} : Kept(q)
    BY <1>11 DEF Moved, Moves, Kept
  <2>2. OwnAt(p)'
    BY <1>11 DEF Moved, Moves, Own, OwnAt, Alive
  <2> QED
    BY <1>k, <2>1, <2>2
<1>12. ASSUME NEW p \in Proc, NEW q \in Proc,
              UNCHANGED <<sup, pagedir, shm, shared_mem>>, pc[p] \notin {"none", "load", "exiting"},
              \/ pc'[p] \in {"run", "wait", "exiting"} /\ pc[q] = "none" /\ pc'[q] \in {"forking", "load"}
              \/ pc'[p] = "run" /\ pc'[q] = "run" /\ pc[q] = "wait",
              \A r \in Proc \ {p, q} : pc'[r] = pc[r]
       PROVE  Own'
  <2>1. \A r \in Proc \ {p, q} : Kept(r)
    BY <1>12 DEF Kept
  <2>2. OwnAt(p)'
    BY <1>12 DEF Own, OwnAt, Alive
  <2>3. OwnAt(q)'
    BY <1>12 DEF Own, OwnAt, Alive
  <2> QED
    BY <2>1, <2>2, <2>3, OwnKept DEF Own
<1>13. ASSUME NEW p \in Proc, NEW q \in Proc, Forked(p, q) \/ Execed(p, q)
       PROVE  Own'
  BY <1>12, <1>13 DEF Forked, Execed, MoveTwo
<1>14. ASSUME NEW q \in Proc, Joined(q)
       PROVE  Own'
  <2>1. parent[q] \in Proc /\ pc[parent[q]] = "wait"
    BY <1>14 DEF Joined, ForkPairs
  <2> QED
    BY <1>12, <1>14, <2>1 DEF Joined, MoveTwo
<1> QED
  BY <1>1, <1>2, <1>3, <1>4, <1>5, <1>6, <1>7, <1>8, <1>9, <1>10, <1>11, <1>13, <1>14 DEF Step

-----------------------------------------------------------------------------
(* The swap store, page by page.                                           *)

SwapOwned ==
  /\ \A f \in Swap : f \in used <=> \E p \in Proc, g \in Segment : sup[p][g] = f
  /\ \A p, q \in Proc, g, h \in Segment :
       sup[p][g] # NoPage /\ sup[p][g] = sup[q][h] => p = q /\ g = h

LEMMA SwapExactIsOwned ==
  ASSUME TypeOK, Placed
  PROVE  SwapExact <=> SwapOwned
<1>1. \A p \in Proc : OwnSwap(p) \subseteq Swap
  BY DEF OwnSwap, Placed
<1>2. \A f \in Swap : f \in UNION {OwnSwap(p) : p \in Proc}
                        <=> \E p \in Proc, g \in Segment : sup[p][g] = f
  BY Pools DEF OwnSwap
<1>3. used \cap Swap = UNION {OwnSwap(p) : p \in Proc}
        <=> \A f \in Swap : f \in used <=> \E p \in Proc, g \in Segment : sup[p][g] = f
  <2> HIDE DEF OwnSwap
  <2> QED
    BY ONLY <1>1, <1>2
<1> QED
  BY <1>3 DEF SwapExact, SwapOwned

LEMMA SwapStep ==
  ASSUME TypeOK, Placed, SwapOwned, Step
  PROVE  SwapOwned'
<1> USE Pages, Pools
<1>1. ASSUME \A f \in Swap : f \in used' <=> f \in used,
             \A p \in Proc, g \in Segment : sup'[p][g] = sup[p][g]
      PROVE  SwapOwned'
  BY ONLY <1>1, SwapOwned DEF SwapOwned
<1>2. ASSUME NEW p \in Proc, NEW g \in Segment, NEW k \in Swap, Entered(p, g, k)
      PROVE  SwapOwned'
  <2>1. /\ k \notin used /\ used' = used \cup {k} /\ sup'[p][g] = k /\ sup[p][g] = NoPage
        /\ \A q \in Proc, h \in Segment : q # p \/ h # g => sup'[q][h] = sup[q][h]
    BY <1>2 DEF Entered, Takes, SetAt
  <2>2. \A q \in Proc, h \in Segment : sup[q][h] # k
    BY <2>1 DEF SwapOwned
  <2>3. \A f \in Swap : f \in used' <=> \E q \in Proc, h \in Segment : sup'[q][h] = f
    <3> SUFFICES ASSUME NEW f \in Swap
                 PROVE  f \in used' <=> \E q \in Proc, h \in Segment : sup'[q][h] = f
      OBVIOUS
    <3>1. CASE f = k
      BY <2>1, <3>1
    <3>2. CASE f # k
      <4>1. f # NoPage /\ (f \in used <=> \E q \in Proc, h \in Segment : sup[q][h] = f)
        BY DEF SwapOwned
      <4> QED
        BY ONLY <2>1, <3>2, <4>1
    <3> QED
      BY <3>1, <3>2
  <2>4. \A q, r \in Proc, h, i \in Segment :
          sup'[q][h] # NoPage /\ sup'[q][h] = sup'[r][i] => q = r /\ h = i
    BY <2>1, <2>2 DEF SwapOwned
  <2> QED
    BY <2>3, <2>4 DEF SwapOwned
<1>3. ASSUME NEW p \in Proc, Dropped(p)
      PROVE  SwapOwned'
  <2>1. /\ \A f : f \in used' <=> f \in used /\ ~\E g \in Segment : sup[p][g] = f /\ f # NoPage
        /\ \A g \in Segment : sup'[p][g] = NoPage
        /\ \A q \in Proc, g \in Segment : q # p => sup'[q][g] = sup[q][g]
    BY <1>3 DEF Dropped, Returns, OwnSwap
  <2>2. \A f \in Swap : f # NoPage
    OBVIOUS
  <2> QED
    BY ONLY <2>1, <2>2, SwapOwned, p \in Proc DEF SwapOwned
<1>4. ASSUME NEW p \in Proc, Destroyed(p)
      PROVE  SwapOwned'
  <2>1. Mapped(p) \subseteq Frame
    BY DEF Mapped, TypeOK
  <2> QED
    BY <1>1, <1>4, <2>1 DEF Destroyed, Returns
<1>5. ASSUME NEW p \in Proc, NEW k \in Frame, NEW g \in Page,
             Stacked(p, k) \/ Shared(p, k) \/ Allotted(p, k) \/ Faulted(p, g, k)
      PROVE  SwapOwned'
  <2>1. \A f \in Swap : f \in used' <=> f \in used
    <3>1. used' = used \/ used' = used \cup {k}
      BY <1>5 DEF Stacked, Shared, Allotted, Faulted, Takes, memory
    <3>2. k \notin Swap
      OBVIOUS
    <3> QED
      BY ONLY <3>1, <3>2
  <2>2. \A q \in Proc, h \in Segment : sup'[q][h] = sup[q][h]
    BY <1>5 DEF Stacked, Shared, Allotted, Faulted, SetAt
  <2> QED
    BY ONLY <1>1, <2>1, <2>2
<1>6. ASSUME NEW p \in Proc, NEW q \in Proc, NEW g \in Page,
             \/ Written(p, g) \/ Closed(p) \/ Moved(p) \/ Joined(p)
             \/ Forked(p, q) \/ Execed(p, q)
      PROVE  SwapOwned'
  BY <1>1, <1>6 DEF Written, Closed, SetAt, Moved, Joined, Forked, Execed, memory
<1>7. CASE Still
  BY <1>1, <1>7 DEF Still, memory
<1> QED
  BY <1>2, <1>3, <1>4, <1>5, <1>6, <1>7 DEF Step

-----------------------------------------------------------------------------
(* The frames, one by one.                                                 *)

FrameOwned ==
  /\ \A f \in Frame : f \in used <=> f = shared_mem \/ \E p \in Proc, g \in Page : pagedir[p][g] = f
  /\ \A p, q \in Proc, g, h \in Page :
       pagedir[p][g] # NoPage /\ pagedir[p][g] = pagedir[q][h]
         => (p = q /\ g = h) \/ pagedir[p][g] = shared_mem

LEMMA FramesExactIsOwned ==
  ASSUME TypeOK
  PROVE  FramesExact <=> (Careful => FrameOwned)
<1>1. \A p \in Proc : Mapped(p) \subseteq Frame
  BY DEF Mapped, TypeOK
<1>2. \A f \in Frame : f \in UNION {Mapped(p) : p \in Proc}
                         <=> \E p \in Proc, g \in Page : pagedir[p][g] = f
  BY Pools DEF Mapped
<1>3. {shared_mem} \ {NoPage} \subseteq Frame /\ NoPage \notin Frame
  BY Pools DEF TypeOK
<1>4. used \cap Frame = (UNION {Mapped(p) : p \in Proc}) \cup ({shared_mem} \ {NoPage})
        <=> \A f \in Frame : f \in used
              <=> f = shared_mem \/ \E p \in Proc, g \in Page : pagedir[p][g] = f
  <2> HIDE DEF Mapped
  <2> DEFINE M == UNION {Mapped(p) : p \in Proc}
             N == {shared_mem} \ {NoPage}
             InUse(f) == f = shared_mem \/ \E p \in Proc, g \in Page : pagedir[p][g] = f
  <2>1. M \cup N \subseteq Frame
    BY <1>1, <1>3
  <2>2. \A f \in Frame : f \in M \cup N <=> InUse(f)
    <3>1. \A f \in Frame : f \in N <=> f = shared_mem
      BY <1>3
    <3> QED
      BY <1>2, <3>1
  <2> HIDE DEF M, N, InUse
  <2>3. used \cap Frame = M \cup N <=> \A f \in Frame : f \in used <=> InUse(f)
    BY ONLY <2>1, <2>2
  <2> QED
    BY <2>3 DEF M, N, InUse
<1> QED
  BY <1>4 DEF FramesExact, FrameOwned

LEMMA FrameStep ==
  ASSUME TypeOK, TypeOK', Placed, ForkPairs, Own, FrameOwned, OneShared, Step, Careful'
  PROVE  FrameOwned' /\ OneShared'
<1> USE Pages, Pools
<1>0. /\ \A p \in Proc, g \in Page : pagedir[p][g] \in Frame \cup {NoPage}
      /\ shared_mem \in Frame \cup {NoPage}
  BY DEF TypeOK
<1>1. ASSUME \A f \in Frame : f \in used' <=> f \in used, UNCHANGED shared_mem,
             \A p \in Proc, g \in Page : pagedir'[p][g] = pagedir[p][g]
      PROVE  FrameOwned'
  BY ONLY <1>1, FrameOwned DEF FrameOwned
<1>2. ASSUME UNCHANGED shared_mem,
             \A p \in Proc : sup'[p][Shm] = sup[p][Shm],
             \A p \in Proc, g \in Page : pagedir'[p][g] = pagedir[p][g],
             \A p \in Proc : pc'[p] = "exiting" => pc[p] = "exiting" \/ pagedir[p][Shm] = NoPage
      PROVE  OneShared'
  BY ONLY <1>2, OneShared, Pages DEF OneShared
(* A free frame becomes a page of a process other than the shared one. *)
<1>3. ASSUME NEW p \in Proc, NEW g \in Page \ {Shm}, NEW k \in Frame, Takes(Frame, k),
             pagedir[p][g] = NoPage, SetAt(pagedir', pagedir, p, g, k), UNCHANGED shared_mem,
             \A q \in Proc : sup'[q][Shm] = sup[q][Shm],
             \A q \in Proc : pc'[q] = "exiting" => pc[q] = "exiting"
      PROVE  FrameOwned' /\ OneShared'
  <2>1. /\ k \notin used /\ used' = used \cup {k} /\ pagedir'[p][g] = k
        /\ \A q \in Proc, h \in Page : q # p \/ h # g => pagedir'[q][h] = pagedir[q][h]
    BY <1>3 DEF Takes, SetAt
  <2>2. k # shared_mem /\ \A q \in Proc, h \in Page : pagedir[q][h] # k
    BY <2>1 DEF FrameOwned
  <2>3. \A f \in Frame : f \in used'
                           <=> f = shared_mem' \/ \E q \in Proc, h \in Page : pagedir'[q][h] = f
    <3> SUFFICES ASSUME NEW f \in Frame
                 PROVE  f \in used'
                          <=> f = shared_mem \/ \E q \in Proc, h \in Page : pagedir'[q][h] = f
      BY <1>3
    <3>1. CASE f = k
      BY <2>1, <3>1
    <3>2. CASE f # k
      <4>1. /\ f # NoPage
            /\ f \in used <=> f = shared_mem \/ \E q \in Proc, h \in Page : pagedir[q][h] = f
        BY DEF FrameOwned
      <4> QED
        BY ONLY <1>3, <2>1, <3>2, <4>1
    <3> QED
      BY <3>1, <3>2
  <2>4. FrameOwned'
    BY ONLY <1>3, <2>1, <2>2, <2>3, FrameOwned DEF FrameOwned
  <2>5. OneShared'
    BY ONLY <1>3, <2>1, <2>2, OneShared, Pages DEF OneShared
  <2> QED
    BY <2>4, <2>5
<1>4. ASSUME NEW p \in Proc, NEW k \in Frame, Stacked(p, k)
      PROVE  FrameOwned' /\ OneShared'
  <2>1. pagedir[p][Stack] = NoPage
    BY <1>4 DEF Stacked, Moves, Own, OwnAt
  <2> QED
    BY <1>3, <1>4, <2>1 DEF Stacked, Moves, SetAt
<1>5. ASSUME NEW p \in Proc, NEW k \in Frame, NEW g \in Page, Faulted(p, g, k)
      PROVE  FrameOwned' /\ OneShared'
  <2>1. g # Shm
    BY <1>5 DEF Faulted, Own, OwnAt, Alive
  <2> QED
    BY <1>3, <1>5, <2>1 DEF Faulted
(* The shared page is mapped, or no longer mapped, by one process. *)
<1>6. ASSUME NEW p \in Proc, NEW k, k \in {NoPage, shared_mem},
             SetAt(sup', sup, p, Shm, k), SetAt(pagedir', pagedir, p, Shm, k),
             UNCHANGED <<shared_mem, used>>,
             \A q \in Proc : pc'[q] = "exiting" => pc[q] = "exiting" \/ (q = p /\ k = NoPage),
             pc[p] # "exiting"
      PROVE  FrameOwned' /\ OneShared'
  <2>1. /\ pagedir'[p][Shm] = k /\ sup'[p][Shm] = k /\ pagedir[p][Shm] \in {NoPage, shared_mem}
        /\ \A q \in Proc, h \in Page : q # p \/ h # Shm => pagedir'[q][h] = pagedir[q][h]
        /\ \A q \in Proc : q # p => sup'[q][Shm] = sup[q][Shm]
    BY <1>6 DEF SetAt, OneShared
  <2>2. FrameOwned'
    BY ONLY <1>6, <2>1, Pages, Pools, FrameOwned DEF FrameOwned
  <2>3. OneShared'
    BY ONLY <1>6, <2>1, Pages, OneShared DEF OneShared
  <2> QED
    BY <2>2, <2>3
<1>7. ASSUME NEW p \in Proc, NEW k \in Frame, Shared(p, k)
      PROVE  FrameOwned' /\ OneShared'
  <2>1. k \in {NoPage, shared_mem}
    BY <1>7 DEF Shared, ForkPairs, OneShared
  <2> QED
    BY <1>6, <1>7, <2>1 DEF Shared, Moves, memory
<1>8. ASSUME NEW p \in Proc, Closed(p)
      PROVE  FrameOwned' /\ OneShared'
  BY <1>6, <1>8 DEF Closed, Moves, memory
<1>9. ASSUME NEW p \in Proc, NEW k \in Frame, Allotted(p, k)
      PROVE  FrameOwned' /\ OneShared'
  <2>1. /\ k \notin used /\ used' = used \cup {k} /\ shared_mem' = k /\ UNCHANGED <<sup, pagedir>>
        /\ \A q \in Proc : pc'[q] = "exiting" => pc[q] = "exiting"
    BY <1>9 DEF Allotted, Takes, Moves
  <2>2. shared_mem = NoPage
    BY <1>9 DEF Allotted, Careful
  <2>3. \A q \in Proc, h \in Page : pagedir[q][h] # k
    BY <2>1 DEF FrameOwned
  <2>4. FrameOwned'
    BY ONLY <2>1, <2>2, <2>3, Pools, FrameOwned, k \in Frame DEF FrameOwned
  <2>5. OneShared'
    BY ONLY <2>1, <2>2, <2>3, OneShared, Pages DEF OneShared
  <2> QED
    BY <2>4, <2>5
<1>10. ASSUME NEW p \in Proc, Destroyed(p)
       PROVE  FrameOwned' /\ OneShared'
  <2>1. /\ \A f \in Frame : f \in used' <=> f \in used /\ ~\E g \in Page : pagedir[p][g] = f
        /\ \A g \in Page : sup[p][g] = NoPage /\ pagedir'[p][g] = NoPage
        /\ \A q \in Proc, g \in Page : q # p => pagedir'[q][g] = pagedir[q][g]
        /\ UNCHANGED <<sup, shared_mem>>
    BY <1>10 DEF Destroyed, Returns, Mapped
  <2>2. \A g \in Page : pagedir[p][g] # NoPage => pagedir[p][g] # shared_mem
    BY <1>10 DEF Destroyed, Moves, OneShared
  <2>3. FrameOwned'
    BY ONLY <2>1, <2>2, Pools, FrameOwned, p \in Proc DEF FrameOwned
  <2>4. OneShared'
    BY ONLY <1>10, <2>1, OneShared, Pages, p \in Proc DEF OneShared, Destroyed, Moves
  <2> QED
    BY <2>3, <2>4
<1>11. ASSUME NEW p \in Proc, Moved(p)
       PROVE  FrameOwned' /\ OneShared'
  <2>1. /\ UNCHANGED <<sup, pagedir, shared_mem, used>>
        /\ \A q \in Proc : pc'[q] = "exiting" => pc[q] = "exiting" \/ pagedir[q][Shm] = NoPage
    BY <1>11 DEF Moved, Moves, memory, Careful, Own, OwnAt, Alive, PC
  <2> QED
    BY <1>1, <1>2, <2>1
<1>12. ASSUME NEW p \in Proc, NEW q \in Proc, Forked(p, q) \/ Execed(p, q)
       PROVE  FrameOwned' /\ OneShared'
  <2>1. /\ UNCHANGED <<sup, pagedir, shared_mem, used>>
        /\ \A r \in Proc : pc'[r] = "exiting" => pc[r] = "exiting" \/ pagedir[r][Shm] = NoPage
    BY <1>12 DEF Forked, Execed, MoveTwo, memory, Careful, Own, OwnAt, Alive, PC
  <2> QED
    BY <1>1, <1>2, <2>1
<1>13. ASSUME NEW p \in Proc, Joined(p) \/ Dropped(p) \/ \E g \in Page : Written(p, g)
       PROVE  FrameOwned' /\ OneShared'
  <2>1. UNCHANGED <<pagedir, shared_mem>>
    BY <1>13 DEF Joined, Dropped, Written
  <2>2. /\ \A f \in Frame : f \in used' <=> f \in used
        /\ \A r \in Proc : pc'[r] = "exiting" => pc[r] = "exiting"
    BY <1>13 DEF Joined, MoveTwo, Dropped, Written, Returns, OwnSwap, Placed, memory
  <2>3. CASE UNCHANGED sup
    BY <1>1, <1>2, <2>1, <2>2, <2>3
  <2>4. CASE Dropped(p)
    <3>1. OneShared'
      BY <2>1, <2>2, <2>4 DEF Dropped, OneShared
    <3> QED
      BY <1>1, <2>1, <2>2, <3>1
  <2> QED
    BY <1>13, <2>3, <2>4 DEF Joined, Written
<1>14. CASE Still
  BY <1>1, <1>2, <1>14 DEF Still, memory
<1>15. ASSUME NEW p \in Proc, NEW g \in Segment, NEW k \in Swap, Entered(p, g, k)
       PROVE  FrameOwned' /\ OneShared'
  <2>1. UNCHANGED <<pc, pagedir, shared_mem>> /\ \A q \in Proc : sup'[q][Shm] = sup[q][Shm]
    BY <1>15 DEF Entered, SetAt
  <2>2. \A f \in Frame : f \in used' <=> f \in used
    BY <1>15 DEF Entered, Takes
  <2> QED
    BY <1>1, <1>2, <2>1, <2>2
<1> QED
  BY <1>4, <1>5, <1>7, <1>8, <1>9, <1>10, <1>11, <1>12, <1>13, <1>14, <1>15 DEF Step

-----------------------------------------------------------------------------
(* The invariant.                                                          *)

(* Carelessness is never forgotten.                                        *)
LEMMA CarefulStays ==
  ASSUME TypeOK, TypeOK', Step, Careful'
  PROVE  Careful
<1>0. leftOpen \in BOOLEAN /\ allocRaced \in BOOLEAN /\ leftOpen' = FALSE /\ allocRaced' = FALSE
  BY DEF TypeOK, Careful
<1>1. ASSUME NEW p \in Proc, NEW g, NEW k, Entered(p, g, k) \/ Stacked(p, k) \/ Shared(p, k)
                                            \/ Allotted(p, k) \/ Faulted(p, g, k) \/ Written(p, g)
      PROVE  Careful
  BY ONLY <1>0, <1>1 DEF Careful, history, Entered, Stacked, Shared, Allotted, Faulted, Written
<1>2. ASSUME NEW p \in Proc, Closed(p) \/ Dropped(p) \/ Destroyed(p) \/ Moved(p) \/ Joined(p)
      PROVE  Careful
  BY ONLY <1>0, <1>2 DEF Careful, history, Closed, Dropped, Destroyed, Moved, Joined
<1>3. ASSUME NEW p \in Proc, NEW q \in Proc, Forked(p, q) \/ Execed(p, q)
      PROVE  Careful
  BY ONLY <1>0, <1>3 DEF Careful, history, Forked, Execed
<1> QED
  BY <1>0, <1>1, <1>2, <1>3 DEF Step, Still, Careful, history

LEMMA SpaceInit ==
  ASSUME Init
  PROVE  SpaceInv
<1> USE AddressSpaceAssumption, Pages, Pools
<1>1. PICK p0 \in Proc : pc = [q \in Proc |-> IF q = p0 THEN "load" ELSE "none"]
  BY DEF Init
<1>2. TypeOK
  <2>1. sup \in [Proc -> [Page -> Phys \cup {NoPage}]] /\ pagedir \in [Proc -> [Page -> Frame \cup {NoPage}]]
    BY DEF Init, NoTable
  <2>2. mem \in [Phys -> Value]
    BY DEF Init
  <2> QED
    BY <1>1, <2>1, <2>2 DEF Init, TypeOK, PC
<1>3. /\ \A p \in Proc : pc[p] \in {"load", "none"} /\ shm[p] = FALSE
      /\ \A p \in Proc, g \in Page : sup[p][g] = NoPage /\ pagedir[p][g] = NoPage
      /\ used = {} /\ shared_mem = NoPage /\ stranded = {}
  BY <1>1 DEF Init, NoTable
<1>4. Placed /\ ForkPairs /\ WaitsForChild
  BY <1>3 DEF Placed, ForkPairs, WaitsForChild
<1>5. Own
  BY <1>3 DEF Own, OwnAt, Alive
<1>6. SwapExact
  <2>1. SwapOwned
    BY <1>3 DEF SwapOwned
  <2> QED
    BY <1>2, <1>4, <2>1, SwapExactIsOwned
<1>7. Framed
  <2>1. FrameOwned /\ OneShared
    BY <1>3 DEF FrameOwned, OneShared
  <2> QED
    BY <1>2, <2>1, FramesExactIsOwned DEF Framed
<1> QED
  BY <1>4, <1>5, <1>6, <1>7 DEF SpaceInv, Sound

LEMMA SpaceStep ==
  ASSUME SpaceInv, [Next]_vars
  PROVE  SpaceInv' /\ Step
<1>1. TypeOK /\ Placed /\ ForkPairs /\ WaitsForChild /\ Own /\ SwapExact /\ Framed
  BY DEF SpaceInv, Sound, SwapExact
<1>2. TypeOK' /\ Step
  BY <1>1, NextIsStep
<1>3. Placed' /\ ForkPairs' /\ WaitsForChild' /\ Own'
  BY <1>1, <1>2, PlacedStep, ForkStep, OwnStep
<1>4. SwapExact'
  <2>1. SwapOwned'
    BY <1>1, <1>2, SwapExactIsOwned, SwapStep
  <2>2. SwapExact' <=> SwapOwned'
    BY <1>2, <1>3, SwapExactIsOwned, PTL
  <2> QED
    BY <2>1, <2>2
<1>5. Framed'
  <2>1. FramesExact' <=> (Careful' => FrameOwned')
    BY <1>2, FramesExactIsOwned, PTL
  <2>2. ASSUME Careful' PROVE FrameOwned' /\ OneShared'
    <3>1. Careful
      BY <1>1, <1>2, <2>2, CarefulStays
    <3>2. FrameOwned /\ OneShared
      BY <1>1, <3>1, FramesExactIsOwned DEF Framed
    <3> QED
      BY <1>1, <1>2, <2>2, <3>2, FrameStep
  <2> QED
    BY <2>1, <2>2 DEF Framed
<1> QED
  BY <1>2, <1>3, <1>4, <1>5 DEF SpaceInv, Sound

(* The accounts of memory, of the forks and of what each process has hold  *)
(* in every reachable state.                                               *)
THEOREM SpaceInvariant == Spec => []SpaceInv
<1>1. Init => SpaceInv
  BY SpaceInit
<1>2. SpaceInv /\ [Next]_vars => SpaceInv'
  BY SpaceStep
<1> QED
  BY <1>1, <1>2, PTL DEF Spec

(* palloc and the supplementary tables agree about the swap store, after   *)
(* any sequence of loads, forks, execs and exits.                          *)
THEOREM SwapExactThm == Spec => []SwapExact
<1>1. SpaceInv => SwapExact
  BY DEF SpaceInv, Sound
<1> QED
  BY <1>1, SpaceInvariant, PTL

(* While shared memory is closed before every exit and allocated once, the *)
(* frames in use are the mapped ones and the shared one.                   *)
THEOREM FramesExactThm == Spec => []FramesExact
<1>1. SpaceInv => FramesExact
  BY DEF SpaceInv, Framed
<1> QED
  BY <1>1, SpaceInvariant, PTL

(* The flag t->shared_mem never disagrees with the tables.                 *)
THEOREM ShmFlagExactThm == Spec => []ShmFlagExact
<1>1. SpaceInv => ShmFlagExact
  BY DEF SpaceInv, Sound, Own, OwnAt, ShmFlagExact
<1> QED
  BY <1>1, SpaceInvariant, PTL

(* fork() keeps the parent asleep exactly as long as its child is built,   *)
(* and for ever when none was created.                                     *)
THEOREM ParentWaitsThm == Spec => []ParentWaits
<1>1. SpaceInv => ParentWaits
  <2> SUFFICES ASSUME SpaceInv, NEW p \in Proc
               PROVE  /\ Cardinality({q \in Proc : pc[q] = "forking" /\ parent[q] = p})
                           = IF pc[p] = "wait" /\ p \notin stranded THEN 1 ELSE 0
                      /\ p \in stranded => pc[p] = "wait"
    BY DEF ParentWaits
  <2> DEFINE C == {q \in Proc : pc[q] = "forking" /\ parent[q] = p}
  <2>1. ForkPairs /\ WaitsForChild
    BY DEF SpaceInv, Sound
  <2>2. p \in stranded => pc[p] = "wait"
    BY <2>1 DEF WaitsForChild
  <2>3. CASE pc[p] = "wait" /\ p \notin stranded
    <3>1. PICK q \in C : TRUE
      BY <2>1, <2>3 DEF WaitsForChild
    <3>2. C = {q}
      BY <2>1, <3>1 DEF ForkPairs
    <3>3. Cardinality(C) = 1
      BY <3>2, FS_Singleton
    <3> QED
      BY <2>2, <2>3, <3>3
  <2>4. CASE ~(pc[p] = "wait" /\ p \notin stranded)
    <3>1. C = {}
      BY <2>1, <2>4 DEF ForkPairs
    <3>2. Cardinality(C) = 0
      BY <3>1, FS_EmptySet
    <3> QED
      BY <2>2, <2>4, <3>2
  <2> QED
    BY <2>3, <2>4
<1> QED
  BY <1>1, SpaceInvariant, PTL

-----------------------------------------------------------------------------
(* What a process reads.                                                   *)

(* Where the content of a page is. *)
Loc(p, g) == IF pagedir[p][g] # NoPage THEN pagedir[p][g] ELSE sup[p][g]

(* A private page is in one physical page that is in use and that no other *)
(* process, and no other page of its process, has any part in.             *)
LEMMA OneLocation ==
  ASSUME TypeOK, Placed, Own, SwapOwned, FrameOwned, OneShared,
         NEW p \in Proc, NEW g \in Page \ {Shm}, Loc(p, g) # NoPage
  PROVE  /\ Loc(p, g) \in Phys /\ Loc(p, g) \in used
         /\ \A q \in Proc, h \in Page : pagedir[q][h] = Loc(p, g) => q = p /\ h = g
         /\ \A q \in Proc, h \in Segment : sup[q][h] = Loc(p, g) => q = p /\ h = g
<1> USE Pages, Pools
<1>1. \A q \in Proc, h \in Page : pagedir[q][h] \in Frame \cup {NoPage}
  BY DEF TypeOK
<1>2. CASE pagedir[p][g] # NoPage
  <2>1. Loc(p, g) = pagedir[p][g] /\ pagedir[p][g] \in Frame /\ pagedir[p][g] # shared_mem
    BY <1>1, <1>2 DEF Loc, OneShared
  <2>2. pagedir[p][g] \in used
    BY <2>1 DEF FrameOwned
  <2>3. \A q \in Proc, h \in Page : pagedir[q][h] = pagedir[p][g] => q = p /\ h = g
    BY <1>2, <2>1 DEF FrameOwned
  <2>4. \A q \in Proc, h \in Segment : sup[q][h] # pagedir[p][g]
    BY <2>1 DEF Placed
  <2> QED
    BY <2>1, <2>2, <2>3, <2>4
<1>3. CASE pagedir[p][g] = NoPage
  <2>1. Loc(p, g) = sup[p][g] /\ sup[p][g] # NoPage
    BY <1>3 DEF Loc
  <2>2. g \in Segment
    BY <1>3, <2>1 DEF Own, OwnAt
  <2>3. sup[p][g] \in Swap
    BY <2>1, <2>2 DEF Placed
  <2>4. sup[p][g] \in used
    BY ONLY <2>2, <2>3, SwapOwned, p \in Proc DEF SwapOwned
  <2>6. \A q \in Proc, h \in Segment : sup[q][h] = sup[p][g] => q = p /\ h = g
    BY ONLY <2>1, <2>2, SwapOwned, p \in Proc DEF SwapOwned
  <2>5. \A q \in Proc, h \in Page : pagedir[q][h] # sup[p][g]
    BY <1>1, <2>3
  <2> QED
    BY <2>1, <2>3, <2>4, <2>5, <2>6
<1> QED
  BY <1>2, <1>3

LEMMA ViewIsLocated ==
  ASSUME NEW p \in Proc, NEW g \in Page
  PROVE  /\ View(p, g) = IF Loc(p, g) # NoPage THEN mem[Loc(p, g)] ELSE Freed
         /\ View(p, g)' = IF Loc(p, g)' # NoPage THEN mem'[Loc(p, g)'] ELSE Freed
  BY DEF View, Loc

(* The content stays in place, and what it is.                             *)
LEMMA ViewKept ==
  ASSUME NEW p \in Proc, NEW g \in Page, UNCHANGED Loc(p, g),
         Loc(p, g) # NoPage => mem'[Loc(p, g)] = mem[Loc(p, g)]
  PROVE  View(p, g)' = View(p, g)
  BY ViewIsLocated

LEMMA ViewStep ==
  ASSUME TypeOK, Placed, Own, SwapOwned, FrameOwned, OneShared, Step,
         NEW p \in Proc, NEW g \in Page \ {Shm},
         pc[p] = "run", pc'[p] = "run", sup[p][g] # NoPage,
         \A q \in Proc, h \in Page : ~Written(q, h)
  PROVE  View(p, g)' = View(p, g)
<1> USE Pages, Pools
<1>1. /\ Loc(p, g) # NoPage /\ Loc(p, g) \in Phys /\ Loc(p, g) \in used
      /\ \A q \in Proc, h \in Page : pagedir[q][h] = Loc(p, g) => q = p /\ h = g
      /\ \A q \in Proc, h \in Segment : sup[q][h] = Loc(p, g) => q = p /\ h = g
  <2>1. Loc(p, g) # NoPage
    BY DEF Loc
  <2> QED
    BY <2>1, OneLocation
<1>2. ASSUME sup'[p][g] = sup[p][g], pagedir'[p][g] = pagedir[p][g],
             mem'[Loc(p, g)] = mem[Loc(p, g)]
      PROVE  View(p, g)' = View(p, g)
  <2>1. UNCHANGED Loc(p, g)
    BY <1>2 DEF Loc
  <2> QED
    BY <1>2, <2>1, ViewKept
<1>3. ASSUME NEW q \in Proc, NEW h \in Segment, NEW k \in Swap, Entered(q, h, k)
      PROVE  View(p, g)' = View(p, g)
  BY <1>1, <1>2, <1>3 DEF Entered, Takes, SetAt
<1>4. ASSUME NEW q \in Proc, NEW k \in Frame, Stacked(q, k)
      PROVE  View(p, g)' = View(p, g)
  BY <1>1, <1>2, <1>4 DEF Stacked, Takes, SetAt, Moves
<1>5. ASSUME NEW q \in Proc, NEW k \in Frame, Shared(q, k)
      PROVE  View(p, g)' = View(p, g)
  BY <1>1, <1>2, <1>5 DEF Shared, SetAt, memory
<1>6. ASSUME NEW q \in Proc, NEW k \in Frame, Allotted(q, k)
      PROVE  View(p, g)' = View(p, g)
  BY <1>1, <1>2, <1>6 DEF Allotted, Takes
<1>7. ASSUME NEW q \in Proc, NEW h \in Page, NEW k \in Frame, Faulted(q, h, k)
      PROVE  View(p, g)' = View(p, g)
  <2>1. CASE q = p /\ h = g
    <3>1. pagedir[p][g] = NoPage /\ pagedir'[p][g] = k /\ k # NoPage /\ mem'[k] = mem[sup[p][g]]
      BY <1>7, <2>1 DEF Faulted, SetAt
    <3> QED
      BY <3>1 DEF View
  <2>2. CASE ~(q = p /\ h = g)
    BY <1>1, <1>2, <1>7, <2>2 DEF Faulted, Takes, SetAt
  <2> QED
    BY <2>1, <2>2
<1>8. ASSUME NEW q \in Proc, Closed(q)
      PROVE  View(p, g)' = View(p, g)
  BY <1>1, <1>2, <1>8 DEF Closed, SetAt, memory
<1>9. ASSUME NEW q \in Proc, Dropped(q)
      PROVE  View(p, g)' = View(p, g)
  <2>1. q # p /\ Loc(p, g) \notin OwnSwap(q)
    BY <1>1, <1>9 DEF Dropped, OwnSwap
  <2> QED
    BY <1>1, <1>2, <1>9, <2>1 DEF Dropped, Returns
<1>10. ASSUME NEW q \in Proc, Destroyed(q)
       PROVE  View(p, g)' = View(p, g)
  <2>1. q # p /\ Loc(p, g) \notin Mapped(q)
    BY <1>1, <1>10 DEF Destroyed, Moves, Mapped
  <2> QED
    BY <1>1, <1>2, <1>10, <2>1 DEF Destroyed, Returns
<1>11. ASSUME UNCHANGED <<sup, pagedir, memory>>
       PROVE  View(p, g)' = View(p, g)
  BY <1>2, <1>11 DEF memory
<1>12. ASSUME NEW q \in Proc, Moved(q) \/ Joined(q) \/ \E r \in Proc : Forked(q, r) \/ Execed(q, r)
       PROVE  View(p, g)' = View(p, g)
  BY <1>11, <1>12 DEF Moved, Joined, Forked, Execed
<1> QED
  BY <1>3, <1>4, <1>5, <1>6, <1>7, <1>8, <1>9, <1>10, <1>11, <1>12 DEF Step, Still

(* A write reaches one private page at most.                               *)
LEMMA ViewWritten ==
  ASSUME TypeOK, Placed, Own, SwapOwned, FrameOwned, OneShared,
         NEW q \in Proc, NEW h \in Page, Written(q, h),
         NEW p \in Proc, NEW g \in Page \ {Shm}, View(p, g)' # View(p, g)
  PROVE  p = q /\ g = h
<1>1. UNCHANGED Loc(p, g)
  BY DEF Written, Loc
<1>2. Loc(p, g) # NoPage /\ mem'[Loc(p, g)] # mem[Loc(p, g)]
  BY <1>1, ViewKept
<1>3. /\ Loc(p, g) \in Phys
      /\ \A r \in Proc, i \in Page : pagedir[r][i] = Loc(p, g) => r = p /\ i = g
  BY <1>2, OneLocation
<1> QED
  BY <1>2, <1>3 DEF Written

(* Demand paging, fork and the exit of others do not show in what a        *)
(* process reads in its own pages.                                         *)
THEOREM PagingTransparentThm == Spec => PagingTransparent
<1> DEFINE Transparent ==
      Careful' =>
        \A p \in Proc, g \in Page :
          pc[p] = "run" /\ pc'[p] = "run" /\ g \in Entries(p) \ {Shm}
            /\ View(p, g)' # View(p, g)
          => /\ UNCHANGED <<pc, sup, pagedir>>
             /\ \A q \in Proc \ {p}, h \in Page \ {Shm} :
                  View(q, h)' = View(q, h)
<1>1. SpaceInv /\ [Next]_vars => [Transparent]_vars
  <2> SUFFICES ASSUME SpaceInv, [Next]_vars, Careful',
                      NEW p \in Proc, NEW g \in Page, pc[p] = "run", pc'[p] = "run",
                      g \in Entries(p) \ {Shm}, View(p, g)' # View(p, g)
               PROVE  /\ UNCHANGED <<pc, sup, pagedir>>
                      /\ \A q \in Proc \ {p}, h \in Page \ {Shm} : View(q, h)' = View(q, h)
    OBVIOUS
  <2>1. Step /\ TypeOK /\ TypeOK' /\ Placed /\ Own /\ SwapOwned
    BY SpaceStep, SwapExactIsOwned DEF SpaceInv, Sound, SwapExact
  <2>2. Careful
    BY <2>1, CarefulStays
  <2>3. FrameOwned /\ OneShared
    BY <2>1, <2>2, FramesExactIsOwned DEF SpaceInv, Framed
  <2>4. sup[p][g] # NoPage
    BY DEF Entries
  <2>5. PICK r \in Proc, i \in Page : Written(r, i)
    BY <2>1, <2>3, <2>4, ViewStep
  <2>6. p = r
    BY <2>1, <2>3, <2>5, ViewWritten
  <2>7. \A q \in Proc \ {p}, h \in Page \ {Shm} : View(q, h)' = View(q, h)
    BY <2>1, <2>3, <2>5, <2>6, ViewWritten
  <2> QED
    BY <2>5, <2>7 DEF Written
<1> QED
  BY <1>1, SpaceInvariant, PTL DEF Spec, PagingTransparent
=============================================================================
