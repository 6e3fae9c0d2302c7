---------------------------- MODULE AddressSpace ----------------------------
(***************************************************************************)
(* User processes and their memory: load, demand paging, fork, exec, exit  *)
(* and the one shared-memory page (userprog/process.c, exception.c,        *)
(* syscall.c, vm/).  A process is the thread it runs in.  A user page is   *)
(* one of the program's segment pages, the stack page or the page that     *)
(* get_user_page() picks for shared memory; its content is one value.      *)
(* Pools hand out their lowest free page.  The writable bits, the program  *)
(* files and the file descriptors are left out.                            *)
(***************************************************************************)
EXTENDS Naturals, FiniteSets

CONSTANTS
  Proc,        \* thread pages usable by user processes
  Segment,     \* user pages of the loaded segments
  Stack,       \* the page below PHYS_BASE
  Shm,         \* the page get_user_page() finds
  Value,       \* contents of a page
  Image,       \* what the executable holds in every segment page
  Zero,        \* a page that PAL_ZERO cleared
  Freed,       \* the 0xcc pattern palloc_free_multiple() leaves
  UserPages,   \* size of the user pool
  SwapPages,   \* size of the swap pool, at most 64 in the code
  NoProc, NoPage

ASSUME AddressSpaceAssumption ==
  /\ Stack \notin Segment /\ Shm \notin Segment /\ Stack # Shm
  /\ {Image, Zero, Freed} \subseteq Value
  /\ UserPages \in Nat /\ SwapPages \in Nat
  /\ NoProc \notin Proc

Page == Segment \cup {Stack, Shm}

(* Physical pages: the user pool, then the swap store. *)
Frame == 1..UserPages
Swap  == UserPages + 1..UserPages + SwapPages
Phys  == Frame \cup Swap

ASSUME NoPageAssumption == NoPage \notin Phys

PC == {"none", "load", "forking", "run", "wait", "shmalloc", "shmmap", "exiting"}

VARIABLES
  pc,          \* where each process is in the kernel; "run" is user mode
  parent,      \* param->t of a process that fork_process() is building
  sup,         \* t->sup_list: user page -> kpool_no, NoPage if no entry
  pagedir,     \* t->pagedir: user page -> frame, NoPage if not present
  shm,         \* t->shared_mem
  shared_mem,  \* the global in shared_memory.c, NoPage for NULL
  used,        \* physical pages marked in the pools' used_map
  mem,         \* contents of physical memory
  frame_list,  \* (process, frame) entries of the frame table
  panic,       \* why the kernel has stopped: "no", "exhausted", "assert"
  leftOpen,    \* history: a process has exited with its shared page mapped
  allocRaced,  \* history: two processes have each allocated the shared page
  stranded     \* history: processes that wait for a child nobody created

vars == <<pc, parent, sup, pagedir, shm, shared_mem, used, mem, frame_list,
          panic, leftOpen, allocRaced, stranded>>
tables  == <<sup, pagedir, shm, frame_list>>
memory  == <<used, mem>>
history == <<leftOpen, allocRaced, stranded>>

NoTable == [g \in Page |-> NoPage]

(* main() has started run_task(): one process is about to be loaded. *)
Init ==
  /\ \E p \in Proc : pc = [q \in Proc |-> IF q = p THEN "load" ELSE "none"]
  /\ parent = [p \in Proc |-> NoProc]
  /\ sup = [p \in Proc |-> NoTable]
  /\ pagedir = [p \in Proc |-> NoTable]
  /\ shm = [p \in Proc |-> FALSE]
  /\ shared_mem = NoPage
  /\ used = {}
  /\ mem = [f \in Phys |-> Freed]
  /\ frame_list = {}
  /\ panic = "no"
  /\ leftOpen = FALSE
  /\ allocRaced = FALSE
  /\ stranded = {}

Entries(p) == {g \in Page : sup[p][g] # NoPage}
Mapped(p)  == {pagedir[p][g] : g \in Page} \ {NoPage}

Goto(p, from, to) == pc[p] = from /\ pc' = [pc EXCEPT ![p] = to]

FreeIn(pool) == pool \ used
Lowest(S)    == CHOOSE f \in S : \A g \in S : f <= g

(* Take the lowest page of a pool and fill it with v. *)
Alloc(pool, v) ==
  /\ FreeIn(pool) # {}
  /\ used' = used \cup {Lowest(FreeIn(pool))}
  /\ mem' = [mem EXCEPT ![Lowest(FreeIn(pool))] = v]

AddEntry(p, g, k) == sup' = [sup EXCEPT ![p][g] = k]
Map(p, g, f)      == pagedir' = [pagedir EXCEPT ![p][g] = f]

Panic(why) ==
  /\ panic' = why
  /\ UNCHANGED <<pc, parent, tables, shared_mem, memory, history>>

-----------------------------------------------------------------------------
(* load(): load_segment() puts each page of the image into the swap store; *)
(* setup_stack() maps a zeroed frame, and start_process() writes to it.    *)
LoadPage(p, g) ==
  /\ pc[p] = "load"
  /\ sup[p][g] = NoPage
  /\ Alloc(Swap, Image)
  /\ AddEntry(p, g, Lowest(FreeIn(Swap)))
  /\ UNCHANGED <<pc, parent, pagedir, shm, shared_mem, frame_list, panic, history>>

SetupStack(p) ==
  /\ Segment \subseteq Entries(p)
  /\ Goto(p, "load", "run")
  /\ Alloc(Frame, Zero)
  /\ AddEntry(p, Stack, Lowest(FreeIn(Frame)))
  /\ Map(p, Stack, Lowest(FreeIn(Frame)))
  /\ UNCHANGED <<parent, shm, shared_mem, frame_list, panic, history>>

(* swap_get_page() panics when the swap store is full; without a frame for *)
(* the stack the process just exits.  So does a load whose file is missing. *)
LoadOutOfSwap(p) ==
  /\ pc[p] = "load"
  /\ ~(Segment \subseteq Entries(p))
  /\ FreeIn(Swap) = {}
  /\ Panic("exhausted")

LoadFails(p) ==
  /\ Goto(p, "load", "exiting")
  /\ Entries(p) = {} \/ (Segment \subseteq Entries(p) /\ FreeIn(Frame) = {})
  /\ UNCHANGED <<parent, tables, shared_mem, memory, panic, history>>

-----------------------------------------------------------------------------
(* Mutant: the frame is cleared, and not filled. *)
PageFaultZeroed(p, g) ==
  /\ pc[p] = "run"
  /\ g \in Entries(p)
  /\ pagedir[p][g] = NoPage
  /\ Alloc(Frame, Zero)
  /\ Map(p, g, Lowest(FreeIn(Frame)))
  /\ UNCHANGED <<pc, parent, sup, shm, shared_mem, frame_list, panic, history>>

(* User-mode accesses.  page_fault() brings the backing page in. *)
PageFault(p, g) ==
  /\ pc[p] = "run"
  /\ g \in Entries(p)
  /\ pagedir[p][g] = NoPage
  /\ IF FreeIn(Frame) = {}
     THEN Panic("exhausted")
     ELSE /\ Alloc(Frame, mem[sup[p][g]])
          /\ Map(p, g, Lowest(FreeIn(Frame)))
          /\ frame_list' = frame_list \cup {<<p, Lowest(FreeIn(Frame))>>}
          /\ UNCHANGED <<pc, parent, sup, shm, shared_mem, panic, history>>

UserWrite(p, g, v) ==
  /\ pc[p] = "run"
  /\ pagedir[p][g] # NoPage
  /\ mem' = [mem EXCEPT ![pagedir[p][g]] = v]
  /\ UNCHANGED <<pc, parent, tables, shared_mem, used, panic, history>>

-----------------------------------------------------------------------------
(* sys_fork(): create the child, then down fork_sema whether or not there  *)
(* is one: thread_create() may return TID_ERROR at any time, and nobody    *)
(* will ever up the semaphore of a parent that it returned it to.          *)
Fork(p, q) ==
  /\ pc[p] = "run"
  /\ pc[q] = "none"
  /\ pc' = [pc EXCEPT ![p] = "wait", ![q] = "forking"]
  /\ parent' = [parent EXCEPT ![q] = p]
  /\ UNCHANGED <<tables, shared_mem, memory, panic, history>>

ForkFails(p) ==
  /\ Goto(p, "run", "wait")
  /\ stranded' = stranded \cup {p}
  /\ UNCHANGED <<parent, tables, shared_mem, memory, panic, leftOpen, allocRaced>>

(* load_addr_space(): one round of the loop over the parent's sup_list. *)
CopyEntry(q, g) ==
  LET p == parent[q] IN
  /\ pc[q] = "forking"
  /\ g \in Entries(p) \ Entries(q)
  /\ \/ /\ g \in Segment
        /\ Alloc(Swap, mem[sup[p][g]])
        /\ AddEntry(q, g, Lowest(FreeIn(Swap)))
        /\ UNCHANGED <<pagedir, shm>>
     \/ /\ g = Stack
        /\ Alloc(Frame, mem[sup[p][g]])
        /\ AddEntry(q, g, Lowest(FreeIn(Frame)))
        /\ Map(q, g, Lowest(FreeIn(Frame)))
        /\ UNCHANGED shm
     \/ /\ g = Shm
        /\ AddEntry(q, g, sup[p][g])
        /\ Map(q, g, sup[p][g])
        /\ shm' = [shm EXCEPT ![q] = TRUE]
        /\ UNCHANGED memory
  /\ UNCHANGED <<pc, parent, shared_mem, frame_list, panic, history>>

CopyOutOfPages(q) ==
  /\ pc[q] = "forking"
  /\ \E g \in Entries(parent[q]) \ Entries(q) :
       (g \in Segment /\ FreeIn(Swap) = {}) \/ (g = Stack /\ FreeIn(Frame) = {})
  /\ Panic("exhausted")

(* Mutant: without the sema_up(). *)
ForkDoneSilent(q) ==
  /\ Goto(q, "forking", "run")
  /\ Entries(q) = Entries(parent[q])
  /\ parent' = [parent EXCEPT ![q] = NoProc]
  /\ UNCHANGED <<tables, shared_mem, memory, panic, history>>

(* sema_up (&param->t->fork_sema), and both return to user mode. *)
ForkDone(q) ==
  /\ pc[q] = "forking"
  /\ Entries(q) = Entries(parent[q])
  /\ pc' = [pc EXCEPT ![q] = "run", ![parent[q]] = "run"]
  /\ parent' = [parent EXCEPT ![q] = NoProc]
  /\ UNCHANGED <<tables, shared_mem, memory, panic, history>>

-----------------------------------------------------------------------------
(* shared_memory_open_sys(): a process that has it open gets its page      *)
(* again; otherwise the NULL test, the allocation, and the mapping of      *)
(* whatever the global then holds.                                         *)
ShmOpen(p) ==
  /\ ~shm[p]
  /\ Goto(p, "run", IF shared_mem = NoPage THEN "shmalloc" ELSE "shmmap")
  /\ UNCHANGED <<parent, tables, shared_mem, memory, panic, history>>

ShmAlloc(p) ==
  /\ pc[p] = "shmalloc"
  /\ IF FreeIn(Frame) = {}
     THEN Panic("exhausted")
     ELSE /\ Goto(p, "shmalloc", "shmmap")
          /\ Alloc(Frame, mem[Lowest(FreeIn(Frame))])
          /\ shared_mem' = Lowest(FreeIn(Frame))
          /\ allocRaced' = (allocRaced \/ shared_mem # NoPage)
          /\ UNCHANGED <<parent, tables, panic, leftOpen, stranded>>

ShmMap(p) ==
  /\ Goto(p, "shmmap", "run")
  /\ shm' = [shm EXCEPT ![p] = TRUE]
  /\ AddEntry(p, Shm, shared_mem)
  /\ Map(p, Shm, shared_mem)
  /\ UNCHANGED <<parent, shared_mem, memory, frame_list, panic, history>>

(* Mutant: without pagedir_clear_page(). *)
CloseShmKeepsMapping(p) ==
  /\ shm' = [shm EXCEPT ![p] = FALSE]
  /\ sup' = [sup EXCEPT ![p][Shm] = NoPage]
  /\ UNCHANGED pagedir

(* Mutant: without current->shared_mem = false. *)
CloseShmKeepsFlag(p) ==
  /\ sup' = [sup EXCEPT ![p][Shm] = NoPage]
  /\ pagedir' = [pagedir EXCEPT ![p][Shm] = NoPage]
  /\ UNCHANGED shm

CloseShm(p) ==
  /\ shm' = [shm EXCEPT ![p] = FALSE]
  /\ sup' = [sup EXCEPT ![p][Shm] = NoPage]
  /\ pagedir' = [pagedir EXCEPT ![p][Shm] = NoPage]

ShmClose(p) ==
  /\ pc[p] = "run"
  /\ shm[p]
  /\ CloseShm(p)
  /\ UNCHANGED <<pc, parent, shared_mem, memory, frame_list, panic, history>>

-----------------------------------------------------------------------------
(* SYS_EXIT closes shared memory first; sys_exec() starts the new process  *)
(* and goes straight to thread_exit(), as kill() does.                     *)
SysExit(p) ==
  /\ Goto(p, "run", "exiting")
  /\ IF shm[p] THEN CloseShm(p) ELSE UNCHANGED <<sup, pagedir, shm>>
  /\ UNCHANGED <<parent, shared_mem, memory, frame_list, panic, history>>

Kill(p) ==
  /\ Goto(p, "run", "exiting")
  /\ leftOpen' = (leftOpen \/ shm[p])
  /\ UNCHANGED <<parent, tables, shared_mem, memory, panic, allocRaced, stranded>>

SysExec(p, q) ==
  /\ pc[p] = "run"
  /\ pc[q] = "none"
  /\ pc' = [pc EXCEPT ![p] = "exiting", ![q] = "load"]
  /\ leftOpen' = (leftOpen \/ shm[p])
  /\ UNCHANGED <<parent, tables, shared_mem, memory, panic, allocRaced, stranded>>

(* process_exit(): the frame table and the swap pages, then                *)
(* pagedir_destroy(), which frees every frame still mapped.                *)
OwnSwap(p) == {sup[p][g] : g \in Segment} \ {NoPage}

(* Mutant: the swap pages are not freed. *)
ReleaseSwapLeak(p) ==
  /\ pc[p] = "exiting"
  /\ Entries(p) # {}
  /\ frame_list' = {e \in frame_list : e[1] # p}
  /\ sup' = [sup EXCEPT ![p] = NoTable]
  /\ UNCHANGED <<pc, parent, pagedir, shm, shared_mem, memory, panic, history>>

ReleaseSwap(p) ==
  /\ pc[p] = "exiting"
  /\ Entries(p) # {}
  /\ frame_list' = {e \in frame_list : e[1] # p}
  /\ used' = used \ OwnSwap(p)
  /\ mem' = [f \in Phys |-> IF f \in OwnSwap(p) THEN Freed ELSE mem[f]]
  /\ sup' = [sup EXCEPT ![p] = NoTable]
  /\ UNCHANGED <<pc, parent, pagedir, shm, shared_mem, panic, history>>

DestroyPagedir(p) ==
  /\ pc[p] = "exiting"
  /\ Entries(p) = {}
  /\ IF Mapped(p) \subseteq used
     THEN /\ Goto(p, "exiting", "none")
          /\ used' = used \ Mapped(p)
          /\ mem' = [f \in Phys |-> IF f \in Mapped(p) THEN Freed ELSE mem[f]]
          /\ pagedir' = [pagedir EXCEPT ![p] = NoTable]
          /\ shm' = [shm EXCEPT ![p] = FALSE]
          /\ UNCHANGED <<parent, sup, shared_mem, frame_list, panic, history>>
     ELSE Panic("assert")

-----------------------------------------------------------------------------
Kernel(p) ==
  \/ \E g \in Segment : LoadPage(p, g)
  \/ SetupStack(p) \/ LoadOutOfSwap(p)
  \/ \E g \in Page : CopyEntry(p, g)
  \/ CopyOutOfPages(p) \/ ForkDone(p)
  \/ ShmAlloc(p) \/ ShmMap(p)
  \/ ReleaseSwap(p) \/ DestroyPagedir(p)

User(p) ==
  \/ \E g \in Page : PageFault(p, g) \/ \E v \in Value : UserWrite(p, g, v)
  \/ \E q \in Proc : Fork(p, q) \/ SysExec(p, q)
  \/ ForkFails(p)
  \/ ShmOpen(p) \/ ShmClose(p)
  \/ SysExit(p) \/ Kill(p)

Next == panic = "no" /\ \E p \in Proc : Kernel(p) \/ LoadFails(p) \/ User(p)

Spec == Init /\ [][Next]_vars

-----------------------------------------------------------------------------
Alive(p) == pc[p] \notin {"none", "exiting"}

(* What process p would read in page g. *)
View(p, g) == IF pagedir[p][g] # NoPage THEN mem[pagedir[p][g]]
              ELSE IF sup[p][g] # NoPage THEN mem[sup[p][g]] ELSE Freed

Careful == ~leftOpen /\ ~allocRaced

(* Every variable has its type. *)
TypeOK ==
  /\ pc \in [Proc -> PC]
  /\ parent \in [Proc -> Proc \cup {NoProc}]
  /\ sup \in [Proc -> [Page -> Phys \cup {NoPage}]]
  /\ pagedir \in [Proc -> [Page -> Frame \cup {NoPage}]]
  /\ shm \in [Proc -> BOOLEAN]
  /\ shared_mem \in Frame \cup {NoPage}
  /\ used \subseteq Phys
  /\ mem \in [Phys -> Value]
  /\ frame_list \subseteq Proc \X Frame
  /\ panic \in {"no", "exhausted", "assert"}
  /\ leftOpen \in BOOLEAN /\ allocRaced \in BOOLEAN /\ stranded \subseteq Proc

(* The swap store neither leaks nor shares: its used pages are exactly the *)
(* backing pages of the processes' segments, each with one owner.  (The    *)
(* variables' types are part of it.)                                       *)
SwapExact ==
  /\ TypeOK
  /\ used \cap Swap = UNION {OwnSwap(p) : p \in Proc}
  /\ \A p, q \in Proc, g, h \in Segment :
       sup[p][g] # NoPage /\ sup[p][g] = sup[q][h] => p = q /\ g = h

(* As long as every process closes shared memory before it execs or is     *)
(* killed, and two never allocate it at once: the frames in use are those  *)
(* mapped by some process and the shared one, and only that one is mapped  *)
(* by two processes.                                                       *)
FramesExact ==
  Careful =>
    /\ used \cap Frame = (UNION {Mapped(p) : p \in Proc}) \cup ({shared_mem} \ {NoPage})
    /\ \A p, q \in Proc, g, h \in Page :
         pagedir[p][g] # NoPage /\ pagedir[p][g] = pagedir[q][h]
           => (p = q /\ g = h) \/ pagedir[p][g] = shared_mem

(* Demand paging, copying for fork and the exit of others are invisible to *)
(* a process in user mode: what it reads in a page changes only through a  *)
(* write, and in its own pages not through anybody else's (a write changes *)
(* the private pages of one process at most).                              *)
PagingTransparent ==
  [][Careful' =>
       \A p \in Proc, g \in Page :
         pc[p] = "run" /\ pc'[p] = "run" /\ g \in Entries(p) \ {Shm}
           /\ View(p, g)' # View(p, g)
         => /\ UNCHANGED <<pc, sup, pagedir>>
            /\ \A q \in Proc \ {p}, h \in Page \ {Shm} :
                 View(q, h)' = View(q, h)]_vars

(* The flag t->shared_mem says exactly whether the process has the shared  *)
(* page in its supplementary table, which shared_memory_open_sys asserts,  *)
(* in whatever order it opens, closes, forks and inherits it.              *)
ShmFlagExact ==
  \A p \in Proc : Alive(p) => (shm[p] <=> sup[p][Shm] # NoPage)
                               /\ (shm[p] <=> pagedir[p][Shm] # NoPage)

(* A parent sleeps in fork() exactly while its one child is being built,   *)
(* and for ever if no child was created: the memory that a child is copied *)
(* from does not move under the copy, and nobody else's child wakes a      *)
(* parent that has none.                                                   *)
ParentWaits ==
  \A p \in Proc :
    /\ Cardinality({q \in Proc : pc[q] = "forking" /\ parent[q] = p})
         = IF pc[p] = "wait" /\ p \notin stranded THEN 1 ELSE 0
    /\ p \in stranded => pc[p] = "wait"

(* "Kernel fork system call duplicates the process": when the child starts *)
(* to run it reads in every page what its parent reads there.              *)
ForkDuplicates ==
  [][\A q \in Proc : pc[q] = "forking" /\ pc'[q] = "run"
       => \A g \in Page : View(q, g)' = View(parent[q], g)]_vars

(* shared_memory_close_sys() is called when a "thread is to be exited and  *)
(* user has forgotton to close the shared memory": no exit frees the page  *)
(* that shared_mem points to.                                              *)
SharedPageKept == shared_mem # NoPage => shared_mem \in used
=============================================================================
