# TLA+ models of the Pintos tree of assignment 4

The repository holds several submissions of a Pintos course project. The last
and most complete one, `src/Submissions/assignment4/10627_10446_10039/pintos/src/`,
is the one modelled here; paths below are relative to it. It is a teaching
kernel for one x86 CPU: preemptive kernel threads, semaphores, locks and
condition variables, user processes with demand paging, `fork`, a page of shared
memory, and a file system behind a write-back buffer cache.

- [Inventory](#inventory)
- [Modules and how they correspond to the code](#modules-and-how-they-correspond-to-the-code)
- [What each run checks](#what-each-run-checks)
- [Disagreements between the code and its documents](#disagreements-between-the-code-and-its-documents)
- [Fairness](#fairness)
- [What is proved](#what-is-proved)
- [What is not modelled](#what-is-not-modelled)
- [Plan](#plan)

## Inventory

| component | state | operations | what makes it hard | what makes it correct |
|---|---|---|---|---|
| scheduler (`threads/thread.c`, `switch.S`) | `status` of each thread, `ready_list`, `idle_thread`, `thread_ticks`, `all_list` | create, block, unblock, yield, exit, `schedule`, the tick | preemption between any two instructions with interrupts on; the idle thread is outside the queue, and is unknown to `thread.c` until it has run once | the queue holds exactly the runnable threads, once each; FIFO; the idle thread runs only if nothing else can; `schedule()` always finds a thread |
| interrupts (`threads/interrupt.c`) | `yield_on_return` | `intr_handler` | handlers run between any two instructions and may wake threads | as above, with handlers as actors |
| semaphores, locks (`threads/synch.c`) | `value`, `waiters`, `holder` | `sema_down/try_down/up`, `lock_acquire/try_acquire/release` | a woken thread tests the value again later and may find it taken; `holder` is written with interrupts on | mutual exclusion, no lost wakeup, `holder` right, one list element per thread |
| condition variables (`threads/synch.c`) | `cond->waiters`, one semaphore per waiter | `cond_wait/signal/broadcast` | preemption between release and sleep | no lost signal; a waiter's semaphore is its own; a broadcast ends |
| buffer cache (`filesys/cache.c`) | 64 slots with sector, dirty and accessed flags, reader and writer counts; the bitmap; the global lock | `read_cache`, `write_cache`, `save_cachetable`, and inside them `find_sector`, `add_cache`, `evict_cache` | bytes are copied without the lock; counts are changed with and without it; disk transfers sleep | counts exact; a read returns the last write; eviction ends; saving loses nothing |
| processes (`userprog/process.c`, `syscall.c`, `exception.c`) | supplementary table, page directory, flag `shared_mem`, `fork_sema` | load, page fault, fork, exec, exit, kill | a child is built from its parent's tables by another thread; exit takes several steps while others run | pages are neither leaked nor shared by accident; paging is invisible to programs; a parent sleeps while its child is built, and wakes |
| `vm/` | swap pool and its bitmap, frame table, the global `shared_mem` | take and release pages, open and close shared memory | a global that is tested and then set; who frees the page | one owner per page, the shared page excepted |
| page allocator (`threads/palloc.c`), block allocator (`threads/malloc.c`) | pools' bitmaps and locks; descriptors with their free lists and locks, arena headers | get and free pages, get and free blocks | searching for a run while bits are cleared without the lock; an arena returned while others search | no page handed out twice or lost; each block once on a list or in use; counts exact |
| file blocks (`filesys/inode.c`) | disk inodes with direct, indirect and doubly indirect blocks | create, grow, find, release | arithmetic at the end of each list; a failure ignored; release of files that have lists | every block in one sector, found where growth put it; no sector leaked |
| open inodes (`filesys/inode.c`), open files (`filesys/file.c`) | `open_inodes`, `open_cnt`, the memory of inodes | open, reopen, close, the last close | the list and the counts are changed without a lock; an inode is on the list before it has a sector | one inode per sector, counts exact, freed at the last close |
| free map (`filesys/free-map.c`) | the bitmap and its file | allocate, release | scan, flip and save without a lock; the save copies a live bitmap byte by byte | no sector with two owners; no bit of the file is wrong that nobody will write again |
| directories and names (`filesys/directory.c`, `filesys.c`, `fsutil.c`) | entries, working directories | look up, add, remove, create, mkdir, chdir, open | several steps, each of which can fail or be overtaken | a tree; `..` right; failures undone |
| console output (`lib/kernel/console.c`, `devices/serial.c`, `intq.c`) | console lock and depth, transmit queue, its waiter, interrupt enables | printing by threads and by handlers, the interrupt, flushing | a handler prints into a full queue; the enables are rewritten by every event | bytes in order, messages whole, a waiting printer gets on |
| disk channel (`devices/ide.c`) | channel lock, expecting flag, completion semaphore | read, write, the interrupt | a flag that is never cleared; an interrupt pending from the reset | one completion per command; an atomic disk |
| other devices (`timer.c`, `vga.c`, `kbd.c`, `rtc.c`, ...) | tick count, registers | sleeping, drawing | | |

Components meet as follows. Everything waits through `synch.c`, which waits
through `thread_block()` and wakes through `thread_unblock()`. The timer
interrupt calls `thread_tick()` and `thread_yield()`; the disk's interrupt calls
`sema_up()`. The file system reaches the disk only through the cache, whose
global lock is a `struct lock`. `process_exit()` saves the cache table, releases
its swap pages and frame-table entries and destroys the page directory; the page
fault handler, `load`, `fork` and shared memory take pages from the two pools of
`palloc.c`. `main()` runs the boot actions (`extract`, `rm`, `run`) one after the
other; `process_wait()` loops for ever, so that once a program has been started nothing but
processes uses the file system.

`PROJECT.json` lists every component and, under `hazards`, the places that are
hard to test, with the property that covers each or the reason there is none.

## Modules and how they correspond to the code

| module | models | extends |
|---|---|---|
| `Threads` | the scheduler and the timer tick | |
| `Synch` | semaphores and locks called by threads and interrupt handlers, the boot handshake with the idle thread | `Threads` |
| `AbstractLocks` | what `synch.h` promises of `struct lock` | |
| `Monitor`, `MCMonitor` | condition variables | `Synch` |
| `BufferCache`, `MCBufferCache` | the buffer cache | |
| `AddressSpace`, `MCAddressSpace` | processes and their memory | |
| `FileSystem`, `MCFileSystem` | free map, open inodes, directories and the calls on names, interleaved | |
| `Inode` | the blocks of files: growth, lookup and release through lists | |
| `Palloc` | a pool of pages | |
| `Malloc` | the block allocator on a pool | `Palloc` |
| `Console` | printing through the serial port's queue | |
| `AbstractDisk` | what the callers of a block device rely on | |
| `IdeChannel` | the ATA driver with its drive | |
| `MCParts` | puts `Threads`, `Console`, `IdeChannel`, `Malloc` and `Inode` side by side for one run | those |
| `SynchProofs`, `MonitorProofs` | theorems about `Threads` and `Synch`, and about `Monitor` | each its module; `MonitorProofs` also `SynchProofs` |
| `CacheProofs`, `AddressSpaceProofs` | theorems about `BufferCache` and `AddressSpace` | each its module |
| `AllocationProofs` | theorems about `Malloc` with `Palloc`, and about `Inode` | `Malloc` and `Inode` |
| `FileSystemProofs`, `TreeProofs` | theorems about `FileSystem`: references to open inodes; sectors, free map file and directory tree | `FileSystem`; `TreeProofs` also `FileSystemProofs` |
| `DeviceProofs` | theorems about `IdeChannel` and `Console` | both, as instances |

**Atomicity.** Code between `intr_disable()` and `intr_set_level()` is one
action: on one CPU nothing can come in between, except where the code itself
switches threads, and there the action ends. With interrupts on, each shared
access is a step of its own. `cache[i].reader++`, `writer--` and `open_cnt++` compile to one
x86 instruction on memory, which an interrupt cannot split, so each is one step.
`--open_cnt == 0` needs the value as well, so it is a load, a store and a test, and `memcpy()` of
something that others change is a load and a store per byte.
Code under a lock that nobody else can observe is folded into the step that
takes or gives the lock.

**Threads.** `status[t]` is `t->status`, with `"FREE"` for a page that holds no
thread. `Schedule(queue, st)` is `schedule()` with `thread_schedule_tail()`;
`ThreadBlock`, `ThreadUnblock`, `ThreadYield`, `ThreadExit`, `InitThread` and
`ThreadTick` are the functions of those names. `ThreadStart` and `SetIdle` are
the boot: interrupts stay off until `thread_start()` has queued the idle thread,
and `idle_thread` is null until `idle()` has run. Why a thread blocks and who
unblocks it is left open, so the properties of `Threads` hold for whatever is
built on it with its actions. `allocate_tid()`, priorities (set, never used) and
`all_list` are abstracted.

**Synch.** `pc[t]` says where a thread is between two steps: inside
`sema_down()` after a wakeup (`"down"`), between `lock_acquire()`'s decrement and
its write of `holder` (`"acquired"`), between `lock_release()`'s write and its
`sema_up()` (`"releasing"`), between the two halves of `thread_create()`
(`"creating"`). Interrupts are off in a thread that has been switched to inside
`sema_down()`, hence `InterruptsOn`. Callers obey the assertions of the interface
and do anything else; a thread that holds a lock does not exit.

**Monitor.** `cond_wait()` is four steps, `cond_broadcast()` one step per signal;
the semaphore on a waiter's stack is `Waiter[t]`, initialised again for each
wait. `CondRelease`, `CondSleep` and `CondReacquire` are conjunctions with the
actions of `Synch`.

**BufferCache.** `pc[t]` walks through `cache.c`: find, add, evict, write back,
load, loaded, pin, copy, mark, unpin, and save. A sector's content is one value
(a copy is one step, so torn reads of a sector are not modelled, and one step
stands for the transfer, whose bytes the IDE driver moves at one instant). Two
history variables say what a reader should see (`latest`) and whether one of the
cache's two races has happened (`raced`): a block evicted between
`add_cache()` and the count its caller raises, or a sector loaded into two slots.
Read-ahead is left out because nothing queues a block: the only call of
`add_readahead()` is commented out (`filesys/cache.c:152`).

**AddressSpace.** A process is the thread it runs in; `pc[p]` is `"run"` in user
mode. `sup`, `pagedir`, `shm`, `shared_mem`, `used` and `frame_list` are the
tables of those names. Each round of `load_segment()` and of `load_addr_space()`
is a step, as is each of the test, allocation and mapping in
`shared_memory_open_sys()`, and exit is two steps. Exhausted pools lead to
`PANIC`, as in the code. `process_exit()`'s call of `save_cachetable()` is
`BufferCache`'s `SaveBegin`. `thread_create()` may fail in any `fork`
(`ForkFails`): `sys_fork()` then sleeps on a semaphore that nobody will up, and the process
is `stranded`. The history variables `leftOpen` and `allocRaced`
record the two ways to misuse shared memory that the code does not prevent.

**FileSystem.** A process's call is a frame: `pc`, the directories it has open, the
sectors it has taken (`sector`, `block`), and the inode it has opened. `free_map` is the bitmap
in memory and `diskMap` the file it is written to. `ScanFreeMap` and `FlipBit` are
`bitmap_scan_and_flip()`; then `bitmap_write()` hands the live bitmap to `memcpy()`, which has no lock and can be
preempted between any two instructions: `LoadByte` takes the byte `Byte(at)` as it is,
`StoreByte` puts it in the file, whatever has happened to either in between, and `Saved` is where the
call goes on after the last byte. `free_map_release()` ends in the same copy. When two calls
copy at once, a byte loaded before another call's flip can be stored after that call has
written it, and the bit it flipped is wrong in the file until somebody writes that byte
again; the history variable `stale` has these bits.

Inside a directory's lock a lookup or an addition is one step; what `inode_open()` does with
`open_inodes`, which that lock does not protect, is a step per statement: the search (`Lookup`), `malloc()`
(`Allocate`), `list_push_front()` (`Link`), `inode->sector = sector` (`SetSector`), and `open_cnt = 1` with the
rest (`SetCount`), so that an inode is on the list before it has a sector, and has a sector before it has a count. In
`inode_close()` the count (`Close`) and the removal from the list with `free()` (`Unlist`) are two. Where two
such steps of different processes can overlap at the level of instructions, the model has both
outcomes: they happen one after the other, or memory is corrupt. `Relinking` is another's change of the list
during a change of it, `Searching` another's search during a removal (it may stand on the
inode that is freed), `Counts` a count that another process is about to decrement and may have
loaded already, and `Reopen` of a count of 0 an opener that found an inode before
its count was set or after its last closer saw 0. `Extract` and `Remove` are the boot
actions, `Run` is the start of the first program, `Reboot` starts again from the disk.

The code races here, and its errors are steps of the model: those just named, two calls that take
one free sector, `mkdir` closing what it made twice, a failed create that leaves its block behind,
a removed directory whose sectors are never released, a `chdir` that keeps a reference. Those that corrupt
memory or the disk, or panic, set `stopped`, and the model ends; the others are
counted by the history variables `leaked`, `doubled`, `lost` and `stale`, so that the
properties say that nothing *else* goes wrong.

**Inode.** `Division` is the arithmetic of `file_grow()`, with the slip of
`inode.c:161`; `Grown` carries it out on `number` and on `lists`, the contents of index
sectors; `FindBlock` is what `find_directblock()` and `find_indirectblock()` compute from the
same structures. `Direct` and `ListSize` are 122 and 128 in the code. `left_out` records a growth that
does not get all its blocks and `crashed` the null pointers of `inode_close()`; both
end the model.

**Palloc, Malloc.** `search[t]` is `bitmap_scan()` under the pool's lock, one
candidate at a time, with `ClearBit` of other threads in between. In `Malloc`,
what happens under a descriptor's lock without a call of the page allocator is one
action; with one, the lock is held over the steps of `Palloc`.

**Console.** `put` is what was given to the queue and `wire` what left it. With
interrupts off, `serial_putc()` is one step, or a sleep when the queue is full
(`WaitForRoom`); a handler polls a byte out instead (`PrintInHandler`). `WriteIer` is
`write_ier()` at the end of each of them.

**IdeChannel.** `step[t]` walks through `ide_read()` and `ide_write()`; `Drive` is what
the drive does with a command, as far as the driver's own use of its registers shows. The
refinement to `AbstractDisk` puts a read at the moment the drive loads its data
register and a write at the moment it stores it.

**MCParts.** The five parts share no variable, so one initial state per part,
with only that part moving, explores the sum of their states rather than the product. Each
temporal property holds of the other parts' behaviours trivially, and of its own part as it would alone.

## What each run checks

| run | module, cfg | size | what it shows |
|---|---|---|---|
| `parts` | `MCParts`, `Parts.cfg` | 70 946 states in all | the five parts below |
| - scheduler | | 5 threads, slice 2 | `SchedInv` (one running thread, exact queue, no duplicates, boot order), nobody overtaken, every queued thread runs |
| - console | | 2 printers, 2-byte messages, a ring of 3, 4 bytes | the wire carries the bytes in order, messages are not mixed, a sleeping printer gets on |
| - disk channel | | 2 callers, 2 sectors, 2 values | one completion per command, the channel is released, driver and drive implement `AbstractDisk` |
| - allocators | | 2 threads, 3 pages, 2 blocks per arena, runs of 2 | each page has one owner and none is lost; free lists and counts exact |
| - file blocks | | 2 files, 1 direct block, lists of 2, 14 sectors | lookups find what growth assigned, blocks do not move, sectors are accounted for |
| `synch` | `Synch`, `Synch.cfg` | 4 threads, 2 locks, 1 public semaphore up to 2; 66 952 states | waiter lists exact, no lost wakeup, mutual exclusion, `holder` exact, the locks implement `AbstractLocks`, every step is a step of `Threads` |
| `monitor` | `MCMonitor`, `Monitor.cfg` | 4 threads, 1 lock, 1 condition; 13 413 states | no signal is lost, waiters' semaphores are private, a broadcast ends, the boot handshake ends, a free lock with waiters is taken |
| `cache_counts` | `MCBufferCache`, `BufferCache.cfg` | 2 clients, 2 sectors, 1 slot; 261 067 states | counts exact and loading exclusive in every interleaving, races included; the eviction loop ends |
| `cache_coherent` | `MCBufferCache`, `BufferCache_coherent.cfg` | 2 clients, 3 sectors, 2 slots, symmetric; 448 185 states | up to the first race: lookups find, reads return and saving stores the last value written |
| `as_paging` | `MCAddressSpace`, `AddressSpace_paging.cfg` | 2 processes, 4 frames, 2 swap pages, two contents, creation that may fail, symmetric; 2 217 119 states | swap pages and frames have the owners they should, the shared-memory flag agrees with the tables, a parent sleeps exactly while its child is built, and what a process reads changes only by writes, never by paging, forking or exiting |
| `filesys` | `MCFileSystem`, `FileSystem.cfg` | 2 processes, 1 name, 8 sectors, 3 inode slots, two bytes of the map, symmetric; 1 228 257 states | until the model stops: one owner per sector, each wrong bit of the map on disk will still be written or is stale, the directories are a tree with right `..`, open counts exact |
| `cache_pinned`, `as_fork`, `as_exec`, `filesys_freed`, `inode_size` | | | counterexamples, see below |

**Bounds.** `Parts.cfg` has three ordinary threads besides main and idle: enough
for a queue in which order matters with one thread in front and one behind. A
slice of 2 has both kinds of tick. In `Synch.cfg` three threads can be owner, woken
and sleeping on one semaphore at the same time, which is what the wakeup protocol
is about, and two locks allow a thread to hold one while it waits for the other.
`MaxValue` bounds a semaphore's value in the guards of `CallSemaUp` and
`IntrSemaUp`; 2 is enough for two wakeups to be under way. `Monitor.cfg` allows two
waiters and a signaller. One slot makes every load of `BufferCache.cfg` an
eviction and makes the hand wrap at each step; two slots and three sectors in
`BufferCache_coherent.cfg` allow one sector in two slots, a free slot, and an eviction next
to a hit. Two processes with one segment page, a stack and a shared page need 5
frames if all is mapped at once; with the 4 they have, both can be resident, both can
share the page (with one segment page not yet faulted in), and the last fault
or fork exhausts memory, which is a step of its own (`Panic`).
`SwapPages` is 2, one per process, so the swap store is full when both live. Two
contents are enough to tell a page from another's: a freed page reads as a cleared one.

The console's ring of 3 holds two bytes, so both printers and a handler meet it
full, and it wraps within the 4 bytes of `MaxBytes`, which ends what is begun anew (a message under
way goes on). Two callers of the disk channel can queue for its lock; with two sectors and
two values a stale answer differs from a right one. Three pages and runs of two make
the allocator fail, find a hole, and search past one that opens behind it. With one direct
block and lists of two, files of the sizes in `Lengths` end in each region and at each
boundary: in the direct block, in the single list, in the first and second list of the double list. 14
sectors let one large file, or two that grow alternately, fill the disk. In
`FileSystem.cfg` the four sectors beyond those of the free map and the root
allow two directories, at one name: side by side in the root and below each other, so that both
processes can be in the same directory, one can stand in the other's, and a third
creation meets a full disk. Three inode slots are the root's and two more, so a slot can
be reused while another is open. `ByteBits` is 6, so the map has two bytes, the second not
full: a call can be between them, or hold one of them loaded, while another flips and copies. `MaxKept` bounds the references that
calls leave behind (leaked by `chdir`, or in a descriptor) by one; without a bound an open count grows for ever.

`CHECK_DEADLOCK FALSE` appears for `AddressSpace`, where the kernel may panic and all
processes may have exited, for `FileSystem` and `Inode`, which stop as described above, and for
`MCParts`, where the inodes stop and the console falls silent after `MaxBytes`. Symmetry
is used only in runs without liveness properties: clients, sectors (of the cache) and processes
are interchangeable, while slots, pages and sectors on the disk are numbers, since the code scans them in
order.

Each property of a passing run has a mutant of the model, in the same module,
that breaks it (`PROJECT.json`, `mutants`; the definitions commented `Mutant:`): a waiter left
on its list, `if` instead of `while` in `sema_down()`, a clock hand that does not
wrap, a block not marked dirty, a missing signal when the queue has room, a last byte
of the free map not written, and so on.

## Disagreements between the code and its documents

Five are runs, each with one property that TLC violates:

- `cache_pinned`: `DESIGN_DOCUMENT_4.txt` says a block with a reader or writer
  cannot be evicted. `add_cache()` releases the lock before its caller raises a
  count (`filesys/cache.c:149`), so another thread can evict the block in between
  and the caller copies from or into another sector's block.
- `as_fork`: `DESIGN_DOCUMENT_3.txt` says fork duplicates the process.
  `load_addr_space()` copies the backing pages, not the frames the parent has
  written to (`userprog/process.c:202`).
- `as_exec`: shared memory is to be closed for a thread that exits with it open.
  `sys_exec()` and `kill()` do not, and the page directory's destruction frees the
  page that `shared_mem` still names (`userprog/syscall.c:101`).

- `filesys_freed`: the comment of `inode_close()` (`filesys/inode.c:405`) says that it frees an inode's memory if
  the reference was the last. `mkdir` closes the directory it has made through `dir_close()` and through
  `file_close()`, which share one reference (`filesys/filesys.c:80`), so a process that has
  opened the directory in between uses a freed inode.
- `inode_size`: `DESIGN_DOCUMENT_4.txt` gives the maximum size of a file. When
  one growth needs more than one further list of the double list, `file_grow()`
  gets the blocks of one list and leaves the rest out: line 161 assigns `newblocks` where
  `loads` was meant. A file created that large has blocks with number 0.

Others met while modelling, which the models contain but no run states:

- `TIME_SLICE` is 4 (`threads/thread.c:57`) and unused; `thread_tick()` compares
  with the literal 100 (line 175). `TimeSlice` in `Threads` is that literal.
- `sys_fork()` downs `fork_sema` even if `thread_create()` failed
  (`userprog/syscall.c:96`): the parent sleeps for ever. The model has this step (`ForkFails`, `stranded`).
- Two first opens of shared memory can each allocate a page
  (`vm/shared_memory.c:17`); `allocRaced` records it.
- Two threads that miss the same sector load it twice (`filesys/cache.c:147`), and
  saving may then leave the older version on the disk; `raced` records it.

- The document counts 124 direct blocks, the code has 122 (`filesys/inode.c`).
- `free_map_allocate()` can give one sector to two callers (`free-map.c:30`), and two copies of the
  map at once can leave a bit of the file wrong that nobody will write again (`cache.c:178`): after a restart
  a sector in use may be given out once more. `DiskMapSafe` says which bits these are.
- `open_inodes` and `open_cnt` are changed without a lock (`inode.c:378`, `416`, `419`): the list can be broken, a
  reference lost, an inode freed that an open has just found. Two inodes for one sector, too, but that takes
  two directories that lead to it with the inode open in neither, and so, `chdir` keeping what it
  opens, a path of several components, which the model does not have.
- `dir_remove()` closes a directory before it marks it removed: its sectors
  are never released (`directory.c:244`).
- Only the inode's sector of a failed create is released (`filesys.c:63`).
- On a full disk, data of the blocks that could not be had goes to
  sector 0, the free map's inode (`inode.c:572`).
- Removing a file that has more than its direct blocks panics (`inode.c:440`).
- `sys_chdir()` never closes the file it opened (`syscall.c:122`).

`FramesExact` and `PagingTransparent` are stated for executions in which the two
shared-memory misuses have not happened, and the coherence properties of the cache
for those before the first race. The properties of `FileSystem` are stated until it stops,
and those of `Inode` for files whose growths were complete. In `ParentWaits` a parent whose child
could not be created is set apart (`stranded`). The other properties, those about the scheduler, semaphores, locks and conditions, the
cache's counts and eviction, swap pages and the shared-memory flag, the
allocators, the console and the disk channel, have no such condition.

## Fairness

- `FairSchedSpec`: `thread_start()` is called, and the timer keeps ticking. Nothing
  is assumed of threads; preemption alone makes `EveryReadyThreadRuns` true.
- `FairMonitorSpec`: the timer ticks and boot goes on (weak); a thread that is
  on the CPU again and again with a step inside a function to take takes it
  (strong). A slice is 100 ticks, long enough for some instruction of the thread to
  execute each time it is scheduled; weak fairness would not do, because each
  preemption disables the step. Threads need not call anything, and a holder
  need not release its lock: `FreeLockIsTaken` is about a lock that is free.
- `BufferCache!FairSpec`: strong fairness for each client's next step inside
  `cache.c`. The scheduler is round-robin and the lock's waiters are woken in
  order; strong fairness stands for a thread that wants the global lock getting it if it
  is free again and again. No client need make another call.
- `PartsFairness` is the fairness of the parts: of the timer as above; for the
  console, that the transmitter finishes a byte and that an enabled interrupt is
  delivered (nothing of threads: it is the interrupt that wakes a printer); for the disk channel,
  that the lock's holder is scheduled, the drive answers and its interrupt is delivered. A drive
  that does not answer within 30 s is a panic (`ide.c:354`), which is not modelled.

The semaphores themselves are not starvation-free: a woken thread can find the unit
taken every time. No property claims that they are.

## What is proved

TLAPS checks every theorem of the eight modules named `...Proofs`, for any sizes: any threads, semaphores
and locks, slice and initial values; any monitors and conditions; any clients, sectors, values and number of
slots of the cache; any processes, segment pages and pools; any processes, names, sectors and struct inodes of the file
system; any threads, pages, descriptors and sizes of arenas and runs; any ring, message length and printers;
any callers, sectors and contents of a disk channel; any files, and inodes, lists, entries and disks of any size.

What is assumed of the constants is named where they are declared. Two things given different names are
two things (main and idle, "nobody" and a thread, "no sector" and a sector, "." and a name, the stack and the shared page), a
lock is named by one of the semaphores, a waiter has a semaphore of its own, a pool, a ring and a cache
have room for something, an inode has a direct number, a directory entry is no larger than a sector, files are created
within the longest an inode can describe, and the sets whose members are counted (threads of `Synch`, `Client`,
`Process`) are finite. There has to be a condition in `Monitor`, since what a thread last waited for is one.

*Scheduler.* `SchedInv` is inductive. The type invariant alone is not: `schedule()`
returns `idle_thread`, which is null at first, so that `running` stays a thread
only if the queue cannot be empty before `idle()` has run. That is
`IdleBeforeStart`, which in turn needs `ReadyListExact` (a ready idle thread that has not
announced itself is in the queue) and `OneRunning`. One lemma says what
`Schedule` does to the invariant for any queue and status, and block, yield,
exit and the tick reduce to it. From the invariant follow
`SchedTypeCorrect`, `SchedOneRunning`, `SchedReadyListExact`, `SchedNoDuplicates`,
and, as properties of steps, `SchedRoundRobin` and `SchedIdleOnly`.

*Semaphores and locks.* Each step of `Synch` is shown to be a step of `Threads` or to leave its
variables alone (`SynchKeepsScheduler`), so `SchedInv` carries over and only the new
variables need an argument. `WaitInv` adds types, `CallsConsistent`, `WaitersExact` and
`WaitsOnce`: a step by the running thread cannot disturb a list that contains
only blocked threads, and `sema_up()` takes off exactly the thread it makes
ready. `LockInv` (`LockValue`, `MutualExclusion`, `HolderExact`) is preserved by each
action given `WaitInv`. Together they are `SynchInvariant`. On top of it:

- `SynchNoLostWakeup`: while somebody sleeps on a semaphore, each unit of its value
  has a woken thread on its way. The proof counts: `sema_up()` raises both sides by
  one while there are sleepers; a woken thread's test lowers both, or finds the value 0
  and puts the thread back to sleep; a third thread that takes a unit lowers the value only.
- `SynchImplementsLocks`: with `held <- locks`, `SynchSpec` implements
  `AbstractLocks!Spec`. `SetHolder` is the abstract acquisition (nobody else has
  the lock, by `MutualExclusion`), the first half of `LockRelease` the abstract release.

*Disk channel.* `OneCompletionPerCommand` is inductive once it says, besides the pairing of
commands with completions, what the drive may be doing at each step of the holder
(`DriveInStep`): an interrupt that arrives while a driver expects one can then only be the end
of the command it waits for. `IdeOneCompletion` proves it, and
`IdeImplementsDisk` that `IdeSpec` implements `AbstractDisk!Spec`: the mapping
changes at one caller at a time, `DriveReads` and `DriveWrites` are the abstract
read and write, and a return is the copy out of the register or the end of
a write's wait.

*Console.* `WireInOrderThm`: the two ends of the ring say how many bytes it holds and where each is (`Ring`), and what
was put is what left followed by these bytes; putting, sending, polling and flushing keep that, also where they wrap.
`MessagesWholeThm`: a thread has one message under way per level of the console lock, if it is the holder, and since
the outermost began, the bytes put are its own or a handler's and at least as many as its message lacks.

*Condition variables.* `MonitorInv` adds to `SynchInv` what is known of each waiter (`Element`), that a
thread is on one list once (`Lists`), and that the idle thread uses no monitor. The heart of it is that
a waiter's semaphore is touched by its owner and by whoever has just taken the owner off the list, and by nobody else:
its value is 1 exactly from that moment to the owner's decrement, which is `NoLostSignalThm`, and
`WaiterPrivateThm`. Since `cond_wait()` calls `sema_init()`, a step `Synch` does not have, its invariant has to be shown again
for that step (`MonitorKeepsSynch`): the semaphore is found as `sema_init()` would leave it.

*Buffer cache.* The counts and the exclusive loading (`PinCountsThm`, `LoadingExclusiveThm`) hold in every interleaving, races
included: each step moves one client, and lowers or raises the counts of the slot it enters or leaves. Coherence needs more, and
only until the first race. `Tidy` says where clients may be: a free slot has no sector's number except the one the lock's holder
has just emptied, no two slots have one number, a client that was told a slot finds its sector there, and nobody uses a
slot that is written back. `Contents` follows the data: a cached block has the last value written; it is dirty, or on the disk, or
its writer is about to mark it. `CoherentThm`, `SaveIsEnoughThm` and, for each read, `ReadsLatestThm` follow.

*Address spaces.* Each of the actions is reduced first to one of a few effects (a page is taken, an entry set, a page mapped, a
process moved), so that the accounts are argued once per effect. `Sound` holds always: swap pages and
entries match one to one (`SwapExactThm`), a child that is being built has a parent that waits for it alone, and is not stranded (`ParentWaitsThm`),
and the flag agrees with both tables (`ShmFlagExactThm`), which needs what a process has at each point of `shared_memory_open_sys()`
and of exit. `Framed`, the account of the frames (`FramesExactThm`), holds while shared memory is used as the code expects.
`PagingTransparentThm` follows from both: a page that is brought in has a new frame with the contents of its backing page, and every other step that
changes memory changes a page no running process reads, or is a write.

*Allocators.* `MallocInv` has four parts: the types, where each thread is and what it holds there (`Calls`: an arena is made only while its
descriptor has no free block), one owner per page (`OneOwner`), and the accounts of blocks
(`BlocksInv`): a list has exactly the free blocks of its descriptor's arenas, and an arena's count is the number of its free blocks. So when
`free()` finds that an arena is all free, the block it was called with was the last in use, and taking the arena's
blocks off the list leaves none behind. `PagesOwnedOnceThm`, `BlocksExactThm`.

*Blocks of files.* A file of `b` blocks has a sector for its inode, one for each block, and one for each list it needs (`Has`), and
`At` says which sector that is: for a block, what `find_directblock()` or `find_indirectblock()` computes. `FileInv` adds to the types that length and number of blocks
agree, and that what files have is marked, is in no two places one sector, and is all that is marked (`Owned`). That a growth keeps this is shown in steps, each a
lemma about the operators of the model: the sectors given out are distinct and free (`AvailableSectors`, by their rank among the free ones); a
division that loses nothing fills the direct numbers, then the single list, then the list that has room, then one more
(`DivisionParts`); each sector taken has exactly one place, and each new place one sector (`Place`, `PlacesTaken`); what is written at that place is that sector, and
no list that existed changes below what was used of it (`GrownIs`, `GrownAt`); another file's blocks are not disturbed, because the only sectors written are lists of
this file and new ones (`OwnedGrows`). With one new block, or a first growth of a file of one block, at most one list past the one
with room is begun, which is where the two ways of growing come in. `FileInvariant`, and from it `BlocksFoundThm`,
`SectorsAccountedThm` and, for steps, `BlocksStayThm`. `AppendsDivideExactly` bounds the slip of `inode.c:161`: an append adds at most one block, and a
division of one block always has its place. The provers do not multiply: divisions by the length of a list are
turned into a quotient and a remainder at once, and products are related by their differences (`Multiples`).

*File system.* `OpenCountsExactThm`: until two changes of the list or of one count overlap, `open_cnt` is the number of references, less those closed twice. The kernel closes too often
(`mkdir`) and too seldom (`chdir`), so the argument is not that every call is balanced. `RefInv` says what each
call refers to at each step (`Shape`), and that the directories from which paths start are `Kept`: the root, or leaked by the `chdir` that made
them a working directory, so that their references cannot all go. From this, an inode on which `open_cnt` reaches zero twice
is one somebody still refers to: the second process about to take it off the list (`Closers`) does not exist before memory is corrupt, and no struct inode is
on the free list twice (`HeapFree`). An inode that is being made (`Unmade`, `Makes`) is in nobody's hands but its maker's, on the list or not, and has no sector
before `SetSector`: whoever finds it before `SetCount` meets a count of 0, which stops the model, so the assignment `open_cnt = 1` loses nothing before that.
How a step changes the number of references is one lemma about cardinalities (`RefsChange`).

*Sectors and paths.* `SectorsOwnedOnceThm`, `DiskMapSafeThm` and `TreeSoundThm` come from one invariant, `PathInv`, which assumes `RefInv`
and holds until memory or the disk is corrupt. Each property needs the others: that two calls of `mkdir` never take one
sector needs the exact free map; that a new directory is a leaf of the tree needs that its sector was nobody's; that a directory keeps
its sectors while a call works in it needs that what is open is on a path. So `PathInv` has an owner for each sector
(`OneOwner`), one name per inode and exact dot entries but for a directory that a call has just made
(`Rooted`), and, for each call, which sectors it holds at each step (`Phase`) and what it has written already (`Written`): a directory is
linked to its parent before it has `"."` and `".."`, and the call that adds them still knows both.
The inodes on a path are the least set that has the root and what its directories name, and a step leaves that set alone, adds one leaf
(`mkdir`'s name, an extracted file) or takes one away (`rm`): `ReachSame`, `ReachAdd` and `ReachRemove` say so of any disk, and the parts of the invariant are
argued once for each of the three. The free map file has an account of its own (`FileInv`). `Marked`: a bit that is set in memory is set in the file, or
stale, or the call that has set it has yet to copy its byte; that call knows the sector (`pick`), and a byte it has loaded since has the bit, because two
calls that set one bit end the model (`Copied`). `Pending`: each wrong bit that is not stale has a call that has not stored its byte yet, and has not loaded
it with the wrong value. A store by one call can make a bit wrong that another has written; these are `stale` by definition, and the theorem
is that no other bit is ever wrong for good. Before the kernel runs, only the boot actions change the disk. A reboot reads the free map
from its file: if a stale bit is that of a sector on a path, the sector will be given out again, and the model ends there; otherwise `DiskMapSafe` keeps the
sectors of inodes on paths marked, and bits without an owner become `lost`.

In seven places a definition was rewritten so that the provers can read it, with the same value:
taking an arena's blocks off a list is a function on the list (`Without`) rather than a selection with an operator argument,
`TreeSound` filters pairs rather than matching them, `FramesExact` and `SectorsAccounted` say where a union ends, `Tree` is a least set rather than a recursion,
`Available` lists free sectors by rank rather than by sorting, and `Grown` writes index sectors by alternatives in order.

Only model-checked:

- all liveness (`EveryReadyThreadRuns`, `BootCompletes`, `FreeLockIsTaken`, `BroadcastEnds`, `EvictionEnds`,
  and those of the console and the disk channel): the proof system has no rules here for fairness and `ENABLED`;
- the five counterexamples, which are about one instance by nature.

## What is not modelled

Most of the repository's lines are earlier submissions: assignments 1 to 3, several times,
as whole source trees. They are older or equal copies of the same files, with the same library and test
programs, and a model of one of them would be the same model again. Of the tree of
assignment 4:

- *File system*: paths of several components (each is a loop of the lookup that is modelled; two inodes for
  one sector need them, see above), `readdir`, `ls`,
  `cat` and `append`; reading and writing inside a file, which is `BufferCache` block by
  block; write denial, which nothing calls; the creation of a file system by formatting. Composing
  `FileSystem` with `BufferCache`, step for step, is beyond TLC; the cache is taken as what
  `cache_coherent` shows it to be.
- *Processes*: writable bits and faults on read-only pages, argument passing, and a short
  read while loading, whose page goes to the wrong pool (`userprog/process.c:595`); ELF headers are data.
- *Scheduler*: `all_list` (its race is a hazard without a property), priorities, which have no effect,
  and `timer_sleep()`, a loop of `thread_yield()` whose end depends only on the tick count.
- *Keyboard and serial input*: `input_getc()` has no caller.
- *Devices that are registers only*: `vga.c`, `rtc.c`, `speaker.c`, `shutdown.c`, `pit.c`, and the
  detection of disks. `block.c` and `partition.c` pass calls on with an offset.
- *Tables for the processor*: `gdt.c`, `tss.c`, the assembler stubs, the loader.
- *Libraries*: strings, formatting, lists, hash tables, bitmaps, fixed-size arithmetic. They are sequential and
  used through their interfaces; the models have sequences, sets and functions in their place.
- *User programs, tests, tools and build files.*

## Plan

Done, in this order: `Threads`, `Synch` with `AbstractLocks`, `Monitor`, `BufferCache`,
`AddressSpace`, `SynchProofs`; then `Palloc`, `Malloc`, `Inode`, `Console`,
`IdeChannel` with `AbstractDisk`, `FileSystem`; then `DeviceProofs`, `CacheProofs`, `AddressSpaceProofs`,
`MonitorProofs`, `AllocationProofs`, `FileSystemProofs` and `TreeProofs`. Next:

1. `AllList` (threads linked and unlinked while interrupts are on) and `timer_sleep()` in `Threads`.
2. The first of two opens of shared memory losing its page (`vm/shared_memory.c:17`), as a
   property about frames that nobody will free.
