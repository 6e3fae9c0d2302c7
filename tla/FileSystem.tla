----------------------------- MODULE FileSystem -----------------------------
(***************************************************************************)
(* Files and directories: the free map (filesys/free-map.c), the in-memory *)
(* inodes (filesys/inode.c), directories (filesys/directory.c) and the     *)
(* operations on names (filesys/filesys.c), as the system calls mkdir,     *)
(* chdir and open, the loader, and the boot actions extract and rm use     *)
(* them.                                                                   *)
(*                                                                         *)
(* Boot actions run alone, so each is one action.  Once main has started a *)
(* program it never gets back (process_wait() loops), and only processes   *)
(* use the file system: their calls interleave at each access to the cache *)
(* and at each access to shared state.  Inside a directory's lock, a search *)
(* of the entries and an addition are one step, since only its holder reads *)
(* or writes the entries.                                                  *)
(*                                                                         *)
(* A file has one block (module Inode has the others), a path has one      *)
(* component after the root or the working directory, and a directory has  *)
(* an entry for each of a few names.  What a sector holds is forgotten when *)
(* nothing leads to it any more.  The model ends (stopped) where memory or  *)
(* the disk is corrupted, or the kernel panics.                            *)
(***************************************************************************)
EXTENDS Integers, Sequences, FiniteSets

CONSTANTS
  Process,     \* processes that use the file system
  Name,        \* names of files and directories, other than "." and ".."
  FsSectors,   \* size of the device
  ByteBits,    \* bits of the free map that memcpy() copies at once
  InodeSlots,  \* number of struct inode that fit in memory
  MaxKept,     \* references that calls leave behind, in descriptors or leaked,
               \* after which no chdir begins and no file is kept
  Nil

RootSector == 1                \* ROOT_DIR_SECTOR
Reserved   == 0 .. 3           \* the inodes of free map and root, and their blocks
FsSector   == 0 .. FsSectors - 1
Slot       == 1 .. InodeSlots
EntryName  == Name \cup {".", ".."}

ASSUME FileSystemAssumption ==
  /\ FsSectors \in Nat /\ FsSectors > 4 /\ ByteBits \in Nat \ {0}
  /\ InodeSlots \in Nat \ {0} /\ MaxKept \in Nat
  /\ IsFiniteSet(Process) /\ Nil \notin Slot
  /\ "." \notin Name /\ ".." \notin Name

VARIABLES
  free_map,    \* sectors whose bit is set in memory
  diskMap,     \* the free map file
  node,        \* disk inodes: type and first block, by sector
  entries,     \* contents of directories, by block: a sector, or 0
  inode,       \* struct inode: sector and open_cnt
  open_inodes, \* the list of open inodes
  heap,        \* free struct inode, last freed first
  pwd,         \* the inode of each process's working directory
  fds,         \* the inode of the file each process has open, or Nil
  frame,       \* the state of the call each process is in
  running,     \* main has started a program
  leaked,      \* history: references nobody will close, by slot
  doubled,     \* history: references closed twice, by slot
  lost,        \* history: sectors that nothing will release
  stale,       \* history: sectors whose bit in the file a stale byte made wrong
  stopped      \* memory or the disk is corrupt, or the kernel has panicked

diskVars   == <<node, entries, diskMap>>
memoryVars == <<inode, open_inodes, heap>>
holdVars   == <<pwd, fds, leaked, doubled>>
lostVars   == <<lost, stale>>
fsVars     == <<free_map, diskVars, memoryVars, holdVars, frame, running, lostVars, stopped>>

NoNode    == [type |-> "none", block |-> 0]
NoEntries == [n \in EntryName |-> 0]
NoInode   == [sector |-> 0, cnt |-> 0]
Outside   == [pc |-> "outside", call |-> "none", name |-> Nil, dirs |-> <<>>,
              pick |-> 0, sector |-> 0, block |-> 0, at |-> 0, loaded |-> Nil,
              making |-> Nil, inode |-> Nil, again |-> Nil,
              closing |-> Nil, next |-> Nil]

FsInit ==
  /\ free_map = Reserved /\ diskMap = Reserved
  /\ node = [s \in FsSector |-> IF s = RootSector THEN [type |-> "dir", block |-> 3]
                                                  ELSE NoNode]
  /\ entries = [s \in FsSector |->
       IF s = 3 THEN [NoEntries EXCEPT !["."] = RootSector, ![".."] = RootSector]
                ELSE NoEntries]
  /\ inode = [s \in Slot |-> IF s = 1 THEN [sector |-> RootSector, cnt |-> 1] ELSE NoInode]
  /\ open_inodes = {1}                  \* main's working directory
  /\ heap = [i \in 1 .. InodeSlots - 1 |-> i + 1]
  /\ pwd = [p \in Process |-> Nil]
  /\ fds = [p \in Process |-> Nil]
  /\ frame = [p \in Process |-> Outside]
  /\ running = FALSE
  /\ leaked = [s \in Slot |-> 0] /\ doubled = [s \in Slot |-> 0]
  /\ lost = {} /\ stale = {} /\ stopped = FALSE

Entry(dir, name) == entries[node[dir].block][name]
Unused == FsSector \ free_map
Lowest(S) == CHOOSE s \in S : \A t \in S : s <= t

IsDir(s) == node[s].type = "dir"

\* The inodes that a directory names, and those that a path leads to: the
\* fewest that include the root and all that a directory among them names.
Children(dir) == {Entry(dir, n) : n \in Name} \ {0}
Led(S) == RootSector \in S /\ \A d \in S : IsDir(d) => Children(d) \subseteq S
Tree ==
  LET all == {RootSector} \cup UNION {Children(d) : d \in {d \in FsSector : IsDir(d)}}
  IN  {s \in all : \A S \in SUBSET all : Led(S) => s \in S}

(***************************************************************************)
(* Boot: fsutil_extract(), fsutil_rm()                                     *)
(***************************************************************************)

\* filesys_create() of a file that is not empty, in the root directory; a
\* name that exists is a panic.  Without a sector for its block, the write
\* of the last byte goes to sector 0, the inode of the free map.
Extract(name) ==
  /\ ~running
  /\ IF Entry(RootSector, name) # 0 \/ Cardinality(Unused) < 2
     THEN stopped' = TRUE /\ UNCHANGED <<free_map, diskVars>>
     ELSE LET sector == Lowest(Unused)
              block  == Lowest(Unused \ {sector})
          IN  /\ free_map' = free_map \cup {sector, block}
              /\ diskMap' = free_map'
              /\ node' = [node EXCEPT ![sector] = [type |-> "file", block |-> block]]
              /\ entries' = [entries EXCEPT ![node[RootSector].block][name] = sector,
                                            ![block] = NoEntries]
              /\ UNCHANGED stopped
  /\ UNCHANGED <<memoryVars, holdVars, frame, running, lostVars>>

\* dir_remove() in the root directory.  A file's sectors are released when it
\* is closed.  For a directory, dir_close() frees the inode before it is
\* marked removed, so its sectors never are; one that is not empty stays.
Remove(name) ==
  LET sector == Entry(RootSector, name)
      block  == node[sector].block
      empty  == \A n \in Name : entries[block][n] = 0
  IN  /\ ~running /\ sector # 0
      /\ node[sector].type = "file" \/ empty
      /\ entries' = [entries EXCEPT ![node[RootSector].block][name] = 0,
                                    ![block] = NoEntries]
      /\ node' = [node EXCEPT ![sector] = NoNode]
      /\ IF node[sector].type = "file"
         THEN free_map' = free_map \ {sector, block} /\ UNCHANGED lost
         ELSE lost' = lost \cup {sector, block} /\ UNCHANGED free_map
      /\ diskMap' = free_map'
      /\ UNCHANGED <<memoryVars, holdVars, frame, running, stale, stopped>>

\* main starts a program; its processes get a working directory each.
Run ==
  /\ ~running /\ running' = TRUE
  /\ pwd' = [p \in Process |-> 1]
  /\ inode' = [inode EXCEPT ![1].cnt = @ + Cardinality(Process)]
  /\ UNCHANGED <<free_map, diskVars, open_inodes, heap, fds, leaked, doubled, frame, lostVars, stopped>>

\* The machine is started again from the disk, when the cache was saved after
\* the last call.  The free map is read from its file: a bit too many is lost
\* for good, one too few in the tree will be given out again.
Reboot ==
  /\ running /\ \A p \in Process : frame[p] = Outside
  /\ free_map' = diskMap
  /\ lost' = (lost \cap diskMap) \cup (diskMap \ free_map)
  /\ stale' = {}
  /\ stopped' = (\E t \in Tree : {t, node[t].block} \ diskMap # {})
  /\ inode' = [s \in Slot |-> IF s = 1 THEN [sector |-> RootSector, cnt |-> 1] ELSE NoInode]
  /\ open_inodes' = {1}
  /\ heap' = [i \in 1 .. InodeSlots - 1 |-> i + 1]
  /\ pwd' = [p \in Process |-> Nil]
  /\ fds' = [p \in Process |-> Nil]
  /\ leaked' = [s \in Slot |-> 0] /\ doubled' = [s \in Slot |-> 0]
  /\ running' = FALSE
  /\ UNCHANGED <<diskVars, frame>>

(***************************************************************************)
(* In-memory inodes                                                        *)
(***************************************************************************)

At(p, pc) == frame[p].pc = pc
Goto(p, pc) == frame' = [frame EXCEPT ![p].pc = pc]
Resume(p, record) == frame' = [frame EXCEPT ![p] = record]
Return(p) == Resume(p, Outside)
DirOf(p) == frame[p].dirs[Len(frame[p].dirs)]   \* the directory opened last

\* inode_lock() is held during a lookup, the opening of its result included.
Locked(s) == \E p \in Process : /\ frame[p].pc \in {"insert", "link", "setsector", "setcount"}
                                /\ DirOf(p) = s

\* Another process may be in the middle of a change of the list of open
\* inodes, or of a search of it (a call begins with one, for the root), with
\* interrupts on and no lock.
Relinking(p) == \E q \in Process \ {p} : frame[q].pc \in {"link", "unlist"}
Searching(p) == \E q \in Process \ {p} :
  At(q, "outside") \/ (frame[q].pc \in {"add", "lookup"} /\ ~Locked(DirOf(q)))

\* The slot that process q may be about to close.
Closes(q) ==
  LET f == frame[q]
  IN  CASE f.pc = "closemade"  -> f.inode
        [] f.pc = "closeagain" -> f.again
        [] f.pc \in {"closedir", "closelookup"} -> DirOf(q)
        [] f.pc = "opened" -> IF f.call = "chdir" THEN pwd[q] ELSE f.inode
        [] OTHER -> Nil

\* inode_close() loads open_cnt, subtracts one and stores it, with interrupts
\* on: when p changes the count of slot s, another process that is about to
\* close it may have loaded it before and store it afterwards.
Counts(p, s) ==
  \/ UNCHANGED stopped
  \/ (\E q \in Process \ {p} : Closes(q) = s) /\ stopped' = TRUE

\* inode_reopen().  With a count of 0 the inode is about to be freed, or is
\* being made and will have a count of 1.
Reopen(p, s) ==
  /\ inode' = [inode EXCEPT ![s].cnt = @ + 1]
  /\ IF inode[s].cnt > 0 THEN Counts(p, s) ELSE stopped' = TRUE

\* inode_close() of slot s, after which p goes on with a frame.  The last
\* closer still has to take the inode off the list.  Closing a freed inode
\* changes nothing but freed memory.
Close(p, s, after) ==
  IF s \notin open_inodes THEN UNCHANGED <<inode, stopped>> /\ Resume(p, after)
  ELSE /\ inode' = [inode EXCEPT ![s].cnt = @ - 1]
       /\ Counts(p, s)
       /\ Resume(p, IF inode[s].cnt # 1 THEN after
                    ELSE [after EXCEPT !.pc = "unlist", !.closing = s, !.next = after.pc])

\* The references to slot s that exist, whatever open_cnt says.
References(s) ==
  Cardinality({p \in Process : pwd[p] = s}) + Cardinality({p \in Process : fds[p] = s})
  + Cardinality({p \in Process : frame[p].inode = s})
  + Cardinality(UNION {{p} \X {i \in DOMAIN frame[p].dirs : frame[p].dirs[i] = s}
                        : p \in Process})
  + leaked[s] + (IF s = 1 THEN 1 ELSE 0)

\* The rest of the last inode_close(): list_remove() and free().  If someone
\* still refers to the inode, or stands on it in a search, the memory is used
\* after it is freed; if it overlaps with another change, the list is corrupt.
Unlist(p) ==
  LET s == frame[p].closing
  IN  /\ At(p, "unlist")
      /\ open_inodes' = open_inodes \ {s}
      /\ inode' = [inode EXCEPT ![s] = NoInode]
      /\ heap' = <<s>> \o heap
      /\ Resume(p, [frame[p] EXCEPT !.pc = frame[p].next, !.closing = Nil, !.next = Nil])
      /\ doubled' = [doubled EXCEPT ![s] = 0]
      /\ \/ stopped' = (References(s) > 0)
         \/ (Relinking(p) \/ Searching(p)) /\ stopped' = TRUE
      /\ UNCHANGED <<free_map, diskVars, pwd, fds, leaked, running, lostVars>>

-----------------------------------------------------------------------------
MayKeep ==
  Cardinality(UNION {{i} \X (1 .. leaked[i]) : i \in Slot})
  + Cardinality({q \in Process : fds[q] # Nil}) < MaxKept

\* A call begins with dir_lookup_rec(): the root directory, which is always
\* open, or the working directory is opened once more.  "open" is sys_open()
\* or load(), which differ in what they do with the file.
Begin(p, call, name, absolute) ==
  LET s == IF absolute THEN 1 ELSE pwd[p]
  IN  /\ running /\ At(p, "outside")
      /\ call = "chdir" => MayKeep
      /\ Reopen(p, s)
      /\ Resume(p, [Outside EXCEPT !.pc = IF call = "mkdir" THEN "scan" ELSE "lookup",
                       !.call = call, !.name = name, !.dirs = <<s>>])
      /\ UNCHANGED <<free_map, diskVars, open_inodes, heap, holdVars, running, lostVars>>

(***************************************************************************)
(* The free map                                                            *)
(***************************************************************************)

\* bitmap_scan(): the lowest sector that is free, for the inode and then for
\* its block.
ScanFreeMap(p) ==
  /\ At(p, "scan")
  /\ Resume(p, IF Unused # {}
               THEN [frame[p] EXCEPT !.pc = "flip", !.pick = Lowest(Unused)]
               ELSE [frame[p] EXCEPT !.pc = IF frame[p].sector = 0 THEN "closedir"
                                                                   ELSE "makeinode"])
  /\ UNCHANGED <<free_map, diskVars, memoryVars, holdVars, running, lostVars, stopped>>

\* Its bit is set, in a step of its own: two processes may set the same one.
FlipBit(p) ==
  /\ At(p, "flip")
  /\ stopped' = (frame[p].pick \in free_map)
  /\ free_map' = free_map \cup {frame[p].pick}
  /\ Goto(p, "save")
  /\ UNCHANGED <<diskVars, memoryVars, holdVars, running, lostVars>>

\* bitmap_write() copies the bits to the file byte by byte, at both places
\* that call it.  The byte is loaded ...
Byte(at) == {s \in FsSector : at <= s /\ s < at + ByteBits}
Saving(p) == frame[p].pc \in {"save", "saverelease"}

LoadByte(p) ==
  /\ Saving(p) /\ frame[p].loaded = Nil
  /\ Resume(p, [frame[p] EXCEPT !.loaded = free_map \cap Byte(frame[p].at)])
  /\ UNCHANGED <<free_map, diskVars, memoryVars, holdVars, running, lostVars, stopped>>

\* The call goes on after bitmap_write(): an inode's sector is followed by its
\* block's, and that by the inode.
Saved(f) ==
  LET g == [f EXCEPT !.at = 0, !.loaded = Nil, !.pick = 0]
  IN  IF f.pc = "saverelease" THEN [g EXCEPT !.pc = "closedir"]
      ELSE IF f.sector = 0 THEN [g EXCEPT !.pc = "scan", !.sector = f.pick]
      ELSE [g EXCEPT !.pc = "makeinode", !.block = f.pick]

\* The bits that a map has and the one in memory has not, and conversely.
Wrong(map) == (map \ free_map) \cup (free_map \ map)

\* Mutant: a last byte that is not full is not written.
StoreFullByte(p) ==
  LET f == frame[p]
  IN  /\ Saving(p) /\ f.loaded # Nil
      /\ diskMap' = IF f.at + ByteBits > FsSectors THEN diskMap
                    ELSE (diskMap \ Byte(f.at)) \cup f.loaded
      /\ stale' = {s \in Wrong(diskMap') : s \in stale \/ s \notin Wrong(diskMap)}
      /\ Resume(p, IF f.at + ByteBits < FsSectors
                   THEN [f EXCEPT !.at = @ + ByteBits, !.loaded = Nil] ELSE Saved(f))
      /\ UNCHANGED <<free_map, node, entries, memoryVars, holdVars, running, lost, stopped>>

\* ... and stored, with the bits that others have changed and not written
\* yet, and without those they have changed since it was loaded.
StoreByte(p) ==
  LET f == frame[p]
  IN  /\ Saving(p) /\ f.loaded # Nil
      /\ diskMap' = (diskMap \ Byte(f.at)) \cup f.loaded
      /\ stale' = {s \in Wrong(diskMap') : s \in stale \/ s \notin Wrong(diskMap)}
      /\ Resume(p, IF f.at + ByteBits < FsSectors
                   THEN [f EXCEPT !.at = @ + ByteBits, !.loaded = Nil] ELSE Saved(f))
      /\ UNCHANGED <<free_map, node, entries, memoryVars, holdVars, running, lost, stopped>>

\* Mutant: a failed call does not release the inode's sector.
ReleaseNothing(p) ==
  /\ At(p, "release")
  /\ node' = [node EXCEPT ![frame[p].sector] = NoNode]
  /\ lost' = lost \cup ({frame[p].block} \ {0})
  /\ Resume(p, [frame[p] EXCEPT !.pc = "saverelease", !.sector = 0, !.block = 0])
  /\ UNCHANGED <<free_map, diskMap, entries, memoryVars, holdVars, running, stale, stopped>>

\* free_map_release() of the inode's sector when filesys_create() has failed.
\* The block that inode_create() took stays behind.
ReleaseSector(p) ==
  /\ At(p, "release")
  /\ free_map' = free_map \ {frame[p].sector}
  /\ node' = [node EXCEPT ![frame[p].sector] = NoNode]
  /\ lost' = lost \cup ({frame[p].block} \ {0})
  /\ Resume(p, [frame[p] EXCEPT !.pc = "saverelease", !.sector = 0, !.block = 0])
  /\ UNCHANGED <<diskMap, entries, memoryVars, holdVars, running, stale, stopped>>

(***************************************************************************)
(* mkdir                                                                   *)
(***************************************************************************)

\* inode_create() writes the inode, also when it found no block.
MakeInode(p) ==
  LET f == frame[p]
  IN  /\ At(p, "makeinode")
      /\ node' = [node EXCEPT ![f.sector] = [type |-> "dir", block |-> f.block]]
      /\ entries' = [entries EXCEPT ![f.block] = IF f.block = 0 THEN @ ELSE NoEntries]
      /\ Goto(p, IF f.block = 0 THEN "release" ELSE "add")
      /\ UNCHANGED <<free_map, diskMap, memoryVars, holdVars, running, lostVars, stopped>>

\* dir_add (): an entry in the directory in slot s, unless it has the name.
Add(s, name, sector) ==
  entries' = [entries EXCEPT ![node[inode[s].sector].block][name] =
                IF @ = 0 THEN sector ELSE @]

\* dir_add() of the new name; then the new directory is opened by its name,
\* in a second dir_lookup_rec().
AddName(p) ==
  LET f == frame[p]
      s == f.dirs[1]
  IN  /\ At(p, "add") /\ ~Locked(s)
      /\ Add(s, f.name, f.sector)
      /\ IF Entry(inode[s].sector, f.name) # 0
         THEN Goto(p, "release") /\ UNCHANGED <<inode, stopped>>
         ELSE /\ Reopen(p, s)
              /\ Resume(p, [f EXCEPT !.pc = "lookup", !.dirs = <<s, s>>])
      /\ UNCHANGED <<free_map, node, diskMap, open_inodes, heap, holdVars, running, lostVars>>

\* dir_add() of "." and then of "..".
AddDot(p) ==
  /\ At(p, "adddot") /\ ~Locked(frame[p].inode)
  /\ Add(frame[p].inode, ".", frame[p].sector)
  /\ Goto(p, "addparent")
  /\ UNCHANGED <<free_map, node, diskMap, memoryVars, holdVars, running, lostVars, stopped>>

\* Mutant: the parent is taken to be the root.
AddParentRoot(p) ==
  /\ At(p, "addparent") /\ ~Locked(frame[p].inode)
  /\ Add(frame[p].inode, "..", RootSector)
  /\ Goto(p, "closemade")
  /\ UNCHANGED <<free_map, node, diskMap, memoryVars, holdVars, running, lostVars, stopped>>

AddParent(p) ==
  /\ At(p, "addparent") /\ ~Locked(frame[p].inode)
  /\ Add(frame[p].inode, "..", inode[frame[p].dirs[1]].sector)
  /\ Goto(p, "closemade")
  /\ UNCHANGED <<free_map, node, diskMap, memoryVars, holdVars, running, lostVars, stopped>>

\* dir_close() of the new directory.
CloseMade(p) ==
  LET s == frame[p].inode
  IN  /\ At(p, "closemade")
      /\ Close(p, s, [frame[p] EXCEPT !.pc = "closeagain", !.inode = Nil, !.again = s])
      /\ UNCHANGED <<free_map, diskVars, open_inodes, heap, holdVars, running, lostVars>>

\* file_close() of the file it was opened as: the same reference again.
CloseAgain(p) ==
  LET s == frame[p].again
  IN  /\ At(p, "closeagain")
      /\ Close(p, s, [frame[p] EXCEPT !.pc = "closedir", !.again = Nil, !.sector = 0,
                                      !.block = 0])
      /\ doubled' = IF s \in open_inodes THEN [doubled EXCEPT ![s] = @ + 1] ELSE doubled
      /\ UNCHANGED <<free_map, diskVars, open_inodes, heap, pwd, fds, leaked, running, lostVars>>

CloseDir(p) ==
  /\ At(p, "closedir")
  /\ Close(p, frame[p].dirs[1], Outside)
  /\ UNCHANGED <<free_map, diskVars, open_inodes, heap, holdVars, running, lostVars>>

(***************************************************************************)
(* filesys_open()                                                          *)
(***************************************************************************)

\* dir_lookup(): under the directory's lock the name is looked up and
\* inode_open() searches the list of open inodes, which the lock does not
\* protect, ...
Lookup(p) ==
  LET sector == Entry(inode[DirOf(p)].sector, frame[p].name)
      open   == {s \in open_inodes : inode[s].sector = sector}
      f      == [frame[p] EXCEPT !.name = Nil, !.pc = "closelookup"]
  IN  /\ At(p, "lookup") /\ ~Locked(DirOf(p))
      /\ \/ /\ sector = 0
            /\ Resume(p, f) /\ UNCHANGED <<inode, stopped>>
         \/ /\ sector # 0 /\ open = {}
            /\ Resume(p, [f EXCEPT !.pc = "insert", !.pick = sector])
            /\ UNCHANGED <<inode, stopped>>
         \/ \E s \in open :
              /\ sector # 0
              /\ Reopen(p, s) /\ Resume(p, [f EXCEPT !.inode = s])
      /\ UNCHANGED <<free_map, diskVars, open_inodes, heap, holdVars, running, lostVars>>

\* ... and makes an inode, unless the kernel is out of memory.  Another
\* process may have made one for the same sector in between.
Allocate(p) ==
  /\ At(p, "insert")
  /\ \/ Resume(p, [frame[p] EXCEPT !.pc = "closelookup", !.pick = 0]) /\ UNCHANGED heap
     \/ /\ heap # <<>>
        /\ heap' = Tail(heap)
        /\ Resume(p, [frame[p] EXCEPT !.pc = "link", !.making = Head(heap)])
  /\ UNCHANGED <<free_map, diskVars, inode, open_inodes, holdVars, running, lostVars,
                 stopped>>

\* list_push_front().  The inode is on the list before it has a sector ...
Link(p) ==
  /\ At(p, "link")
  /\ open_inodes' = open_inodes \cup {frame[p].making}
  /\ Goto(p, "setsector")
  /\ UNCHANGED stopped \/ (Relinking(p) /\ stopped' = TRUE)
  /\ UNCHANGED <<free_map, diskVars, inode, heap, holdVars, running, lostVars>>

SetSector(p) ==
  LET sector == frame[p].pick
  IN  /\ At(p, "setsector")
      /\ inode' = [inode EXCEPT ![frame[p].making].sector = sector]
      /\ stopped' = (\E t \in open_inodes : inode[t].sector = sector)
      /\ Goto(p, "setcount")
      /\ UNCHANGED <<free_map, diskVars, open_inodes, heap, holdVars, running, lostVars>>

\* ... and before open_cnt and the lock are initialised: whoever finds it
\* before this step (Lookup, cnt 0) loses its reference or its lock, a second
\* close of what was in the slot before has no effect, or overwrites it.
SetCount(p) ==
  LET s == frame[p].making
  IN  /\ At(p, "setcount")
      /\ inode' = [inode EXCEPT ![s].cnt = 1]
      /\ doubled' = [doubled EXCEPT ![s] = 0]
      /\ Counts(p, s)
      /\ Resume(p, [frame[p] EXCEPT !.pc = "closelookup", !.pick = 0, !.making = Nil,
                                    !.inode = s])
      /\ UNCHANGED <<free_map, diskVars, open_inodes, heap, pwd, fds, leaked, running, lostVars>>

Opened(p, call) == At(p, "opened") /\ frame[p].call = call /\ frame[p].inode # Nil

\* dir_close() of the directory.  Without a result the other calls return.
CloseLookup(p) ==
  LET f == [frame[p] EXCEPT !.dirs = SubSeq(@, 1, Len(@) - 1),
              !.pc = IF frame[p].call = "mkdir" /\ frame[p].inode # Nil THEN "adddot"
                                                                       ELSE "opened"]
  IN  /\ At(p, "closelookup")
      /\ Close(p, DirOf(p), IF f.inode = Nil /\ f.call # "mkdir" THEN Outside ELSE f)
      /\ UNCHANGED <<free_map, diskVars, open_inodes, heap, holdVars, running, lostVars>>

\* filesys_create() does not ask whether the directory it has made was opened.
NotOpened(p) ==
  /\ At(p, "opened") /\ frame[p].call = "mkdir"
  /\ stopped' = TRUE
  /\ UNCHANGED <<free_map, diskVars, memoryVars, holdVars, frame, running, lostVars>>

\* sys_open(): the file, and the directory made from it, have one reference.
KeepFile(p) ==
  /\ Opened(p, "open") /\ fds[p] = Nil /\ MayKeep
  /\ fds' = [fds EXCEPT ![p] = frame[p].inode]
  /\ Return(p)
  /\ UNCHANGED <<free_map, diskVars, memoryVars, pwd, leaked, doubled, running, lostVars, stopped>>

\* load() closes the file when it has read it.
CloseFile(p) ==
  /\ Opened(p, "open")
  /\ Close(p, frame[p].inode, Outside)
  /\ UNCHANGED <<free_map, diskVars, open_inodes, heap, holdVars, running, lostVars>>

\* Mutant: the old working directory is not closed.
KeepPwd(p) ==
  LET s == frame[p].inode
  IN  /\ Opened(p, "chdir")
      /\ IF node[inode[s].sector].type = "dir"
         THEN /\ pwd' = [pwd EXCEPT ![p] = Nil]
              /\ Resume(p, [frame[p] EXCEPT !.pc = "setpwd"])
              /\ UNCHANGED leaked
         ELSE /\ leaked' = [leaked EXCEPT ![s] = @ + 1]
              /\ Return(p)
              /\ UNCHANGED pwd
      /\ UNCHANGED <<free_map, diskVars, memoryVars, fds, doubled, running, lostVars, stopped>>

\* sys_chdir() never closes the file.  If it is a directory, the old working
\* directory is closed ...
LeavePwd(p) ==
  LET s == frame[p].inode
  IN  /\ Opened(p, "chdir")
      /\ IF node[inode[s].sector].type = "dir"
         THEN /\ pwd' = [pwd EXCEPT ![p] = Nil]
              /\ Close(p, pwd[p], [frame[p] EXCEPT !.pc = "setpwd"])
              /\ UNCHANGED leaked
         ELSE /\ leaked' = [leaked EXCEPT ![s] = @ + 1]
              /\ Return(p)
              /\ UNCHANGED <<pwd, inode, stopped>>
      /\ UNCHANGED <<free_map, diskVars, open_inodes, heap, fds, doubled, running, lostVars>>

\* ... and the new one opened again.
SetPwd(p) ==
  LET s == frame[p].inode
  IN  /\ At(p, "setpwd")
      /\ Reopen(p, s)
      /\ pwd' = [pwd EXCEPT ![p] = s]
      /\ leaked' = [leaked EXCEPT ![s] = @ + 1]
      /\ Return(p)
      /\ UNCHANGED <<free_map, diskVars, open_inodes, heap, fds, doubled, running, lostVars>>

-----------------------------------------------------------------------------
Continue(p) ==
  \/ ScanFreeMap(p) \/ FlipBit(p) \/ ReleaseSector(p) \/ LoadByte(p) \/ StoreByte(p)
  \/ MakeInode(p) \/ AddName(p) \/ AddDot(p) \/ AddParent(p)
  \/ CloseMade(p) \/ CloseAgain(p) \/ CloseDir(p) \/ Unlist(p)
  \/ Lookup(p) \/ Allocate(p) \/ Link(p) \/ SetSector(p) \/ SetCount(p) \/ CloseLookup(p)
  \/ NotOpened(p) \/ KeepFile(p) \/ CloseFile(p) \/ LeavePwd(p) \/ SetPwd(p)

FsNext ==
  /\ ~stopped
  /\ \/ Run \/ Reboot
     \/ \E name \in Name : Extract(name) \/ Remove(name)
     \/ \E p \in Process :
          \/ Continue(p)
          \/ \E absolute \in BOOLEAN, name \in Name : Begin(p, "mkdir", name, absolute)
          \/ \E absolute \in BOOLEAN, name \in Name \cup {".."},
                call \in {"open", "chdir"} : Begin(p, call, name, absolute)

FsSpec == FsInit /\ [][FsNext]_fsVars

(***************************************************************************)
(* Properties                                                              *)
(***************************************************************************)

\* The sectors of calls that have taken some and named no inode yet.
Taken(p) ==
  IF frame[p].pc \in {"scan", "flip", "save", "makeinode", "add", "release"}
  THEN ({frame[p].sector, frame[p].block}
        \cup IF frame[p].pc = "save" THEN {frame[p].pick} ELSE {}) \ {0} ELSE {}

\* Each sector has one owner if its bit is set and none otherwise: an inode
\* that a path leads to, a call that is making one, or the sectors known to
\* be lost, by a name that was taken and by the removal of a directory.
SectorsOwnedOnce ==
  LET tree == Tree
      Owners(s) == {<<"tree", t>> : t \in {t \in tree : s \in {t, node[t].block}}}
                   \cup {<<"call", p>> : p \in {p \in Process : s \in Taken(p)}}
                   \cup {<<"other", s>> : x \in (lost \cup {0, 2}) \cap {s}}
  IN  ~stopped => \A s \in FsSector :
        Cardinality(Owners(s)) = IF s \in free_map THEN 1 ELSE 0

\* A call will still write what memory has for sector s: its byte is to be
\* loaded, or was loaded with the right bit.
WillSave(p, s) ==
  LET f == frame[p]
  IN  /\ Saving(p) /\ f.at <= s
      /\ f.loaded # Nil /\ s \in Byte(f.at) => (s \in f.loaded <=> s \in free_map)

\* The free map file marks every sector of the tree, whichever processes write
\* it at once, and has each bit right that no call will still write: but for
\* the bits that a byte loaded before another call's change made wrong.
DiskMapSafe ==
  ~stopped =>
    /\ \A t \in Tree : {t, node[t].block} \subseteq diskMap \cup stale
    /\ \A s \in Wrong(diskMap) \ stale : \E p \in Process : WillSave(p, s)

\* A path leads to each inode from one directory only; a directory names
\* itself "." and its parent ".." unless the call that made it has not added
\* them yet.
TreeSound ==
  LET dirs == {d \in Tree : IsDir(d)}
      uses == {u \in dirs \X Name : Entry(u[1], u[2]) # 0}
  IN  ~stopped =>
        /\ \A u, v \in uses : Entry(u[1], u[2]) = Entry(v[1], v[2]) => u = v
        /\ \A u \in uses :
             LET c == Entry(u[1], u[2])
             IN  IsDir(c) => \/ Entry(c, ".") = c /\ Entry(c, "..") = u[1]
                             \/ \E p \in Process : frame[p].call = "mkdir"
                                                   /\ frame[p].sector = c

\* open_cnt counts the references to an inode, less those closed twice: no
\* other path of a call closes too much or too little, and with no reference
\* left the inode is about to leave the list, or has just come onto it.  A
\* sector has one struct inode.  All this until two calls change one list or
\* count at once (stopped).
OpenCountsExact ==
  ~stopped =>
    /\ \A s \in open_inodes :
         /\ inode[s].cnt = References(s) - doubled[s]
         /\ inode[s].cnt <= 0 => \E p \in Process : s \in {frame[p].closing, frame[p].making}
    /\ \A s \in Slot \ open_inodes : References(s) = 0
    /\ \A s, t \in open_inodes :
         inode[s].sector = inode[t].sector /\ inode[s].sector # 0 => s = t

\* "If this was the last reference to INODE, frees its memory": what inode_close()
\* has freed nobody refers to.
FreedAtLast == \A s \in Slot \ open_inodes : References(s) = 0
=============================================================================
