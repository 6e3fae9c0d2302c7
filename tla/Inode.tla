------------------------------- MODULE Inode -------------------------------
(***************************************************************************)
(* Blocks of files: filesys/inode.c.  A disk inode holds Direct sector     *)
(* numbers, the number of a list of ListSize more, and the number of a     *)
(* list of such lists; the code has 122 and 128.  This module is the       *)
(* arithmetic of growing, finding and releasing blocks, which one thread   *)
(* runs at a time; FileSystem has the interleavings, of small files.       *)
(*                                                                         *)
(* Files grow in the two ways the kernel uses: filesys_create() makes a    *)
(* file of its final size, and a directory grows by one entry at a time.   *)
(* After a growth that leaves blocks out, block numbers that were never    *)
(* assigned are 0 and data goes to sector 0: left_out records why, and the *)
(* model ends there, as it does when the kernel panics.                    *)
(***************************************************************************)
EXTENDS Integers, Sequences, FiniteSets

CONSTANTS
  Files,        \* files that may exist
  Direct,       \* INODE_BLOCKS - 2
  ListSize,     \* INODE_LIST
  SectorBytes,  \* BLOCK_SECTOR_SIZE
  EntryBytes,   \* sizeof (struct dir_entry)
  DiskSectors,  \* size of the file system device
  Lengths       \* sizes that files are created with, within what an inode can hold

\* The end of the longest file an inode can describe.
MaxEnd == (Direct + ListSize + ListSize * ListSize) * SectorBytes - 1

ASSUME InodeAssumption ==
  /\ {Direct, ListSize, SectorBytes, EntryBytes} \subseteq Nat \ {0}
  /\ EntryBytes <= SectorBytes
  /\ DiskSectors \in Nat \ {0, 1}
  /\ Lengths \subseteq 0 .. MaxEnd

VARIABLES
  freeMap,      \* sectors whose bit is set
  inode,        \* the disk inode of each file, or NoInode
  lists,        \* the block numbers in each index sector
  left_out,     \* why a growth left blocks out: "disk full", "division", or "none"
  crashed       \* the kernel has panicked

inodeVars == <<freeMap, inode, lists, left_out, crashed>>

SectorIds   == 0 .. DiskSectors - 1
Reserved    == {0, 1}               \* FREE_MAP_SECTOR and ROOT_DIR_SECTOR
NoInode     == [sector |-> 0]
Live        == {f \in Files : inode[f] # NoInode}
Smaller(a, b) == IF a < b THEN a ELSE b
One(condition) == IF condition THEN 1 ELSE 0
EmptyList   == [i \in 0 .. ListSize - 1 |-> 0]

InodeInit ==
  /\ freeMap = Reserved
  /\ inode = [f \in Files |-> NoInode]
  /\ lists = [s \in SectorIds |-> EmptyList]
  /\ left_out = "none"
  /\ crashed = FALSE

(***************************************************************************)
(* Growing                                                                 *)
(***************************************************************************)

\* How many more numbers fit in the list that block before of the double
\* list falls in.
RoomInList(before) == ListSize - (before % ListSize)

\* The division of new blocks: to the direct numbers, to the single list, to
\* the list of the double list that has room, and to one further list.  In
\* the loop over further lists newblocks is assigned where loads was meant: if
\* more than one list is still to come, the rounds add up to one list's worth,
\* and the rest is left out.  (LeftOut ends the model there, so that only the
\* first round appears.)
Division(blocks, new) ==
  LET direct == IF blocks < Direct THEN Smaller(new, Direct - blocks) ELSE 0
      index  == blocks + direct - Direct
      single == IF new > direct /\ index < ListSize
                THEN IF index + new - direct > ListSize THEN ListSize
                     ELSE new - direct
                ELSE 0
      left   == new - direct - single
      before == index + single - ListSize
      double == IF left > 0 THEN Smaller(left, RoomInList(before)) ELSE 0
      more   == left - double
  IN  [direct |-> direct, single |-> single, double |-> double,
       further |-> IF more <= ListSize THEN more ELSE double,
       index |-> index, before |-> before,
       newSingle |-> One(single > 0 /\ index = 0),
       newDouble |-> One(left > 0 /\ before = 0),
       newList |-> One(left > 0 /\ before % ListSize = 0),
       newFurther |-> One(more > 0)]

\* Mutant: the sectors that hold lists are not taken.
NeedsBlocks(d) == d.direct + d.single + d.double + d.further

\* The sectors that a growth takes, those of lists included.
Needs(d) == d.direct + d.newSingle + d.single + d.newDouble + d.newList
            + d.double + d.newFurther + d.further

\* array[at], array[at + 1], ... become the count sectors after the first
\* skip of those taken: inode_allocblocks (count, &array[at]).
Allocate(array, at, count, taken, skip) ==
  [i \in DOMAIN array |->
     IF i \in at .. at + count - 1 THEN taken[skip + i - at + 1] ELSE array[i]]

\* The sectors free_map_allocate() gives out, lowest first: the k-th is the
\* one up to which k are free.
Available(map) ==
  LET free == SectorIds \ map
  IN  [k \in 1 .. Cardinality(free) |->
         CHOOSE s \in free : Cardinality({u \in free : u <= s}) = k]

\* Mutant: a list is not read before it is extended.
NumbersInUnread(index, sector, isNew) == EmptyList

\* The numbers in an index sector, or none yet if it has just been taken.
\* (What a new list holds past the last block is never looked up.)
NumbersIn(index, sector, isNew) == IF isNew = 1 THEN EmptyList ELSE index[sector]

\* file_grow() of the inode node by new blocks of division d, when the
\* sectors it needs are there.
Grown(node, d, map, index) ==
  LET t    == Available(map)
      sAt  == d.direct + d.newSingle
      dAt  == sAt + d.single + d.newDouble + d.newList
      fAt  == dAt + d.double + d.newFurther
      i    == d.before \div ListSize
      direct == Allocate(node.number, node.blocks, d.direct, t, 0)
      single == Allocate(direct, Direct, d.newSingle, t, d.direct)
      number == Allocate(single, Direct + 1, d.newDouble, t, sAt + d.single)
      top  == Allocate(NumbersIn(index, number[Direct + 1], d.newDouble),
                       i, d.newList, t, dAt - 1)
      both == Allocate(top, i + 1, d.newFurther, t, fAt - 1)
      Written(s) ==
        IF d.single > 0 /\ s = number[Direct]
        THEN Allocate(NumbersIn(index, s, d.newSingle), d.index, d.single, t, sAt)
        ELSE IF d.double > 0 /\ s = number[Direct + 1] THEN both
        ELSE IF d.double > 0 /\ s = both[i]
        THEN Allocate(NumbersIn(index, s, d.newList), d.before % ListSize, d.double, t, dAt)
        ELSE IF d.further > 0 /\ s = both[i + 1] THEN Allocate(EmptyList, 0, d.further, t, fAt)
        ELSE index[s]
  IN  [number |-> number, lists |-> [s \in SectorIds |-> Written(s)],
       map |-> map \union {t[k] : k \in 1 .. Needs(d)}]

\* Why not all new blocks find a sector.
LeftOut(d, new, map) ==
  IF d.direct + d.single + d.double + d.further # new THEN "division"
  ELSE IF Needs(d) > Cardinality(SectorIds \ map) THEN "disk full"
  ELSE "none"

\* inode_write_at() of data that ends at end, past the end of the file: the
\* file grows if a block is missing, and has its new length and number of
\* blocks afterwards, whatever file_grow() returned.
WriteTo(f, node, end, map, index) ==
  LET new   == end \div SectorBytes + 1 - node.blocks
      grows == new > 0
      d     == Division(node.blocks, new)
      g     == Grown(node, d, map, index)
      kept  == [node EXCEPT !.length = end, !.blocks = end \div SectorBytes + 1]
  IN  /\ left_out' = IF grows THEN LeftOut(d, new, map) ELSE "none"
      /\ IF left_out' # "none"
         THEN UNCHANGED <<freeMap, inode, lists>>
         ELSE /\ freeMap' = IF grows THEN g.map ELSE map
              /\ lists' = IF grows THEN g.lists ELSE index
              /\ inode' = [inode EXCEPT ![f] =
                    IF grows THEN [kept EXCEPT !.number = g.number] ELSE kept]

(***************************************************************************)
(* Operations                                                              *)
(***************************************************************************)

\* filesys_create() of a file of a given length: a sector for the inode,
\* one for the first block, and a write of the last byte.  Without a first
\* block the sector is given back, but not before the write.
InodeCreate(f, length) ==
  LET t    == Available(freeMap)
      node == [sector |-> t[1], blocks |-> 1, length |-> 0,
               number |-> [i \in 0 .. Direct + 1 |-> IF i = 0 THEN t[2] ELSE 0]]
      map  == freeMap \union {t[1], t[2]}
  IN  /\ f \notin Live
      /\ Len(t) > 0
      /\ \/ /\ Len(t) > 1 /\ length > 0
            /\ WriteTo(f, node, length, map, lists)
         \/ /\ Len(t) > 1 /\ length = 0
            /\ inode' = [inode EXCEPT ![f] = node]
            /\ freeMap' = map
            /\ UNCHANGED <<lists, left_out>>
         \/ /\ Len(t) = 1 /\ length > 0
            /\ left_out' = "disk full"
            /\ UNCHANGED <<freeMap, inode, lists>>
      /\ UNCHANGED crashed

\* dir_add() writes an entry at the end of the directory.  (That directories
\* stay within the longest file is a bound of the model.)
InodeAppend(f) ==
  /\ f \in Live /\ inode[f].length + EntryBytes <= MaxEnd
  /\ WriteTo(f, inode[f], inode[f].length + EntryBytes, freeMap, lists)
  /\ UNCHANGED crashed

\* Mutant: the inode's own sector is forgotten.
ReleasedBlocks(f) == {inode[f].number[i] : i \in 0 .. inode[f].blocks - 1}

\* What inode_close() releases of a file that has direct blocks only.
Released(f) ==
  {inode[f].sector} \union {inode[f].number[i] : i \in 0 .. inode[f].blocks - 1}

\* The last inode_close() of a removed file.  The loop over the direct
\* blocks runs to the number of all blocks, and the lists are read into
\* null pointers: a file that has a list brings the kernel down.
InodeRelease(f) ==
  /\ f \in Live
  /\ IF inode[f].blocks <= Direct
     THEN /\ freeMap' = freeMap \ Released(f)
          /\ inode' = [inode EXCEPT ![f] = NoInode]
          /\ UNCHANGED crashed
     ELSE crashed' = TRUE /\ UNCHANGED <<freeMap, inode>>
  /\ UNCHANGED <<lists, left_out>>

InodeNext ==
  /\ left_out = "none" /\ ~crashed
  /\ \E f \in Files :
       \/ \E length \in Lengths : InodeCreate(f, length)
       \/ InodeAppend(f)
       \/ InodeRelease(f)

InodeSpec == InodeInit /\ [][InodeNext]_inodeVars

(***************************************************************************)
(* Finding                                                                 *)
(***************************************************************************)

\* find_directblock() and find_indirectblock() for block number off.
FindBlock(f, off) ==
  LET number == inode[f].number
      list   == (off - Direct - ListSize) \div ListSize
  IN  IF off < Direct THEN number[off]
      ELSE IF off < Direct + ListSize THEN lists[number[Direct]][off - Direct]
      ELSE lists[lists[number[Direct + 1]][list]][off - Direct - ListSize - list * ListSize]

BlocksOf(f) == 0 .. inode[f].blocks - 1
Blocks == UNION {{f} \X BlocksOf(f) : f \in Live}

\* The index sectors of a file.
ListsUsed(f) == (inode[f].blocks - Direct - ListSize + ListSize - 1) \div ListSize
IndexSectors(f) ==
  LET number == inode[f].number
  IN  {number[Direct] : i \in {1} \cap {One(inode[f].blocks > Direct)}}
      \union IF inode[f].blocks <= Direct + ListSize THEN {}
             ELSE {number[Direct + 1]} \union
                  {lists[number[Direct + 1]][i] : i \in 0 .. ListsUsed(f) - 1}

Metadata(f) == {inode[f].sector} \union IndexSectors(f)

(***************************************************************************)
(* Properties                                                              *)
(***************************************************************************)

\* After any complete growths, the block numbers that lookups compute are
\* those that growth assigned: each block of each file has a sector that is
\* no other block's, no inode's, no list's, and is marked used.
BlocksFound ==
  /\ \A p, q \in Blocks : p # q => FindBlock(p[1], p[2]) # FindBlock(q[1], q[2])
  /\ \A p \in Blocks, f \in Live :
       /\ FindBlock(p[1], p[2]) \in freeMap \ Reserved
       /\ FindBlock(p[1], p[2]) \notin Metadata(f)

\* The free map marks the reserved sectors and those that inodes reach, and
\* no others: growth takes no sector it does not use, and releasing a file
\* gives all of them back.
SectorsAccounted ==
  freeMap = Reserved \union {FindBlock(p[1], p[2]) : p \in Blocks}
                     \union UNION {Metadata(f) : f \in Live}

\* A block of a file stays in its sector while the file lives, also when
\* the lists it is reached through are extended.
BlocksStay ==
  [][\A f \in Live : inode'[f] # NoInode =>
       \A off \in BlocksOf(f) : FindBlock(f, off)' = FindBlock(f, off)]_inodeVars

\* DESIGN_DOCUMENT_4: a file can have the direct blocks, those of one list
\* and those of a list of lists.  So a growth within that leaves blocks out
\* only when the disk is full.
MaximumReached == left_out # "division"
=============================================================================
