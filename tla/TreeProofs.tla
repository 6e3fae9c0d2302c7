---------------------------- MODULE TreeProofs ----------------------------
(***************************************************************************)
(* Sectors, the free map file and the directory tree of module FileSystem, *)
(* for any number of processes, names, sectors and struct inodes.          *)
(*                                                                         *)
(* PathInv is inductive, given FsInv, while the kernel has not stopped     *)
(* (memory or disk is corrupt then).  Beside the three properties it says  *)
(* what each call of mkdir, open and chdir knows at each step of the       *)
(* sectors it holds (Phase) and of what it has written (Written), and that *)
(* whatever is open is on a path (OpenInTree).  Its part on the free map   *)
(* file (FileInv) says of each bit that is wrong which call will still     *)
(* write it, or that a stale byte has made it wrong, and of the bit that a *)
(* call has set that its own copy cannot erase it.                         *)
(*                                                                         *)
(* The inodes that paths lead to are a least set, and a step changes it in *)
(* one of three ways: not at all (ReachSame), by a new leaf (ReachAdd),    *)
(* or by a leaf that loses its one name (ReachRemove).  The parts of the   *)
(* invariant are then argued once per way.                                 *)
(***************************************************************************)
EXTENDS FileSystemProofs

-----------------------------------------------------------------------------
(***************************************************************************)
(* Paths.  The parts of the invariant are operators on the disk (inodes N, *)
(* directory entries E), the set T of inodes that paths lead to, struct    *)
(* inodes I and frames fr, so that they can be stated of both ends of a    *)
(* step.                                                                   *)
(***************************************************************************)
Ent(N, E, d, n) == E[N[d].block][n]

Sectors(N, t) == {t, N[t].block}

Allocating == {"scan", "flip", "save", "makeinode", "add", "release"}

(* Taken(), of a frame. *)
Takes(f) ==
  IF f.pc \in Allocating
  THEN ({f.sector, f.block} \cup IF f.pc = "save" THEN {f.pick} ELSE {}) \ {0} ELSE {}

Others(lo) == lo \cup {0, 2}

(* Each sector whose bit is set has one owner, the other sectors have none. *)
OneOwner(N, T, fr, lo, fm) ==
  /\ \A t, u \in T, s \in FsSector : s \in Sectors(N, t) /\ s \in Sectors(N, u) => t = u
  /\ \A t \in T, q \in Process, s \in FsSector : ~ (s \in Sectors(N, t) /\ s \in Takes(fr[q]))
  /\ \A q, r \in Process, s \in FsSector : s \in Takes(fr[q]) /\ s \in Takes(fr[r]) => q = r
  /\ \A t \in T, s \in FsSector : ~ (s \in Sectors(N, t) /\ s \in Others(lo))
  /\ \A q \in Process, s \in FsSector : ~ (s \in Takes(fr[q]) /\ s \in Others(lo))
  /\ \A s \in FsSector : s \in fm <=> \/ \E t \in T : s \in Sectors(N, t)
                                      \/ \E q \in Process : s \in Takes(fr[q])
                                      \/ s \in Others(lo)

(* A call of mkdir whose directory has a name, until it has added "." and ".." *)
Linked == {"lookup", "insert", "link", "setsector", "setcount", "closelookup", "adddot",
           "addparent", "closemade", "closeagain"}

NoDots == {"lookup", "insert", "link", "setsector", "setcount", "closelookup", "opened", "adddot"}

MadeDir(f) == f.call = "mkdir" /\ Where(f) \in Linked \cup {"opened"}

(* The sectors of a call, by where it is. *)
Phase(f) ==
  /\ Where(f) \notin Allocating /\ ~MadeDir(f) => f.sector = 0 /\ f.block = 0
  /\ Where(f) \in Allocating => f.call = "mkdir" /\ f.name \in Name
  /\ f.pc = "unlist" => f.next \notin Allocating
  /\ Where(f) \in {"scan", "flip", "save"} => f.block = 0
  /\ Where(f) = "save" => f.pick # 0 /\ f.pick # f.sector
  /\ Where(f) \in {"makeinode", "add", "release"} => f.sector # 0 /\ f.sector # f.block
  /\ Where(f) = "add" => f.block # 0
  /\ MadeDir(f) => f.sector # 0
  /\ MadeDir(f) /\ Where(f) = "lookup" => f.name \in Name
  /\ MadeDir(f) /\ Where(f) \in {"insert", "link", "setsector", "setcount"} => f.pick = f.sector

(* The directory in which a call makes another. *)
Parent(I, f) == I[f.dirs[1]].sector

(* What the disk has of the directory a call makes, and what a call knows  *)
(* of the inodes it has open.                                              *)
Written(N, E, T, I, f) ==
  /\ Where(f) = "add" => /\ N[f.sector] = [type |-> "dir", block |-> f.block]
                         /\ E[f.block] = NoEntries
  /\ Where(f) \in {"insert", "link", "setsector", "setcount"} => f.pick \in T
  /\ Where(f) = "setpwd" => N[I[f.inode].sector].type = "dir"
  /\ \A i \in DOMAIN f.dirs : N[I[f.dirs[i]].sector].type = "dir"
  /\ MadeDir(f) =>
       /\ f.sector \in T /\ N[f.sector].type = "dir"
       /\ Where(f) \in Linked => \E n \in Name : Ent(N, E, Parent(I, f), n) = f.sector
       /\ Where(f) = "lookup" => Ent(N, E, Parent(I, f), f.name) = f.sector
       /\ f.inode \in Slot => I[f.inode].sector = f.sector
       /\ Ent(N, E, f.sector, ".") = IF Where(f) \in NoDots THEN 0 ELSE f.sector
       /\ Ent(N, E, f.sector, "..") = IF Where(f) \in NoDots \cup {"addparent"}
                                      THEN 0 ELSE Parent(I, f)

Apart(fr) ==
  \A p, q \in Process : fr[p].sector # 0 /\ fr[p].sector = fr[q].sector => p = q

OpenInTree(N, T, I, op, pw, ru) ==
  /\ \A s \in op : I[s].sector \in T \cup {0}
  /\ I[1].sector = RootSector
  /\ \A p \in Process : pw[p] \in Slot => N[I[pw[p]].sector].type = "dir"
  /\ ~ru => op = {1}

(* "." and ".." of directory c, which d names. *)
DotsRight(N, E, c, d) == Ent(N, E, c, ".") = c /\ Ent(N, E, c, "..") = d

Rooted(N, E, T, fr) ==
  /\ N[RootSector].type = "dir" /\ DotsRight(N, E, RootSector, RootSector)
  /\ \A t \in T : N[t].type # "none"
  /\ \A d, e \in T, n, m \in Name :
       /\ N[d].type = "dir" /\ N[e].type = "dir"
       /\ Ent(N, E, d, n) # 0 /\ Ent(N, E, d, n) = Ent(N, E, e, m)
       => d = e /\ n = m
  /\ \A d \in T, n \in Name, c \in T : N[d].type = "dir" /\ Ent(N, E, d, n) = c =>
       /\ c # RootSector
       /\ N[c].type = "dir" => \/ DotsRight(N, E, c, d)
                               \/ \E p \in Process : MadeDir(fr[p]) /\ fr[p].sector = c

TreeInv ==
  /\ OneOwner(node, Tree, frame, lost, free_map)
  /\ Apart(frame)
  /\ OpenInTree(node, Tree, inode, open_inodes, pwd, running)
  /\ Rooted(node, entries, Tree, frame)
  /\ \A p \in Process : Phase(frame[p]) /\ Written(node, entries, Tree, inode, frame[p])

(* A call that is not copying the map has no byte of it, ... *)
Copying == {"save", "saverelease"}

Idle(f) ==
  /\ f.pc \notin Copying => f.at = 0 /\ f.loaded = Nil
  /\ f.pc = "unlist" => f.next \notin Copying

(* ... and the byte that one has loaded has the bit that the call has set. *)
Copied(f) ==
  f.loaded # Nil => /\ f.loaded \subseteq Byte(f.at) /\ {0, 2} \cap Byte(f.at) \subseteq f.loaded
                    /\ f.pc = "save" /\ f.pick \in Byte(f.at) => f.pick \in f.loaded

(* A call that has yet to copy the byte with the bit it has set. *)
ToCopy(f, s) == f.pc = "save" /\ f.pick = s /\ f.at <= s

(* A sector that is taken is marked in the file, unless a stale byte has    *)
(* erased it or the call that took it has yet to copy its byte.            *)
Marked ==
  /\ {0, 2} \subseteq diskMap
  /\ \A s \in free_map : s \in diskMap \cup stale \/ \E p \in Process : ToCopy(frame[p], s)

Pending == \A s \in Wrong(diskMap) \ stale : \E p \in Process : WillSave(p, s)

FileInv == (\A p \in Process : Idle(frame[p]) /\ Copied(frame[p])) /\ Marked /\ Pending

PathInv == ~stopped => TreeInv /\ FileInv

(* The inodes that paths lead to, as a function of the disk. *)
Nodes == [FsSector -> [type : {"none", "file", "dir"}, block : FsSector]]
Blocks == [FsSector -> [EntryName -> FsSector]]

Kids(N, E, d) == {E[N[d].block][n] : n \in Name} \ {0}

Ends(N, E, S) == RootSector \in S /\ \A d \in S : N[d].type = "dir" => Kids(N, E, d) \subseteq S

All(N, E) == {RootSector} \cup UNION {Kids(N, E, d) : d \in {d \in FsSector : N[d].type = "dir"}}

Reach(N, E) == {s \in All(N, E) : \A S \in SUBSET All(N, E) : Ends(N, E, S) => s \in S}

(* Tree is this function of the disk. *)
LEMMA TreeIs == Tree = Reach(node, entries) /\ Tree' = Reach(node', entries')
<1>1. Tree = Reach(node, entries)
  BY DEF Tree, Reach, All, Ends, Led, Kids, Children, Entry, IsDir
<1>2. Tree' = Reach(node', entries')
  BY DEF Tree, Reach, All, Ends, Led, Kids, Children, Entry, IsDir
<1> QED
  BY <1>1, <1>2

LEMMA KidsTypes ==
  ASSUME NEW N \in Nodes, NEW E \in Blocks, NEW d \in FsSector
  PROVE  Kids(N, E, d) \subseteq FsSector
<1>1. N[d].block \in FsSector /\ Name \subseteq EntryName
  BY DEF Nodes, EntryName
<1> QED
  BY <1>1 DEF Kids, Blocks

(* Reach has the root and, with a directory, what the directory names; any *)
(* such set contains it.                                                   *)
LEMMA ReachSound ==
  ASSUME NEW N \in Nodes, NEW E \in Blocks
  PROVE  Reach(N, E) \subseteq FsSector /\ Ends(N, E, Reach(N, E))
<1>1. All(N, E) \subseteq FsSector
  BY KidsTypes, ZeroSector DEF All
<1>2. Reach(N, E) \subseteq FsSector /\ RootSector \in Reach(N, E)
  BY <1>1 DEF Reach, All, Ends
<1>3. ASSUME NEW d \in Reach(N, E), N[d].type = "dir", NEW k \in Kids(N, E, d)
      PROVE  k \in Reach(N, E)
  <2>1. k \in All(N, E)
    BY <1>2, <1>3 DEF All
  <2>2. ASSUME NEW S \in SUBSET All(N, E), Ends(N, E, S) PROVE k \in S
    <3>1. d \in S
      BY <1>3, <2>2 DEF Reach
    <3> QED
      BY <1>3, <2>2, <3>1 DEF Ends
  <2> QED
    BY <2>1, <2>2 DEF Reach
<1> QED
  BY <1>2, <1>3 DEF Ends

LEMMA ReachLeast ==
  ASSUME NEW N \in Nodes, NEW E \in Blocks, NEW S, Ends(N, E, S)
  PROVE  Reach(N, E) \subseteq S
<1> DEFINE T == S \cap All(N, E)
<1>1. All(N, E) \subseteq FsSector
  BY KidsTypes, ZeroSector DEF All
<1>2. ASSUME NEW d \in T, N[d].type = "dir", NEW k \in Kids(N, E, d) PROVE k \in T
  BY <1>1, <1>2 DEF Ends, All
<1>3. Ends(N, E, T)
  BY <1>2 DEF Ends, All
<1> QED
  BY <1>3 DEF Reach

(* It is the same while the inodes in it are the same, ... *)
LEMMA ReachSame ==
  ASSUME NEW N \in Nodes, NEW E \in Blocks, NEW M \in Nodes, NEW F \in Blocks,
         \A d \in Reach(N, E) : M[d].type = N[d].type
                                /\ (N[d].type = "dir" => Kids(M, F, d) = Kids(N, E, d))
  PROVE  Reach(M, F) = Reach(N, E)
<1>1. Ends(N, E, Reach(N, E)) /\ Ends(M, F, Reach(M, F))
  BY ReachSound
<1>2. Ends(M, F, Reach(N, E))
  BY <1>1 DEF Ends
<1>3. Reach(M, F) \subseteq Reach(N, E)
  BY <1>2, ReachLeast
<1>4. Ends(N, E, Reach(M, F))
  BY <1>1, <1>3 DEF Ends
<1> QED
  BY <1>3, <1>4, ReachLeast

(* ... a new name adds the inode it names, which has no names in it yet, ... *)
LEMMA ReachAdd ==
  ASSUME NEW N \in Nodes, NEW E \in Blocks, NEW M \in Nodes, NEW F \in Blocks,
         NEW b \in Reach(N, E), N[b].type = "dir", NEW c \in FsSector,
         \A d \in Reach(N, E) :
           M[d].type = N[d].type
           /\ (N[d].type = "dir" =>
                 Kids(M, F, d) = IF d = b THEN Kids(N, E, d) \cup {c} ELSE Kids(N, E, d)),
         M[c].type = "dir" => Kids(M, F, c) = {}
  PROVE  Reach(M, F) = Reach(N, E) \cup {c}
<1> DEFINE R == Reach(N, E)
           Q == Reach(M, F)
<1>1. Ends(N, E, R) /\ Ends(M, F, Q)
  BY ReachSound
<1>2. ASSUME NEW d \in R \cup {c}, M[d].type = "dir" PROVE Kids(M, F, d) \subseteq R \cup {c}
  <2>1. CASE d = c
    BY <1>2, <2>1
  <2>2. CASE d \in R
    BY <1>1, <1>2, <2>2 DEF Ends
  <2> QED
    BY <2>1, <2>2
<1>3. Ends(M, F, R \cup {c})
  BY <1>1, <1>2 DEF Ends
<1>4. Q \subseteq R \cup {c}
  BY <1>3, ReachLeast
<1>5. ASSUME NEW d \in Q \cap R, N[d].type = "dir" PROVE Kids(N, E, d) \subseteq Q \cap R
  BY <1>1, <1>5 DEF Ends
<1>6. Ends(N, E, Q \cap R)
  BY <1>1, <1>5 DEF Ends
<1>7. R \subseteq Q
  BY <1>6, ReachLeast
<1>8. c \in Q
  BY <1>1, <1>7 DEF Ends
<1> QED
  BY <1>4, <1>7, <1>8

(* ... and when a name is removed, its inode, if there are none in it.      *)
LEMMA ReachRemove ==
  ASSUME NEW N \in Nodes, NEW E \in Blocks, NEW M \in Nodes, NEW F \in Blocks,
         NEW c \in FsSector, c # RootSector, N[c].type = "dir" => Kids(N, E, c) = {},
         \A d \in Reach(N, E) \ {c} :
           /\ M[d].type = N[d].type
           /\ N[d].type = "dir" => Kids(M, F, d) = Kids(N, E, d) \ {c}
  PROVE  Reach(M, F) = Reach(N, E) \ {c}
<1> DEFINE R == Reach(N, E)
           Q == Reach(M, F)
<1>1. Ends(N, E, R) /\ Ends(M, F, Q)
  BY ReachSound
<1>2. Ends(M, F, R \ {c})
  BY <1>1 DEF Ends
<1>3. Q \subseteq R \ {c}
  BY <1>2, ReachLeast
<1>4. ASSUME NEW d \in Q \cup {c}, N[d].type = "dir" PROVE Kids(N, E, d) \subseteq Q \cup {c}
  <2>1. CASE d = c
    BY <1>4, <2>1
  <2>2. CASE d # c
    <3>1. d \in R \ {c} /\ d \in Q
      BY <1>3, <1>4, <2>2
    <3>2. M[d].type = "dir" /\ Kids(M, F, d) = Kids(N, E, d) \ {c}
      BY <1>4, <3>1
    <3> QED
      BY <1>1, <3>1, <3>2 DEF Ends
  <2> QED
    BY <2>1, <2>2
<1>5. Ends(N, E, Q \cup {c})
  BY <1>1, <1>4 DEF Ends
<1> QED
  BY <1>3, <1>5, ReachLeast

(* Each inode in it is the root, or has a name in one of its directories. *)
LEMMA ReachNamed ==
  ASSUME NEW N \in Nodes, NEW E \in Blocks, NEW t \in Reach(N, E), t # RootSector
  PROVE  \E d \in Reach(N, E) : N[d].type = "dir" /\ t \in Kids(N, E, d)
<1> DEFINE R == Reach(N, E)
           S == {s \in R : s = RootSector \/ \E d \in R : N[d].type = "dir" /\ s \in Kids(N, E, d)}
<1>1. Ends(N, E, R)
  BY ReachSound
<1>2. Ends(N, E, S)
  BY <1>1 DEF Ends
<1>3. R \subseteq S
  BY <1>2, ReachLeast
<1> QED
  BY <1>3

-----------------------------------------------------------------------------
(* Owners of sectors.                                                      *)

(* A step after which every inode of the tree and every call has the       *)
(* sectors it had.                                                         *)
LEMMA OwnersSame ==
  ASSUME NEW N, NEW M, NEW T, NEW fr, NEW gr, NEW lo, NEW fm, OneOwner(N, T, fr, lo, fm),
         \A t \in T : M[t] = N[t],
         \A q \in Process : Takes(gr[q]) = Takes(fr[q])
  PROVE  OneOwner(M, T, gr, lo, fm)
<1>1. \A t \in T : Sectors(M, t) = Sectors(N, t)
  BY DEF Sectors
<1> QED
  BY <1>1 DEF OneOwner

(* A call takes a sector, ... *)
LEMMA OwnersTake ==
  ASSUME NEW N, NEW T, NEW fr, NEW gr, NEW lo, NEW fm, OneOwner(N, T, fr, lo, fm),
         NEW p \in Process, NEW x, x \notin fm,
         Takes(gr[p]) = Takes(fr[p]) \cup {x},
         \A q \in Process \ {p} : Takes(gr[q]) = Takes(fr[q])
  PROVE  OneOwner(N, T, gr, lo, fm \cup {x})
<1>1. ASSUME NEW s \in FsSector, s \notin fm
      PROVE  /\ \A t \in T : s \notin Sectors(N, t)
             /\ \A q \in Process : s \notin Takes(fr[q])
             /\ s \notin Others(lo)
  BY <1>1 DEF OneOwner
<1>2. /\ \A t \in T, q \in Process, s \in FsSector : ~ (s \in Sectors(N, t) /\ s \in Takes(gr[q]))
      /\ \A q \in Process, s \in FsSector : ~ (s \in Takes(gr[q]) /\ s \in Others(lo))
  BY <1>1 DEF OneOwner
<1>3. ASSUME NEW q \in Process, NEW r \in Process, NEW s \in FsSector,
             s \in Takes(gr[q]), s \in Takes(gr[r])
      PROVE  q = r
  BY <1>1, <1>3 DEF OneOwner
<1>4. ASSUME NEW s \in FsSector
      PROVE  s \in fm \cup {x} <=> \/ \E t \in T : s \in Sectors(N, t)
                                   \/ \E q \in Process : s \in Takes(gr[q])
                                   \/ s \in Others(lo)
  <2>1. (\E q \in Process : s \in Takes(gr[q])) <=> s = x \/ \E q \in Process : s \in Takes(fr[q])
    OBVIOUS
  <2> QED
    BY <1>4, <2>1 DEF OneOwner
<1> QED
  BY <1>2, <1>3, <1>4 DEF OneOwner

(* ... gives one back, and forgets the other, ... *)
LEMMA OwnersRelease ==
  ASSUME NEW N, NEW M, NEW T, NEW fr, NEW gr, NEW lo, NEW mo, NEW fm, OneOwner(N, T, fr, lo, fm),
         \A t \in T : M[t] = N[t],
         NEW p \in Process, NEW x \in Takes(fr[p]), x \in FsSector, Takes(gr[p]) = {},
         Others(mo) = Others(lo) \cup (Takes(fr[p]) \ {x}),
         \A q \in Process \ {p} : Takes(gr[q]) = Takes(fr[q])
  PROVE  OneOwner(M, T, gr, mo, fm \ {x})
<1>1. \A t \in T : Sectors(M, t) = Sectors(N, t)
  BY DEF Sectors
<1>2. /\ \A t \in T, q \in Process, s \in FsSector : ~ (s \in Sectors(M, t) /\ s \in Takes(gr[q]))
      /\ \A t \in T, s \in FsSector : ~ (s \in Sectors(M, t) /\ s \in Others(mo))
      /\ \A q, r \in Process, s \in FsSector : s \in Takes(gr[q]) /\ s \in Takes(gr[r]) => q = r
      /\ \A t, u \in T, s \in FsSector : s \in Sectors(M, t) /\ s \in Sectors(M, u) => t = u
  BY <1>1 DEF OneOwner
<1>3. \A q \in Process, s \in FsSector : ~ (s \in Takes(gr[q]) /\ s \in Others(mo))
  BY DEF OneOwner
<1>4. ASSUME NEW s \in FsSector
      PROVE  s \in fm \ {x} <=> \/ \E t \in T : s \in Sectors(M, t)
                                \/ \E q \in Process : s \in Takes(gr[q])
                                \/ s \in Others(mo)
  <2>1. CASE s = x
    BY <1>1, <2>1 DEF OneOwner
  <2>2. CASE s # x
    <3>1. s \in fm <=> \/ \E t \in T : s \in Sectors(M, t)
                       \/ \E q \in Process : s \in Takes(fr[q])
                       \/ s \in Others(lo)
      BY <1>1 DEF OneOwner
    <3>2. (\E q \in Process : s \in Takes(fr[q])) <=>
             s \in Takes(fr[p]) \/ \E q \in Process : s \in Takes(gr[q])
      OBVIOUS
    <3> QED
      BY <2>2, <3>1, <3>2
  <2> QED
    BY <2>1, <2>2
<1> QED
  BY <1>2, <1>3, <1>4 DEF OneOwner

(* ... or gives the inode it made a name.                                  *)
LEMMA OwnersLink ==
  ASSUME NEW N, NEW M, NEW T, NEW fr, NEW gr, NEW lo, NEW fm, OneOwner(N, T, fr, lo, fm),
         \A t \in T : M[t] = N[t], NEW c, c \notin T,
         NEW p \in Process, Takes(fr[p]) = Sectors(M, c), Takes(gr[p]) = {},
         \A q \in Process \ {p} : Takes(gr[q]) = Takes(fr[q])
  PROVE  OneOwner(M, T \cup {c}, gr, lo, fm)
<1>1. \A t \in T : Sectors(M, t) = Sectors(N, t)
  BY DEF Sectors
<1>2. \A t, u \in T \cup {c}, s \in FsSector : s \in Sectors(M, t) /\ s \in Sectors(M, u) => t = u
  BY <1>1 DEF OneOwner
<1>3. /\ \A t \in T \cup {c}, q \in Process, s \in FsSector :
           ~ (s \in Sectors(M, t) /\ s \in Takes(gr[q]))
      /\ \A t \in T \cup {c}, s \in FsSector : ~ (s \in Sectors(M, t) /\ s \in Others(lo))
  BY <1>1 DEF OneOwner
<1>4. /\ \A q, r \in Process, s \in FsSector : s \in Takes(gr[q]) /\ s \in Takes(gr[r]) => q = r
      /\ \A q \in Process, s \in FsSector : ~ (s \in Takes(gr[q]) /\ s \in Others(lo))
  BY DEF OneOwner
<1>5. ASSUME NEW s \in FsSector
      PROVE  s \in fm <=> \/ \E t \in T \cup {c} : s \in Sectors(M, t)
                          \/ \E q \in Process : s \in Takes(gr[q])
                          \/ s \in Others(lo)
  <2>1. s \in fm <=> \/ \E t \in T : s \in Sectors(M, t)
                     \/ \E q \in Process : s \in Takes(fr[q])
                     \/ s \in Others(lo)
    BY <1>1 DEF OneOwner
  <2>2. (\E q \in Process : s \in Takes(fr[q])) <=>
           s \in Takes(fr[p]) \/ \E q \in Process : s \in Takes(gr[q])
    OBVIOUS
  <2> QED
    BY <2>1, <2>2
<1> QED
  BY <1>2, <1>3, <1>4, <1>5 DEF OneOwner

(* A file is made before there are calls, ... *)
LEMMA OwnersExtract ==
  ASSUME NEW N, NEW M, NEW T, NEW fr, NEW lo, NEW fm, OneOwner(N, T, fr, lo, fm),
         \A t \in T : M[t] = N[t], NEW c, c \notin T, Sectors(M, c) \cap fm = {}
  PROVE  OneOwner(M, T \cup {c}, fr, lo, fm \cup Sectors(M, c))
<1>1. \A t \in T : Sectors(M, t) = Sectors(N, t)
  BY DEF Sectors
<1>2. ASSUME NEW s \in FsSector, s \in Sectors(M, c)
      PROVE  /\ \A t \in T : s \notin Sectors(N, t)
             /\ \A q \in Process : s \notin Takes(fr[q])
             /\ s \notin Others(lo)
  BY <1>2 DEF OneOwner
<1>3. \A t, u \in T \cup {c}, s \in FsSector : s \in Sectors(M, t) /\ s \in Sectors(M, u) => t = u
  BY <1>1, <1>2 DEF OneOwner
<1>4. /\ \A t \in T \cup {c}, q \in Process, s \in FsSector :
           ~ (s \in Sectors(M, t) /\ s \in Takes(fr[q]))
      /\ \A t \in T \cup {c}, s \in FsSector : ~ (s \in Sectors(M, t) /\ s \in Others(lo))
  BY <1>1, <1>2 DEF OneOwner
<1>5. ASSUME NEW s \in FsSector
      PROVE  s \in fm \cup Sectors(M, c) <=> \/ \E t \in T \cup {c} : s \in Sectors(M, t)
                                             \/ \E q \in Process : s \in Takes(fr[q])
                                             \/ s \in Others(lo)
  BY <1>1 DEF OneOwner
<1> QED
  BY <1>3, <1>4, <1>5 DEF OneOwner

(* ... or removed, ... *)
LEMMA OwnersRemove ==
  ASSUME NEW N, NEW M, NEW T, NEW fr, NEW lo, NEW mo, NEW fm, OneOwner(N, T, fr, lo, fm),
         NEW c \in T, \A t \in T \ {c} : M[t] = N[t], NEW gm,
         \/ gm = fm \ Sectors(N, c) /\ Others(mo) = Others(lo)
         \/ gm = fm /\ Others(mo) = Others(lo) \cup Sectors(N, c)
  PROVE  OneOwner(M, T \ {c}, fr, mo, gm)
<1>1. \A t \in T \ {c} : Sectors(M, t) = Sectors(N, t)
  BY DEF Sectors
<1>2. /\ \A t, u \in T \ {c}, s \in FsSector : s \in Sectors(M, t) /\ s \in Sectors(M, u) => t = u
      /\ \A t \in T \ {c}, q \in Process, s \in FsSector : ~ (s \in Sectors(M, t) /\ s \in Takes(fr[q]))
      /\ \A q, r \in Process, s \in FsSector : s \in Takes(fr[q]) /\ s \in Takes(fr[r]) => q = r
  BY <1>1 DEF OneOwner
<1>3. /\ \A t \in T \ {c}, s \in FsSector : ~ (s \in Sectors(M, t) /\ s \in Others(mo))
      /\ \A q \in Process, s \in FsSector : ~ (s \in Takes(fr[q]) /\ s \in Others(mo))
  BY <1>1 DEF OneOwner
<1>4. ASSUME NEW s \in FsSector
      PROVE  s \in gm <=> \/ \E t \in T \ {c} : s \in Sectors(M, t)
                          \/ \E q \in Process : s \in Takes(fr[q])
                          \/ s \in Others(mo)
  <2>1. s \in fm <=> \/ \E t \in T \ {c} : s \in Sectors(M, t)
                     \/ s \in Sectors(N, c)
                     \/ \E q \in Process : s \in Takes(fr[q])
                     \/ s \in Others(lo)
    <3>1. (\E t \in T : s \in Sectors(N, t)) <=>
            s \in Sectors(N, c) \/ \E t \in T \ {c} : s \in Sectors(M, t)
      BY <1>1
    <3> QED
      BY <3>1 DEF OneOwner
  <2>2. s \in Sectors(N, c) => /\ \A t \in T \ {c} : s \notin Sectors(M, t)
                               /\ \A q \in Process : s \notin Takes(fr[q])
                               /\ s \notin Others(lo)
    BY <1>1 DEF OneOwner
  <2> QED
    BY <2>1, <2>2
<1> QED
  BY <1>2, <1>3, <1>4 DEF OneOwner

-----------------------------------------------------------------------------
(* What is kept by a step.                                                 *)

(* What a call has written is still there after a step that keeps its      *)
(* entries, its inode and those it has open.                               *)
LEMMA WrittenStays ==
  ASSUME NEW N, NEW M, NEW E, NEW F, NEW T, NEW U, NEW I, NEW J, NEW f,
         Written(N, E, T, I, f), T \subseteq U,
         \A t \in T : M[t] = N[t],
         \A d \in T, n \in Name :
           N[d].type = "dir" /\ Ent(N, E, d, n) # 0 => Ent(M, F, d, n) = Ent(N, E, d, n),
         MadeDir(f) => /\ f.sector # 0
                       /\ Ent(M, F, f.sector, ".") = Ent(N, E, f.sector, ".")
                       /\ Ent(M, F, f.sector, "..") = Ent(N, E, f.sector, ".."),
         MadeDir(f) /\ Where(f) \in Linked => 1 \in DOMAIN f.dirs,
         MadeDir(f) /\ Where(f) = "lookup" => f.name \in Name,
         Where(f) = "add" => M[f.sector] = N[f.sector] /\ F[f.block] = E[f.block],
         \A i \in DOMAIN f.dirs : I[f.dirs[i]].sector \in T
                                  /\ J[f.dirs[i]].sector = I[f.dirs[i]].sector,
         f.inode \in Slot => I[f.inode].sector \in T /\ J[f.inode].sector = I[f.inode].sector,
         Where(f) = "setpwd" => f.inode \in Slot
  PROVE  Written(M, F, U, J, f)
<1>1. /\ Where(f) = "add" => /\ M[f.sector] = [type |-> "dir", block |-> f.block]
                             /\ F[f.block] = NoEntries
      /\ Where(f) \in {"insert", "link", "setsector", "setcount"} => f.pick \in U
      /\ Where(f) = "setpwd" => M[J[f.inode].sector].type = "dir"
      /\ \A i \in DOMAIN f.dirs : M[J[f.dirs[i]].sector].type = "dir"
  BY DEF Written
<1>2. ASSUME MadeDir(f), Where(f) \in Linked
      PROVE  /\ Parent(J, f) = Parent(I, f) /\ Parent(I, f) \in T
             /\ N[Parent(I, f)].type = "dir"
             /\ \E n \in Name : Ent(M, F, Parent(J, f), n) = f.sector
             /\ Where(f) = "lookup" => Ent(M, F, Parent(J, f), f.name) = f.sector
  <2>1. /\ Parent(J, f) = Parent(I, f) /\ Parent(I, f) \in T
        /\ N[Parent(I, f)].type = "dir"
    BY <1>2 DEF Parent, Written
  <2>2. \A n \in Name : Ent(N, E, Parent(I, f), n) = f.sector
                          => Ent(M, F, Parent(J, f), n) = f.sector
    BY <1>2, <2>1
  <2>3. /\ \E n \in Name : Ent(N, E, Parent(I, f), n) = f.sector
        /\ Where(f) = "lookup" => Ent(N, E, Parent(I, f), f.name) = f.sector
    BY <1>2 DEF Written
  <2> QED
    BY <1>2, <2>1, <2>2, <2>3
<1>3. MadeDir(f) =>
        /\ f.sector \in U /\ M[f.sector].type = "dir"
        /\ f.inode \in Slot => J[f.inode].sector = f.sector
        /\ Ent(M, F, f.sector, ".") = IF Where(f) \in NoDots THEN 0 ELSE f.sector
  BY DEF Written
<1>4. MadeDir(f) => Ent(M, F, f.sector, "..") = IF Where(f) \in NoDots \cup {"addparent"}
                                                THEN 0 ELSE Parent(J, f)
  <2> SUFFICES ASSUME MadeDir(f)
               PROVE  Ent(M, F, f.sector, "..") = IF Where(f) \in NoDots \cup {"addparent"}
                                                  THEN 0 ELSE Parent(J, f)
    OBVIOUS
  <2>1. Ent(M, F, f.sector, "..") = IF Where(f) \in NoDots \cup {"addparent"}
                                    THEN 0 ELSE Parent(I, f)
    BY DEF Written
  <2>2. Where(f) \notin NoDots \cup {"addparent"} => Where(f) \in Linked
    BY DEF MadeDir, NoDots
  <2> QED
    BY <1>2, <2>1, <2>2
<1>5. MadeDir(f) =>
        /\ Where(f) \in Linked => \E n \in Name : Ent(M, F, Parent(J, f), n) = f.sector
        /\ Where(f) = "lookup" => Ent(M, F, Parent(J, f), f.name) = f.sector
  <2>1. "lookup" \in Linked
    BY DEF Linked
  <2> QED
    BY <1>2, <2>1
<1> QED
  BY ONLY <1>1, <1>3, <1>4, <1>5 DEF Written

(* Entries and inodes of the tree as they were, or a call's "." and ".."   *)
(* added: the tree is still one.                                           *)
LEMMA RootedStays ==
  ASSUME NEW N, NEW M, NEW E, NEW F, NEW T, NEW fr, NEW gr,
         Rooted(N, E, T, fr), RootSector \in T, 0 \notin T,
         \A t \in T : M[t] = N[t],
         \A d \in T, n \in Name : N[d].type = "dir" => Ent(M, F, d, n) = Ent(N, E, d, n),
         DotsRight(M, F, RootSector, RootSector),
         \A c \in T : N[c].type = "dir" /\ c # RootSector =>
           \/ /\ Ent(M, F, c, ".") = Ent(N, E, c, ".") /\ Ent(M, F, c, "..") = Ent(N, E, c, "..")
              /\ \A q \in Process : MadeDir(fr[q]) /\ fr[q].sector = c
                                      => MadeDir(gr[q]) /\ gr[q].sector = c
           \/ \E q \in Process : MadeDir(gr[q]) /\ gr[q].sector = c
           \/ \E d \in T, n \in Name : N[d].type = "dir" /\ Ent(N, E, d, n) = c
                                       /\ DotsRight(M, F, c, d)
  PROVE  Rooted(M, F, T, gr)
<1>1. \A t \in T : M[t].type # "none"
  BY DEF Rooted
<1>2. \A d, e \in T, n, m \in Name :
       /\ M[d].type = "dir" /\ M[e].type = "dir"
       /\ Ent(M, F, d, n) # 0 /\ Ent(M, F, d, n) = Ent(M, F, e, m)
       => d = e /\ n = m
  BY DEF Rooted
<1>3. M[RootSector].type = "dir"
  BY DEF Rooted
<1>4. ASSUME NEW d \in T, NEW n \in Name, NEW c \in T, M[d].type = "dir", Ent(M, F, d, n) = c
      PROVE  /\ c # RootSector
             /\ M[c].type = "dir" => \/ DotsRight(M, F, c, d)
                                     \/ \E p \in Process : MadeDir(gr[p]) /\ gr[p].sector = c
  <2>1. N[d].type = "dir" /\ Ent(N, E, d, n) = c /\ M[c] = N[c] /\ c # 0
    BY <1>4
  <2>2. /\ c # RootSector
        /\ N[c].type = "dir" => \/ DotsRight(N, E, c, d)
                                \/ \E p \in Process : MadeDir(fr[p]) /\ fr[p].sector = c
    BY <2>1 DEF Rooted
  <2>3. ASSUME NEW e \in T, NEW m \in Name, N[e].type = "dir", Ent(N, E, e, m) = c PROVE e = d
    BY <2>1, <2>3 DEF Rooted
  <2>4. CASE M[c].type = "dir"
    <3>1. CASE /\ Ent(M, F, c, ".") = Ent(N, E, c, ".") /\ Ent(M, F, c, "..") = Ent(N, E, c, "..")
               /\ \A q \in Process : MadeDir(fr[q]) /\ fr[q].sector = c
                                       => MadeDir(gr[q]) /\ gr[q].sector = c
      BY <2>1, <2>2, <2>4, <3>1 DEF DotsRight
    <3>2. CASE \E e \in T, m \in Name : N[e].type = "dir" /\ Ent(N, E, e, m) = c
                                        /\ DotsRight(M, F, c, e)
      BY <2>2, <2>3, <3>2
    <3> QED
      BY <2>1, <2>2, <2>4, <3>1, <3>2
  <2> QED
    BY <2>2, <2>4
<1> HIDE DEF RootSector
<1> QED
  BY <1>1, <1>2, <1>3, <1>4 DEF Rooted

(* Inode c gets a name. *)
LinkMade(N, M, E, F, T, fr, gr, c, b, nm) ==
  /\ Rooted(N, E, T, fr) /\ RootSector \in T /\ 0 \notin T /\ c \notin T /\ c # 0
  /\ \A d \in T, n \in Name : N[d].type = "dir" => Ent(N, E, d, n) \in T \cup {0}
  /\ b \in T /\ N[b].type = "dir" /\ nm \in Name /\ Ent(N, E, b, nm) = 0
  /\ (\A t \in T : M[t] = N[t]) /\ M[c].type # "none"
  /\ \A d \in T, n \in EntryName :
       N[d].type = "dir" =>
         Ent(M, F, d, n) = IF d = b /\ n = nm THEN c ELSE Ent(N, E, d, n)
  /\ M[c].type = "dir" => /\ \A n \in Name : Ent(M, F, c, n) = 0
                          /\ \E q \in Process : MadeDir(gr[q]) /\ gr[q].sector = c
  /\ \A q \in Process : MadeDir(fr[q]) => MadeDir(gr[q]) /\ gr[q].sector = fr[q].sector

(* An inode that gets its first name is a leaf of the tree. *)
LEMMA RootedLink ==
  ASSUME NEW N, NEW M, NEW E, NEW F, NEW T, NEW fr, NEW gr, NEW c, NEW b, NEW nm,
         LinkMade(N, M, E, F, T, fr, gr, c, b, nm)
  PROVE  Rooted(M, F, T \cup {c}, gr)
<1> USE DEF LinkMade
<1>0. Name \subseteq EntryName /\ "." \in EntryName \ Name /\ ".." \in EntryName \ Name
  BY FileSystemAssumption DEF EntryName
<1>1. /\ M[RootSector].type = "dir" /\ DotsRight(M, F, RootSector, RootSector)
      /\ \A t \in T \cup {c} : M[t].type # "none"
  BY <1>0 DEF Rooted, DotsRight
<1>2. ASSUME NEW d \in T \cup {c}, NEW n \in Name, M[d].type = "dir"
      PROVE  \/ Ent(M, F, d, n) = 0
             \/ d = b /\ n = nm /\ Ent(M, F, d, n) = c
             \/ /\ d \in T /\ N[d].type = "dir" /\ Ent(M, F, d, n) = Ent(N, E, d, n)
                /\ Ent(N, E, d, n) \in T
  BY <1>0, <1>2
<1>3. ASSUME NEW d \in T \cup {c}, NEW e \in T \cup {c}, NEW n \in Name, NEW m \in Name,
             M[d].type = "dir", M[e].type = "dir",
             Ent(M, F, d, n) # 0, Ent(M, F, d, n) = Ent(M, F, e, m)
      PROVE  d = e /\ n = m
  BY <1>2, <1>3 DEF Rooted
<1>4. ASSUME NEW d \in T \cup {c}, NEW n \in Name, NEW x \in T \cup {c},
             M[d].type = "dir", Ent(M, F, d, n) = x
      PROVE  /\ x # RootSector
             /\ M[x].type = "dir" => \/ DotsRight(M, F, x, d)
                                     \/ \E p \in Process : MadeDir(gr[p]) /\ gr[p].sector = x
  <2>1. CASE x = c
    BY <1>4, <2>1
  <2>2. CASE x # c
    <3>1. x \in T /\ d \in T /\ N[d].type = "dir" /\ Ent(N, E, d, n) = x
      BY <1>2, <1>4, <2>2
    <3>2. /\ x # RootSector
          /\ N[x].type = "dir" => \/ DotsRight(N, E, x, d)
                                  \/ \E p \in Process : MadeDir(fr[p]) /\ fr[p].sector = x
      BY <3>1 DEF Rooted
    <3>3. DotsRight(N, E, x, d) /\ N[x].type = "dir" => DotsRight(M, F, x, d)
      BY <1>0, <3>1 DEF DotsRight
    <3> QED
      BY <3>1, <3>2, <3>3
  <2> QED
    BY <2>1, <2>2
<1> HIDE DEF RootSector
<1> QED
  BY <1>1, <1>3, <1>4 DEF Rooted

(* Inode c loses its name, which is in the root. *)
NameGone(N, M, E, F, T, fr, c, nm) ==
  /\ Rooted(N, E, T, fr) /\ RootSector \in T /\ 0 \notin T
  /\ c \in T /\ nm \in Name /\ Ent(N, E, RootSector, nm) = c
  /\ \A t \in T \ {c} : M[t] = N[t]
  /\ \A d \in T \ {c}, n \in EntryName :
       N[d].type = "dir" =>
         Ent(M, F, d, n) = IF d = RootSector /\ n = nm THEN 0 ELSE Ent(N, E, d, n)

(* An inode that loses its one name was a leaf, and not the root. *)
LEMMA RootedRemove ==
  ASSUME NEW N, NEW M, NEW E, NEW F, NEW T, NEW fr, NEW c, NEW nm,
         NameGone(N, M, E, F, T, fr, c, nm)
  PROVE  Rooted(M, F, T \ {c}, fr) /\ c # RootSector
<1> USE DEF NameGone
<1>0. Name \subseteq EntryName /\ "." \in EntryName \ Name /\ ".." \in EntryName \ Name
  BY FileSystemAssumption DEF EntryName
<1>1. c # RootSector
  BY DEF Rooted
<1>2. /\ M[RootSector].type = "dir" /\ DotsRight(M, F, RootSector, RootSector)
      /\ \A t \in T \ {c} : M[t].type # "none"
  BY <1>0, <1>1 DEF Rooted, DotsRight
<1>3. ASSUME NEW d \in T \ {c}, NEW n \in Name, M[d].type = "dir", Ent(M, F, d, n) # 0
      PROVE  N[d].type = "dir" /\ Ent(M, F, d, n) = Ent(N, E, d, n)
  BY <1>0, <1>3
<1>4. ASSUME NEW d \in T \ {c}, NEW e \in T \ {c}, NEW n \in Name, NEW m \in Name,
             M[d].type = "dir", M[e].type = "dir",
             Ent(M, F, d, n) # 0, Ent(M, F, d, n) = Ent(M, F, e, m)
      PROVE  d = e /\ n = m
  BY <1>3, <1>4 DEF Rooted
<1>5. ASSUME NEW d \in T \ {c}, NEW n \in Name, NEW x \in T \ {c},
             M[d].type = "dir", Ent(M, F, d, n) = x
      PROVE  /\ x # RootSector
             /\ M[x].type = "dir" => \/ DotsRight(M, F, x, d)
                                     \/ \E p \in Process : MadeDir(fr[p]) /\ fr[p].sector = x
  <2>1. N[d].type = "dir" /\ Ent(N, E, d, n) = x /\ M[x] = N[x]
    BY <1>3, <1>5
  <2>2. /\ x # RootSector
        /\ N[x].type = "dir" => \/ DotsRight(N, E, x, d)
                                \/ \E p \in Process : MadeDir(fr[p]) /\ fr[p].sector = x
    BY <2>1 DEF Rooted
  <2>3. DotsRight(N, E, x, d) /\ N[x].type = "dir" => DotsRight(M, F, x, d)
    BY <1>0, <2>2 DEF DotsRight
  <2> QED
    BY <2>1, <2>2, <2>3
<1> HIDE DEF RootSector
<1> QED
  BY <1>1, <1>2, <1>4, <1>5 DEF Rooted

-----------------------------------------------------------------------------
(* What the invariant says of a state.                                     *)

(* What TreeInv says of the tree in terms of the variables. *)
LEMMA TreeFacts ==
  ASSUME FsTypeOK, TreeInv
  PROVE  /\ Tree \subseteq FsSector /\ RootSector \in Tree /\ 0 \notin Tree
         /\ \A d \in Tree, n \in Name :
              node[d].type = "dir" => Ent(node, entries, d, n) \in Tree \cup {0}
         /\ \A t \in Tree : node[t].block \in FsSector \ {0}
         /\ \A t, u \in Tree : node[t].block = node[u].block => t = u
         /\ \A t \in Tree, q \in Process :
              t \notin Takes(frame[q]) /\ node[t].block \notin Takes(frame[q])
<1>1. node \in Nodes /\ entries \in Blocks
  BY DEF FsTypeOK, DiskTypes, Nodes, Blocks
<1>2. PICK T : T = Tree
  OBVIOUS
<1>3. T \subseteq FsSector /\ Ends(node, entries, T)
  BY <1>1, <1>2, ReachSound, TreeIs
<1>4. \A t \in T : node[t].block \in FsSector /\ t \in FsSector
  BY <1>3 DEF FsTypeOK, DiskTypes
<1>5. OneOwner(node, T, frame, lost, free_map)
  BY <1>2 DEF TreeInv
<1>6. \A t \in T : t \in Sectors(node, t) /\ node[t].block \in Sectors(node, t)
  BY DEF Sectors
<1>7. 0 \in FsSector /\ 0 \in Others(lost)
  BY ZeroSector DEF Others
<1>8. 0 \notin T /\ \A t \in T : node[t].block # 0
  BY <1>4, <1>5, <1>6, <1>7 DEF OneOwner
<1>9. \A t, u \in T : node[t].block = node[u].block => t = u
  BY <1>4, <1>5, <1>6 DEF OneOwner
<1>10. \A t \in T, q \in Process : t \notin Takes(frame[q]) /\ node[t].block \notin Takes(frame[q])
  BY <1>4, <1>5, <1>6 DEF OneOwner
<1>11. \A d \in T, n \in Name : node[d].type = "dir" => Ent(node, entries, d, n) \in T \cup {0}
  BY <1>3 DEF Ends, Kids, Ent
<1>12. RootSector \in T
  BY <1>3 DEF Ends
<1> QED
  BY <1>2, <1>3, <1>4, <1>8, <1>9, <1>10, <1>11, <1>12

(* What a process uses has a reference. *)
LEMMA InUse ==
  ASSUME FsTypeOK, RefInv, NEW q \in Process
  PROVE  /\ \A i \in DOMAIN frame[q].dirs : /\ frame[q].dirs[i] \in open_inodes
                                            /\ frame[q].dirs[i] \in Slot
                                            /\ References(frame[q].dirs[i]) > 0
                                            /\ inode[frame[q].dirs[i]].sector # 0
         /\ frame[q].inode \in Slot =>
              /\ frame[q].inode \in open_inodes /\ References(frame[q].inode) > 0
              /\ inode[frame[q].inode].sector # 0
         /\ pwd[q] \in Slot =>
              /\ pwd[q] \in open_inodes /\ References(pwd[q]) > 0
              /\ inode[pwd[q]].sector # 0
         /\ 1 \in Slot /\ 1 \in open_inodes /\ References(1) > 0
         /\ MadeDir(frame[q]) /\ Where(frame[q]) \in Linked => 1 \in DOMAIN frame[q].dirs
         /\ Where(frame[q]) = "setpwd" => frame[q].inode \in Slot
<1>1. /\ frame[q] \in Frame /\ Shape(frame[q]) /\ AllKept(leaked, frame[q].dirs)
      /\ pwd[q] \in Slot => Kept(leaked, pwd[q])
  BY DEF FsTypeOK, MemoryTypes, RefInv, PathsKept
<1>2. \A i \in DOMAIN frame[q].dirs : frame[q].dirs[i] \in Slot /\ Kept(leaked, frame[q].dirs[i])
  <2>1. frame[q].dirs \in Seq(Slot)
    BY <1>1 DEF Frame
  <2> QED
    BY <1>1, <2>1 DEF AllKept
<1>0. ASSUME NEW s \in Slot, s \in open_inodes, References(s) > 0 PROVE inode[s].sector # 0
  <2> SUFFICES ASSUME inode[s].sector = 0 PROVE FALSE
    OBVIOUS
  <2>1. PICK r \in Process : frame[r].making = s /\ frame[r].pc = "setsector"
    BY <1>0 DEF RefInv, Unmade
  <2>2. References(s) = 0
    BY <2>1 DEF RefInv, Unmade, Makes
  <2> QED
    BY <1>0, <2>2
<1>3. \A s \in Slot : Kept(leaked, s) =>
        s \in open_inodes /\ References(s) > 0 /\ inode[s].sector # 0
  BY <1>0, KeptOpen, KeptIsReferred
<1>4. 1 \in Slot /\ Kept(leaked, 1)
  BY FileSystemAssumption DEF Slot, Kept
<1>5. MadeDir(frame[q]) /\ Where(frame[q]) \in Linked => 1 \in DOMAIN frame[q].dirs
  <2> SUFFICES ASSUME MadeDir(frame[q]), Where(frame[q]) \in Linked
               PROVE  1 \in DOMAIN frame[q].dirs
    OBVIOUS
  <2>1. \E d \in Slot : frame[q].dirs = <<d>> \/ frame[q].dirs = <<d, d>>
    BY <1>1 DEF Shape, Making, Linked, MadeDir, Inserting
  <2> QED
    BY <2>1
<1>6. Where(frame[q]) = "setpwd" => frame[q].inode \in Slot
  BY <1>1 DEF Shape
<1>7. frame[q].inode \in Slot =>
        /\ frame[q].inode \in open_inodes /\ References(frame[q].inode) > 0
        /\ inode[frame[q].inode].sector # 0
  BY <1>0, InodeOpen, InodeIsReferred
<1> QED
  BY <1>1, <1>2, <1>3, <1>4, <1>5, <1>6, <1>7

(* The sectors of struct inodes that are referred to do not change. *)
SectorsStay ==
  /\ \A s \in Slot : References(s) > 0 => inode'[s].sector = inode[s].sector
  /\ \A s \in open_inodes' : \/ s \in open_inodes /\ inode'[s].sector = inode[s].sector
                             \/ inode'[s].sector \in Tree' \cup {0}

(* The tree changes by new names only, ... *)
TreeGrows ==
  /\ Tree \subseteq Tree' /\ \A t \in Tree : node'[t] = node[t]
  /\ \A d \in Tree, n \in Name :
       node[d].type = "dir" /\ Ent(node, entries, d, n) # 0
       => Ent(node', entries', d, n) = Ent(node, entries, d, n)

(* ... and what q is making does not change. *)
SameFor(q) ==
  /\ MadeDir(frame[q]) =>
       /\ Ent(node', entries', frame[q].sector, ".") = Ent(node, entries, frame[q].sector, ".")
       /\ Ent(node', entries', frame[q].sector, "..") = Ent(node, entries, frame[q].sector, "..")
  /\ Where(frame[q]) = "add" =>
       /\ node'[frame[q].sector] = node[frame[q].sector]
       /\ entries'[frame[q].block] = entries[frame[q].block]

PwdStays(p) ==
  /\ \A q \in Process \ {p} : pwd'[q] = pwd[q]
  /\ pwd'[p] \in Slot => \/ pwd'[p] = pwd[p]
                         \/ node'[inode'[pwd'[p]].sector].type = "dir"

(* The other calls' part of a step: sectors of open inodes stay and the    *)
(* tree grows.                                                             *)
LEMMA OthersWritten ==
  ASSUME FsTypeOK, RefInv, TreeInv, SectorsStay, TreeGrows,
         NEW q \in Process, SameFor(q)
  PROVE  Written(node', entries', Tree', inode', frame[q])
<1>1. PICK f : f = frame[q]
  OBVIOUS
<1>2. PICK N, M, E, F, T, U, I, J :
        /\ N = node /\ M = node' /\ E = entries /\ F = entries' /\ T = Tree /\ U = Tree'
        /\ I = inode /\ J = inode'
  OBVIOUS
<1>3. Written(N, E, T, I, f) /\ Phase(f)
  BY <1>1, <1>2 DEF TreeInv
<1>4. /\ T \subseteq U /\ \A t \in T : M[t] = N[t]
      /\ \A d \in T, n \in Name :
           N[d].type = "dir" /\ Ent(N, E, d, n) # 0 => Ent(M, F, d, n) = Ent(N, E, d, n)
  BY <1>2 DEF TreeGrows
<1>5. /\ MadeDir(f) => /\ f.sector # 0
                       /\ Ent(M, F, f.sector, ".") = Ent(N, E, f.sector, ".")
                       /\ Ent(M, F, f.sector, "..") = Ent(N, E, f.sector, "..")
      /\ MadeDir(f) /\ Where(f) = "lookup" => f.name \in Name
      /\ Where(f) = "add" => M[f.sector] = N[f.sector] /\ F[f.block] = E[f.block]
  BY <1>1, <1>2, <1>3 DEF SameFor, Phase
<1>6. /\ MadeDir(f) /\ Where(f) \in Linked => 1 \in DOMAIN f.dirs
      /\ Where(f) = "setpwd" => f.inode \in Slot
  BY <1>1, InUse
<1>7. \A s \in open_inodes : References(s) > 0 /\ s \in Slot /\ I[s].sector # 0 =>
        I[s].sector \in T /\ J[s].sector = I[s].sector
  BY <1>2 DEF SectorsStay, TreeInv, OpenInTree
<1>8. \A i \in DOMAIN f.dirs : I[f.dirs[i]].sector \in T
                               /\ J[f.dirs[i]].sector = I[f.dirs[i]].sector
  BY <1>1, <1>2, <1>7, InUse
<1>9. f.inode \in Slot => I[f.inode].sector \in T /\ J[f.inode].sector = I[f.inode].sector
  BY <1>1, <1>2, <1>7, InUse
<1>10. Written(M, F, U, J, f)
  BY ONLY <1>3, <1>4, <1>5, <1>6, <1>8, <1>9, WrittenStays
<1> QED
  BY <1>1, <1>2, <1>10

(* p goes on as g. *)
Onward(p, g) ==
  /\ frame' = [frame EXCEPT ![p] = g] /\ running /\ running'
  /\ SectorsStay /\ PwdStays(p)
  /\ Phase(g) /\ Written(node', entries', Tree', inode', g)
  /\ g.sector \in {frame[p].sector, 0} \/ \A q \in Process : frame[q].sector # g.sector

(* A step of one call, from its effect on sectors and on the tree. *)
LEMMA CallStep ==
  ASSUME FsTypeOK, RefInv, TreeInv, NEW p \in Process, NEW g, Onward(p, g), TreeGrows,
         \A q \in Process \ {p} : SameFor(q),
         OneOwner(node', Tree', frame', lost', free_map'),
         Rooted(node', entries', Tree', frame')
  PROVE  TreeInv'
<1>1. frame'[p] = g /\ \A q \in Process \ {p} : frame'[q] = frame[q]
  BY DEF Onward, FsTypeOK, MemoryTypes
<1>2. \A q \in Process : Phase(frame'[q]) /\ Written(node', entries', Tree', inode', frame'[q])
  <2>1. ASSUME NEW q \in Process \ {p}
        PROVE  Phase(frame[q]) /\ Written(node', entries', Tree', inode', frame[q])
    BY OthersWritten DEF Onward, TreeInv
  <2>2. Phase(g) /\ Written(node', entries', Tree', inode', g)
    BY DEF Onward
  <2> QED
    BY <1>1, <2>1, <2>2
<1>3. Apart(frame')
  <2>1. g.sector \in {frame[p].sector, 0} \/ \A q \in Process : frame[q].sector # g.sector
    BY DEF Onward
  <2>2. Apart(frame)
    BY DEF TreeInv
  <2> QED
    BY <1>1, <2>1, <2>2 DEF Apart
<1>4. OpenInTree(node', Tree', inode', open_inodes', pwd', running')
  <2>1. OpenInTree(node, Tree, inode, open_inodes, pwd, running) /\ running = TRUE /\ running' = TRUE
    BY DEF TreeInv, Onward, FsTypeOK, MemoryTypes, OpenInTree
  <2>2. /\ Tree \subseteq Tree' /\ \A t \in Tree : node'[t] = node[t]
        /\ \A s \in open_inodes' : \/ s \in open_inodes /\ inode'[s].sector = inode[s].sector
                                   \/ inode'[s].sector \in Tree' \cup {0}
    BY DEF TreeGrows, Onward, SectorsStay
  <2>3. inode'[1].sector = inode[1].sector
    BY InUse DEF Onward, SectorsStay
  <2>4. ASSUME NEW q \in Process, pwd[q] \in Slot
        PROVE  inode[pwd[q]].sector \in Tree /\ inode'[pwd[q]].sector = inode[pwd[q]].sector
    BY <2>1, <2>4, InUse DEF Onward, SectorsStay, OpenInTree
  <2>5. \A q \in Process : pwd'[q] \in Slot =>
           \/ /\ pwd'[q] = pwd[q] /\ inode[pwd[q]].sector \in Tree
              /\ inode'[pwd[q]].sector = inode[pwd[q]].sector
           \/ node'[inode'[pwd'[q]].sector].type = "dir"
    BY <2>4 DEF Onward, PwdStays
  <2>6. PICK N, M, T, U, I, J, op, oq, pw, pv :
          /\ N = node /\ M = node' /\ T = Tree /\ U = Tree' /\ I = inode /\ J = inode'
          /\ op = open_inodes /\ oq = open_inodes' /\ pw = pwd /\ pv = pwd'
    OBVIOUS
  <2>7. OpenInTree(M, U, J, oq, pv, TRUE)
    <3>1. OpenInTree(N, T, I, op, pw, TRUE)
      BY <2>1, <2>6
    <3>2. T \subseteq U /\ \A t \in T : M[t] = N[t]
      BY <2>2, <2>6
    <3>3. /\ \A s \in oq : \/ s \in op /\ J[s].sector = I[s].sector
                           \/ J[s].sector \in U \cup {0}
          /\ J[1].sector = I[1].sector
      BY <2>2, <2>3, <2>6
    <3>4. \A q \in Process : pv[q] \in Slot =>
            \/ pv[q] = pw[q] /\ I[pw[q]].sector \in T /\ J[pw[q]].sector = I[pw[q]].sector
            \/ M[J[pv[q]].sector].type = "dir"
      BY <2>5, <2>6
    <3> QED
      BY ONLY <3>1, <3>2, <3>3, <3>4 DEF OpenInTree
  <2> QED
    BY <2>1, <2>6, <2>7
<1> QED
  BY <1>2, <1>3, <1>4 DEF TreeInv

(* A step that leaves the disk and the free map alone. *)
LEMMA DiskAlone ==
  ASSUME FsTypeOK, UNCHANGED <<node, entries>>
  PROVE  Tree' = Tree /\ TreeGrows /\ \A q : SameFor(q)
<1>1. Tree' = Tree
  BY TreeIs
<1> QED
  BY <1>1 DEF TreeGrows, SameFor

(* A step of a call that changes neither disk nor free map. *)
LEMMA OnwardStep ==
  ASSUME FsTypeOK, RefInv, TreeInv, NEW p \in Process, NEW g, Onward(p, g),
         UNCHANGED <<free_map, diskVars, lost>>, Takes(g) = Takes(frame[p]),
         MadeDir(frame[p]) =>
           \/ MadeDir(g) /\ g.sector = frame[p].sector
           \/ Where(frame[p]) = "closeagain"
  PROVE  TreeInv'
<1>0. UNCHANGED <<node, entries, diskMap, free_map, lost>>
  BY DEF diskVars
<1>1. Tree' = Tree /\ TreeGrows /\ \A q : SameFor(q)
  BY <1>0, DiskAlone
<1>2. frame'[p] = g /\ \A q \in Process \ {p} : frame'[q] = frame[q]
  BY DEF Onward, FsTypeOK, MemoryTypes
<1>3. PICK T, fr, gr : T = Tree /\ fr = frame /\ gr = frame'
  OBVIOUS
<1>4. OneOwner(node', Tree', frame', lost', free_map')
  <2>1. OneOwner(node, T, fr, lost, free_map) /\ \A q \in Process : Takes(gr[q]) = Takes(fr[q])
    BY <1>2, <1>3 DEF TreeInv
  <2>2. OneOwner(node, T, gr, lost, free_map)
    BY <2>1, OwnersSame
  <2> QED
    BY <1>0, <1>1, <1>3, <2>2
<1>6. Rooted(node', entries', Tree', frame')
  <2>1. Rooted(node, entries, T, fr) /\ RootSector \in T /\ 0 \notin T
    BY <1>3, TreeFacts DEF TreeInv
  <2>2. DotsRight(node, entries, RootSector, RootSector)
    BY <2>1 DEF Rooted
  <2>3. CASE MadeDir(fr[p]) => MadeDir(g) /\ g.sector = fr[p].sector
    <3>1. \A q \in Process : MadeDir(fr[q]) => MadeDir(gr[q]) /\ gr[q].sector = fr[q].sector
      BY <1>2, <1>3, <2>3
    <3>2. Rooted(node, entries, T, gr)
      BY <2>1, <2>2, <3>1, RootedStays
    <3> QED
      BY <1>0, <1>1, <1>3, <3>2
  <2>4. CASE MadeDir(fr[p]) /\ Where(fr[p]) = "closeagain"
    <3>1. PICK c : c = fr[p].sector
      OBVIOUS
    <3>2. \E d \in T, n \in Name : node[d].type = "dir" /\ Ent(node, entries, d, n) = c
                                   /\ DotsRight(node, entries, c, d)
      <4>1. Written(node, entries, T, inode, fr[p])
        BY <1>3 DEF TreeInv
      <4>2. /\ 1 \in DOMAIN fr[p].dirs /\ fr[p].dirs[1] \in open_inodes
            /\ inode[fr[p].dirs[1]].sector # 0
        BY <1>3, <2>4, InUse DEF Linked
      <4>3. Parent(inode, fr[p]) \in T /\ node[Parent(inode, fr[p])].type = "dir"
        BY <1>3, <4>1, <4>2 DEF Parent, Written, TreeInv, OpenInTree
      <4>4. /\ \E n \in Name : Ent(node, entries, Parent(inode, fr[p]), n) = c
            /\ DotsRight(node, entries, c, Parent(inode, fr[p]))
        BY <2>4, <3>1, <4>1 DEF Written, DotsRight, Linked, NoDots
      <4> QED
        BY <4>3, <4>4
    <3>3. \A e \in T : e # c => \A q \in Process : MadeDir(fr[q]) /\ fr[q].sector = e
                                      => MadeDir(gr[q]) /\ gr[q].sector = e
      BY <1>2, <1>3, <3>1
    <3>4. Rooted(node, entries, T, gr)
      BY <2>1, <2>2, <3>2, <3>3, RootedStays
    <3> QED
      BY <1>0, <1>1, <1>3, <3>4
  <2> QED
    BY <1>3, <2>3, <2>4
<1> QED
  BY <1>1, <1>4, <1>6, CallStep

-----------------------------------------------------------------------------
(* Steps that leave the disk alone.                                        *)

(* "." and ".." of a directory lead to directories that paths lead to. *)
LEMMA DotsLead ==
  ASSUME FsTypeOK, RefInv, TreeInv, NEW d \in Tree, node[d].type = "dir", NEW n \in EntryName
  PROVE  Ent(node, entries, d, n) \in Tree \cup {0}
<1>1. Rooted(node, entries, Tree, frame) /\ RootSector \in Tree
  BY TreeFacts DEF TreeInv
<1>2. CASE n \in Name
  BY <1>2, TreeFacts
<1>3. CASE d = RootSector /\ n \in {".", ".."}
  BY <1>1, <1>3 DEF Rooted, DotsRight
<1>4. CASE d # RootSector /\ n \in {".", ".."}
  <2>1. PICK e \in Tree, m \in Name : node[e].type = "dir" /\ Ent(node, entries, e, m) = d
    <3>1. node \in Nodes /\ entries \in Blocks
      BY DEF FsTypeOK, DiskTypes, Nodes, Blocks
    <3>2. \E e \in Tree : node[e].type = "dir" /\ d \in Kids(node, entries, e)
      BY <1>4, <3>1, TreeIs, ReachNamed
    <3> QED
      BY <3>2 DEF Kids, Ent
  <2>2. CASE DotsRight(node, entries, d, e)
    BY <1>4, <2>2 DEF DotsRight
  <2>3. CASE \E p \in Process : MadeDir(frame[p]) /\ frame[p].sector = d
    <3>1. PICK p \in Process : MadeDir(frame[p]) /\ frame[p].sector = d
      BY <2>3
    <3>2. Written(node, entries, Tree, inode, frame[p])
      BY DEF TreeInv
    <3>3. Where(frame[p]) \notin NoDots \cup {"addparent"} => Parent(inode, frame[p]) \in Tree
      <4>1. Where(frame[p]) \notin NoDots \cup {"addparent"} => Where(frame[p]) \in Linked
        BY <3>1 DEF MadeDir, NoDots
      <4> QED
        BY <3>1, <4>1, InUse DEF Parent, TreeInv, OpenInTree
    <3> QED
      BY <1>4, <3>1, <3>2, <3>3 DEF Written
  <2> QED
    BY <1>1, <2>1, <2>2, <2>3 DEF Rooted
<1> QED
  BY <1>2, <1>3, <1>4 DEF EntryName

(* A frame that says the same of disk and inodes. *)
Like(g, f) ==
  /\ Where(g) = Where(f) /\ g.call = f.call /\ g.name = f.name /\ g.dirs = f.dirs
  /\ g.pick = f.pick /\ g.sector = f.sector /\ g.block = f.block /\ g.inode = f.inode

(* A frame that differs only in what close_inode() needs says the same of  *)
(* sectors and of the disk.                                                *)
LEMMA LikeSame ==
  ASSUME NEW f, NEW g, Like(g, f), g.pc = "unlist" => g.next \notin Allocating
  PROVE  /\ MadeDir(g) = MadeDir(f) /\ (Phase(f) => Phase(g))
         /\ \A N, E, T, I : Written(N, E, T, I, f) => Written(N, E, T, I, g)
<1>1. MadeDir(g) = MadeDir(f)
  BY DEF Like, MadeDir
<1>2. Phase(f) => Phase(g)
  BY <1>1 DEF Like, Phase
<1>3. ASSUME NEW N, NEW E, NEW T, NEW I, Written(N, E, T, I, f) PROVE Written(N, E, T, I, g)
  <2>1. Parent(I, g) = Parent(I, f)
    BY DEF Like, Parent
  <2>2. PICK w : w = Where(f) /\ w = Where(g)
    BY DEF Like
  <2> QED
    BY <1>1, <1>3, <2>1, <2>2 DEF Like, Written
<1> QED
  BY <1>1, <1>2, <1>3

LEMMA WrittenSectors ==
  ASSUME NEW N, NEW E, NEW T, NEW I, NEW J, NEW f \in Frame, Written(N, E, T, I, f),
         \A s \in Slot : J[s].sector = I[s].sector,
         Where(f) = "setpwd" => f.inode \in Slot,
         MadeDir(f) /\ Where(f) \in Linked => 1 \in DOMAIN f.dirs
  PROVE  Written(N, E, T, J, f)
<1>1. \A i \in DOMAIN f.dirs : f.dirs[i] \in Slot
  BY DEF Frame
<1>2. MadeDir(f) /\ Where(f) \in Linked => Parent(J, f) = Parent(I, f)
  BY <1>1 DEF Parent
<1>3. MadeDir(f) /\ Where(f) \notin NoDots \cup {"addparent"} => Where(f) \in Linked
  BY DEF MadeDir, NoDots
<1>4. "lookup" \in Linked
  BY DEF Linked
<1>5. \A i \in DOMAIN f.dirs : J[f.dirs[i]].sector = I[f.dirs[i]].sector
  BY <1>1
<1> QED
  BY <1>2, <1>3, <1>4, <1>5 DEF Written

LEMMA SectorsSame ==
  ASSUME FsTypeOK, \A s \in Slot : inode'[s].sector = inode[s].sector, UNCHANGED open_inodes
  PROVE  SectorsStay
  BY DEF SectorsStay, FsTypeOK, MemoryTypes

LEMMA ReopenSectors ==
  ASSUME FsTypeOK, NEW p, NEW t, Reopen(p, t)
  PROVE  \A s \in Slot : inode'[s].sector = inode[s].sector
<1>1. inode \in [Slot -> [sector : FsSector, cnt : Int]]
  BY DEF FsTypeOK, MemoryTypes
<1> QED
  BY ONLY <1>1, Reopen(p, t) DEF Reopen

(* How a call goes on after it closes an inode. *)
LEMMA CloseGoes ==
  ASSUME FsTypeOK, NEW p \in Process, NEW s, NEW after \in Frame, Close(p, s, after),
         after.pc \in PC \ Allocating
  PROVE  /\ \A t \in Slot : inode'[t].sector = inode[t].sector
         /\ \E g : /\ frame' = [frame EXCEPT ![p] = g] /\ Like(g, after)
                   /\ g.pc \notin Allocating /\ (g.pc = "unlist" => g.next \notin Allocating)
<1>0. inode \in [Slot -> [sector : FsSector, cnt : Int]]
  BY DEF FsTypeOK, MemoryTypes
<1>1. Where(after) = after.pc /\ after.pc # "unlist"
  BY DEF Where, PC
<1>2. CASE s \notin open_inodes
  <2>1. UNCHANGED inode /\ frame' = [frame EXCEPT ![p] = after]
    BY <1>2 DEF Close, Resume
  <2> QED
    BY <1>1, <2>1 DEF Like
<1>3. CASE s \in open_inodes
  <2> DEFINE u == [after EXCEPT !.pc = "unlist", !.closing = s, !.next = after.pc]
  <2>1. /\ inode' = [inode EXCEPT ![s].cnt = @ - 1]
        /\ frame' = [frame EXCEPT ![p] = after] \/ frame' = [frame EXCEPT ![p] = u]
    BY <1>3 DEF Close, Resume
  <2>2. \A t \in Slot : inode'[t].sector = inode[t].sector
    BY ONLY <1>0, <2>1
  <2>3. u.pc = "unlist" /\ u.next = after.pc /\ u.call = after.call /\ u.name = after.name
        /\ u.dirs = after.dirs /\ u.pick = after.pick /\ u.sector = after.sector
        /\ u.block = after.block /\ u.inode = after.inode
    BY DEF Frame
  <2> HIDE DEF u
  <2>4. Like(u, after) /\ u.pc \notin Allocating /\ u.next \notin Allocating
    BY <1>1, <2>3 DEF Like, Where, Allocating
  <2>5. Like(after, after)
    BY DEF Like
  <2> QED
    BY <1>1, <2>1, <2>2, <2>4, <2>5
<1> QED
  BY <1>2, <1>3

(* p closes an inode and goes on as after. *)
LEMMA CloseTree ==
  ASSUME FsTypeOK, RefInv, TreeInv, NEW p \in Process, running, running',
         frame[p].pc \notin Allocating \cup {"unlist", "saverelease"},
         NEW s, NEW after \in Frame, Close(p, s, after), after.pc \in PC \ Allocating,
         UNCHANGED <<free_map, diskVars, lost, open_inodes>>,
         \A q \in Process \ {p} : pwd'[q] = pwd[q],
         pwd'[p] \notin Slot \/ pwd'[p] = pwd[p],
         Phase(after), Written(node, entries, Tree, inode, after),
         after.sector \in {frame[p].sector, 0},
         after.pc = "setpwd" => after.inode \in Slot,
         MadeDir(after) /\ after.pc \in Linked => 1 \in DOMAIN after.dirs,
         MadeDir(frame[p]) =>
           \/ MadeDir(after) /\ after.sector = frame[p].sector
           \/ Where(frame[p]) = "closeagain"
  PROVE  TreeInv'
<1>1. \A t \in Slot : inode'[t].sector = inode[t].sector
  BY CloseGoes
<1>2. PICK g : /\ frame' = [frame EXCEPT ![p] = g] /\ Like(g, after)
               /\ g.pc \notin Allocating /\ (g.pc = "unlist" => g.next \notin Allocating)
  BY CloseGoes
<1>3. UNCHANGED <<node, entries>> /\ Tree' = Tree
  BY DiskAlone DEF diskVars
<1>4. Where(after) = after.pc
  BY DEF Where, PC
<1>5. Written(node', entries', Tree', inode', g)
  <2>1. PICK N, E, T, I, J : N = node /\ E = entries /\ T = Tree /\ I = inode /\ J = inode'
    OBVIOUS
  <2>2. Written(N, E, T, J, after)
    BY <1>1, <1>4, <2>1, WrittenSectors
  <2>3. Written(N, E, T, J, g)
    BY <1>2, <2>2, LikeSame
  <2> QED
    BY <1>3, <2>1, <2>3
<1>6. Phase(g) /\ MadeDir(g) = MadeDir(after) /\ g.sector = after.sector
  BY <1>2, LikeSame DEF Like
<1>7. SectorsStay
  BY <1>1, SectorsSame
<1>8. PwdStays(p)
  BY DEF PwdStays
<1>9. Onward(p, g)
  BY <1>2, <1>5, <1>6, <1>7, <1>8 DEF Onward
<1>10. Takes(g) = Takes(frame[p]) /\ frame[p].pc \notin {"save", "saverelease"}
  BY <1>2 DEF Takes, Allocating
<1> QED
  BY <1>2, <1>6, <1>9, <1>10, OnwardStep

(* What is known of a process in a call. *)
LEMMA InCallTree ==
  ASSUME FsTypeOK, RefInv, TreeInv, NEW p \in Process, frame[p].pc \notin {"outside", "unlist"}
  PROVE  /\ frame[p] \in Frame /\ Shape(frame[p]) /\ Where(frame[p]) = frame[p].pc /\ running
         /\ Phase(frame[p]) /\ Written(node, entries, Tree, inode, frame[p])
  BY InCall DEF TreeInv

(* A process outside any call holds no sectors. *)
LEMMA OutsideTree ==
  /\ Outside \in Frame /\ Where(Outside) = "outside" /\ Phase(Outside) /\ ~MadeDir(Outside)
  /\ \A N, E, T, I : Written(N, E, T, I, Outside)
  /\ Outside.pc = "outside" /\ Outside.sector = 0 /\ Takes(Outside) = {}
<1>1. Outside \in Frame
  BY OutsideShape
<1>2. Where(Outside) = "outside" /\ Outside.call = "none" /\ Outside.dirs = << >>
      /\ Outside.sector = 0 /\ Outside.block = 0 /\ Outside.pc = "outside"
  BY DEF Outside, Where
<1>3. ~MadeDir(Outside)
  BY <1>2 DEF MadeDir
<1>4. Phase(Outside)
  <2> PICK f : f = Outside
    OBVIOUS
  <2>1. /\ Where(f) = "outside" /\ f.sector = 0 /\ f.block = 0 /\ f.pc = "outside" /\ ~MadeDir(f)
        /\ "outside" \notin Allocating
    BY <1>2, <1>3 DEF Allocating
  <2>2. Phase(f)
    BY ONLY <2>1 DEF Phase
  <2> QED
    BY <2>2
<1>5. \A N, E, T, I : Written(N, E, T, I, Outside)
  BY <1>2, <1>3 DEF Written
<1>6. Takes(Outside) = {}
  BY <1>2 DEF Takes, Allocating
<1> QED
  BY <1>1, <1>2, <1>3, <1>4, <1>5, <1>6

LEMMA CloseMadeTree ==
  ASSUME FsTypeOK, RefInv, TreeInv, NEW p \in Process, CloseMade(p)
  PROVE  TreeInv'
<1>1. frame[p].pc = "closemade"
  BY DEF CloseMade, At
<1>2. /\ frame[p] \in Frame /\ Shape(frame[p]) /\ Where(frame[p]) = "closemade" /\ running
      /\ Phase(frame[p]) /\ Written(node, entries, Tree, inode, frame[p])
  BY <1>1, InCallTree
<1> DEFINE g == [frame[p] EXCEPT !.pc = "closeagain", !.inode = Nil, !.again = frame[p].inode]
<1>3. /\ g.pc = "closeagain" /\ g.call = frame[p].call /\ g.name = frame[p].name
      /\ g.dirs = frame[p].dirs /\ g.pick = frame[p].pick /\ g.sector = frame[p].sector
      /\ g.block = frame[p].block /\ g.inode = Nil
      /\ g \in Frame
  <2>1. frame[p].inode \in OptSlot /\ Nil \in OptSlot /\ "closeagain" \in PC \cup {"unlist"}
    BY <1>2 DEF Frame, OptSlot, PC
  <2> QED
    BY <1>2, <2>1 DEF Frame
<1>4. /\ Close(p, frame[p].inode, g)
      /\ UNCHANGED <<free_map, diskVars, open_inodes, heap, holdVars, running, lost>>
  BY DEF CloseMade, lostVars
<1> HIDE DEF g
<1>5. Where(g) = "closeagain" /\ frame[p].call = "mkdir"
  BY <1>2, <1>3 DEF Where, Shape, Making
<1>6. MadeDir(g) /\ MadeDir(frame[p]) /\ Nil \notin Slot
  BY <1>2, <1>3, <1>5, FileSystemAssumption DEF MadeDir, Linked
<1>7. Phase(g)
  BY <1>2, <1>3, <1>5, <1>6 DEF Phase, Allocating
<1>8. Written(node, entries, Tree, inode, g)
  BY <1>2, <1>3, <1>5, <1>6 DEF Written, Parent, Linked, NoDots
<1>9. 1 \in DOMAIN g.dirs
  BY <1>2, <1>3, <1>6, InUse DEF Linked
<1>10. g.pc \in PC \ Allocating /\ frame[p].pc \notin Allocating \cup {"unlist", "saverelease"}
  BY <1>1, <1>3 DEF PC, Allocating
<1> QED
  BY <1>2, <1>3, <1>4, <1>6, <1>7, <1>8, <1>9, <1>10, CloseTree DEF holdVars

LEMMA CloseAgainTree ==
  ASSUME FsTypeOK, RefInv, TreeInv, NEW p \in Process, CloseAgain(p)
  PROVE  TreeInv'
<1>1. frame[p].pc = "closeagain"
  BY DEF CloseAgain, At
<1>2. /\ frame[p] \in Frame /\ Shape(frame[p]) /\ Where(frame[p]) = "closeagain" /\ running
      /\ Phase(frame[p]) /\ Written(node, entries, Tree, inode, frame[p])
  BY <1>1, InCallTree
<1> DEFINE g == [frame[p] EXCEPT !.pc = "closedir", !.again = Nil, !.sector = 0, !.block = 0]
<1>3. /\ g.pc = "closedir" /\ g.dirs = frame[p].dirs /\ g.sector = 0 /\ g.block = 0
      /\ g \in Frame
  <2>1. Nil \in OptSlot /\ "closedir" \in PC \cup {"unlist"}
    BY DEF OptSlot, PC
  <2> QED
    BY <1>2, <2>1, ZeroSector DEF Frame
<1>4. /\ Close(p, frame[p].again, g)
      /\ UNCHANGED <<free_map, diskVars, open_inodes, heap, pwd, fds, leaked, running, lost>>
  BY DEF CloseAgain, lostVars
<1> HIDE DEF g
<1>5. Where(g) = "closedir" /\ ~MadeDir(g)
  BY <1>3 DEF Where, MadeDir, Linked
<1>6. Phase(g) /\ Written(node, entries, Tree, inode, g)
  BY <1>2, <1>3, <1>5 DEF Phase, Written, Allocating
<1>7. g.pc \in PC \ Allocating /\ frame[p].pc \notin Allocating \cup {"unlist", "saverelease"}
  BY <1>1, <1>3 DEF PC, Allocating
<1> QED
  BY <1>2, <1>3, <1>4, <1>5, <1>6, <1>7, CloseTree

(* The last inode of a call is closed. *)
LEMMA CloseAndReturnTree ==
  ASSUME FsTypeOK, RefInv, TreeInv, NEW p \in Process, NEW s, Close(p, s, Outside),
         frame[p].pc \notin Allocating \cup {"outside", "unlist", "saverelease"}, ~MadeDir(frame[p]),
         UNCHANGED <<free_map, diskVars, open_inodes, heap, holdVars, running, lost>>
  PROVE  TreeInv'
<1>1. Outside.pc \in PC \ Allocating /\ Outside.pc # "setpwd" /\ running
  BY OutsideTree, InCallTree DEF PC, Allocating
<1> QED
  BY <1>1, OutsideTree, CloseTree DEF holdVars

LEMMA CloseDirTree ==
  ASSUME FsTypeOK, RefInv, TreeInv, NEW p \in Process, CloseDir(p)
  PROVE  TreeInv'
<1>1. frame[p].pc = "closedir"
  BY DEF CloseDir, At
<1>2. ~MadeDir(frame[p]) /\ frame[p].pc \notin Allocating \cup {"outside", "unlist", "saverelease"}
  BY <1>1 DEF MadeDir, Linked, Where, Allocating
<1> QED
  BY <1>2, CloseAndReturnTree DEF CloseDir, lostVars

LEMMA CloseFileTree ==
  ASSUME FsTypeOK, RefInv, TreeInv, NEW p \in Process, CloseFile(p)
  PROVE  TreeInv'
<1>1. frame[p].pc = "opened" /\ frame[p].call = "open"
  BY DEF CloseFile, Opened, At
<1>2. ~MadeDir(frame[p]) /\ frame[p].pc \notin Allocating \cup {"outside", "unlist", "saverelease"}
  BY <1>1 DEF MadeDir, Allocating
<1> QED
  BY <1>2, CloseAndReturnTree DEF CloseFile, lostVars

LEMMA CloseLookupTree ==
  ASSUME FsTypeOK, RefInv, TreeInv, NEW p \in Process, CloseLookup(p)
  PROVE  TreeInv'
<1>1. frame[p].pc = "closelookup"
  BY DEF CloseLookup, At
<1>2. /\ frame[p] \in Frame /\ Shape(frame[p]) /\ Where(frame[p]) = "closelookup" /\ running
      /\ Phase(frame[p]) /\ Written(node, entries, Tree, inode, frame[p])
  BY <1>1, InCallTree
<1>3. PICK d \in Slot : frame[p].dirs = IF frame[p].call = "mkdir" THEN <<d, d>> ELSE <<d>>
  BY <1>2 DEF Shape
<1> DEFINE g == [frame[p] EXCEPT !.dirs = SubSeq(@, 1, Len(@) - 1),
              !.pc = IF frame[p].call = "mkdir" /\ frame[p].inode # Nil THEN "adddot"
                                                                       ELSE "opened"]
<1>4. SubSeq(frame[p].dirs, 1, Len(frame[p].dirs) - 1) =
        IF frame[p].call = "mkdir" THEN <<d>> ELSE << >>
  BY SMTT(30), <1>3, DropLast
<1>5. /\ g.pc = (IF frame[p].call = "mkdir" /\ frame[p].inode # Nil THEN "adddot" ELSE "opened")
      /\ g.call = frame[p].call /\ g.name = frame[p].name
      /\ g.dirs = (IF frame[p].call = "mkdir" THEN <<d>> ELSE << >>)
      /\ g.pick = frame[p].pick /\ g.sector = frame[p].sector
      /\ g.block = frame[p].block /\ g.inode = frame[p].inode
      /\ g \in Frame
  <2>1. SubSeq(frame[p].dirs, 1, Len(frame[p].dirs) - 1) \in Seq(Slot)
    <3>1. <<d>> \in Seq(Slot) /\ << >> \in Seq(Slot)
      OBVIOUS
    <3> QED
      BY <1>4, <3>1
  <2>2. {"adddot", "opened"} \subseteq PC \cup {"unlist"}
    BY DEF PC
  <2> QED
    BY <1>2, <1>4, <2>1, <2>2 DEF Frame
<1>6. /\ Close(p, DirOf(p), IF g.inode = Nil /\ g.call # "mkdir" THEN Outside ELSE g)
      /\ UNCHANGED <<free_map, diskVars, open_inodes, heap, holdVars, running, lost>>
  BY DEF CloseLookup, lostVars
<1> HIDE DEF g
<1>7. frame[p].pc \notin Allocating \cup {"outside", "unlist", "saverelease"}
  BY <1>1 DEF Allocating
<1>8. CASE g.inode = Nil /\ g.call # "mkdir"
  <2>1. ~MadeDir(frame[p])
    BY <1>5, <1>8 DEF MadeDir
  <2> QED
    BY <1>6, <1>7, <1>8, <2>1, CloseAndReturnTree
<1>9. CASE ~(g.inode = Nil /\ g.call # "mkdir")
  <2>1. Where(g) = g.pc /\ g.pc \in {"adddot", "opened"} /\ g.pc \in PC \ Allocating
    BY <1>5 DEF Where, PC, Allocating
  <2>2. (MadeDir(g) <=> g.call = "mkdir") /\ (MadeDir(frame[p]) <=> g.call = "mkdir")
    BY <1>2, <1>5, <2>1 DEF MadeDir, Linked
  <2>3. Phase(g)
    BY <1>2, <1>5, <2>1, <2>2 DEF Phase, Allocating
  <2>4. Written(node, entries, Tree, inode, g)
    <3>1. CASE g.call = "mkdir"
      <4>1. Parent(inode, g) = Parent(inode, frame[p]) /\ frame[p].dirs[1] = d
            /\ 1 \in DOMAIN frame[p].dirs
        BY <1>3, <1>5, <3>1 DEF Parent
      <4>2. \A i \in DOMAIN g.dirs : g.dirs[i] = d
        BY <1>5, <3>1
      <4>3. node[inode[d].sector].type = "dir"
        BY <1>2, <4>1 DEF Written
      <4>4. \A i \in DOMAIN g.dirs : node[inode[g.dirs[i]].sector].type = "dir"
        BY <4>2, <4>3
      <4>5. /\ g.sector \in Tree /\ node[g.sector].type = "dir"
            /\ \E n \in Name : Ent(node, entries, Parent(inode, g), n) = g.sector
            /\ g.inode \in Slot => inode[g.inode].sector = g.sector
            /\ Ent(node, entries, g.sector, ".") = 0 /\ Ent(node, entries, g.sector, "..") = 0
        BY <1>2, <1>5, <2>2, <3>1, <4>1 DEF Written, Linked, NoDots
      <4> QED
        BY <2>1, <4>4, <4>5 DEF Written, NoDots
    <3>2. CASE g.call # "mkdir"
      BY <1>5, <2>1, <2>2, <3>2 DEF Written
    <3> QED
      BY <3>1, <3>2
  <2>5. MadeDir(g) /\ g.pc \in Linked => 1 \in DOMAIN g.dirs
    BY <1>5, <2>2
  <2>6. Close(p, DirOf(p), g)
    BY <1>6, <1>9
  <2> QED
    BY <1>2, <1>5, <1>6, <1>7, <2>1, <2>2, <2>3, <2>4, <2>5, <2>6, CloseTree DEF holdVars
<1> QED
  BY <1>8, <1>9

LEMMA LeavePwdTree ==
  ASSUME FsTypeOK, RefInv, TreeInv, NEW p \in Process, LeavePwd(p)
  PROVE  TreeInv'
<1>1. frame[p].pc = "opened" /\ frame[p].call = "chdir"
  BY DEF LeavePwd, Opened, At
<1>2. /\ frame[p] \in Frame /\ Shape(frame[p]) /\ Where(frame[p]) = "opened" /\ running
      /\ Phase(frame[p]) /\ Written(node, entries, Tree, inode, frame[p])
  BY <1>1, InCallTree
<1>3. ~MadeDir(frame[p]) /\ frame[p].inode \in Slot /\ frame[p].dirs = << >>
      /\ frame[p].pc \notin Allocating \cup {"outside", "unlist", "save", "saverelease"}
  BY <1>1, <1>2 DEF MadeDir, Shape, Allocating
<1>4. frame[p].sector = 0 /\ frame[p].block = 0
  BY <1>1, <1>2, <1>3 DEF Phase, Allocating
<1>5. UNCHANGED <<free_map, diskVars, open_inodes, running, lost>>
  BY DEF LeavePwd, lostVars
<1>6. CASE node[inode[frame[p].inode].sector].type = "dir"
  <2> DEFINE g == [frame[p] EXCEPT !.pc = "setpwd"]
  <2>1. pwd' = [pwd EXCEPT ![p] = Nil] /\ Close(p, pwd[p], g)
    BY <1>6 DEF LeavePwd
  <2>2. /\ g.pc = "setpwd" /\ g.call = "chdir" /\ g.dirs = << >> /\ g.sector = 0 /\ g.block = 0
        /\ g.inode = frame[p].inode /\ g \in Frame
    BY <1>1, <1>2, <1>3, <1>4 DEF Frame, PC
  <2> HIDE DEF g
  <2>3. Where(g) = "setpwd" /\ ~MadeDir(g) /\ g.pc \in PC \ Allocating
    BY <2>2 DEF Where, MadeDir, PC, Allocating
  <2>4. Phase(g) /\ Written(node, entries, Tree, inode, g)
    BY <1>6, <2>2, <2>3 DEF Phase, Written, Allocating
  <2>5. pwd'[p] = Nil /\ Nil \notin Slot /\ \A q \in Process \ {p} : pwd'[q] = pwd[q]
    BY <2>1, FileSystemAssumption DEF FsTypeOK, MemoryTypes
  <2> QED
    BY <1>2, <1>3, <1>4, <1>5, <2>1, <2>2, <2>3, <2>4, <2>5, CloseTree
<1>7. CASE node[inode[frame[p].inode].sector].type # "dir"
  <2>1. frame' = [frame EXCEPT ![p] = Outside] /\ UNCHANGED <<pwd, inode>>
    BY <1>7 DEF LeavePwd, Return, Resume
  <2>2. SectorsStay /\ PwdStays(p)
    BY <1>5, <2>1, SectorsSame DEF PwdStays
  <2>3. Onward(p, Outside)
    BY <1>2, <1>5, <2>1, <2>2, OutsideTree DEF Onward
  <2>4. Takes(frame[p]) = {}
    BY <1>3 DEF Takes
  <2> QED
    BY <1>3, <1>5, <2>3, <2>4, OutsideTree, OnwardStep DEF Allocating
<1> QED
  BY <1>6, <1>7

(* A call that made nothing returns. *)
LEMMA ReturnTree ==
  ASSUME FsTypeOK, RefInv, TreeInv, NEW p \in Process, Return(p), ~MadeDir(frame[p]),
         frame[p].pc \notin Allocating \cup {"outside", "unlist", "saverelease"},
         SectorsStay, PwdStays(p), UNCHANGED <<free_map, diskVars, lost, running>>
  PROVE  TreeInv'
<1>1. frame' = [frame EXCEPT ![p] = Outside] /\ running
  BY InCallTree DEF Return, Resume
<1>2. Onward(p, Outside)
  BY <1>1, OutsideTree DEF Onward
<1>3. Takes(frame[p]) = {} /\ frame[p].pc \notin {"save", "saverelease"}
  BY DEF Takes, Allocating
<1> QED
  BY <1>2, <1>3, OutsideTree, OnwardStep DEF Allocating

LEMMA KeepFileTree ==
  ASSUME FsTypeOK, RefInv, TreeInv, NEW p \in Process, KeepFile(p)
  PROVE  TreeInv'
<1>1. frame[p].pc = "opened" /\ frame[p].call = "open"
  BY DEF KeepFile, Opened, At
<1>2. ~MadeDir(frame[p]) /\ frame[p].pc \notin Allocating \cup {"outside", "unlist", "saverelease"}
  BY <1>1 DEF MadeDir, Allocating
<1>3. SectorsStay /\ PwdStays(p)
  BY SectorsSame DEF PwdStays, KeepFile, memoryVars
<1> QED
  BY <1>2, <1>3, ReturnTree DEF KeepFile, lostVars

LEMMA SetPwdTree ==
  ASSUME FsTypeOK, RefInv, TreeInv, NEW p \in Process, SetPwd(p)
  PROVE  TreeInv'
<1>1. frame[p].pc = "setpwd"
  BY DEF SetPwd, At
<1>2. ~MadeDir(frame[p]) /\ frame[p].pc \notin Allocating \cup {"outside", "unlist", "saverelease"}
  BY <1>1 DEF MadeDir, Linked, Where, Allocating
<1>3. /\ Where(frame[p]) = "setpwd" /\ frame[p].inode \in Slot
      /\ node[inode[frame[p].inode].sector].type = "dir"
  BY <1>1, InCallTree, InUse DEF Written
<1>4. \A s \in Slot : inode'[s].sector = inode[s].sector
  BY ReopenSectors DEF SetPwd
<1>5. SectorsStay
  BY <1>4, SectorsSame DEF SetPwd
<1>6. PwdStays(p)
  <2>1. pwd' = [pwd EXCEPT ![p] = frame[p].inode] /\ UNCHANGED node
    BY DEF SetPwd, diskVars
  <2>2. pwd'[p] = frame[p].inode /\ \A q \in Process \ {p} : pwd'[q] = pwd[q]
    BY <2>1 DEF FsTypeOK, MemoryTypes
  <2> QED
    BY <1>3, <1>4, <2>1, <2>2 DEF PwdStays
<1> QED
  BY <1>2, <1>5, <1>6, ReturnTree DEF SetPwd, lostVars

LEMMA BeginTree ==
  ASSUME FsTypeOK, RefInv, TreeInv, NEW p \in Process, NEW call \in {"mkdir", "open", "chdir"},
         NEW name \in EntryName, call = "mkdir" => name \in Name,
         NEW absolute \in BOOLEAN, Begin(p, call, name, absolute)
  PROVE  TreeInv'
<1>1. frame[p].pc = "outside" /\ running /\ frame[p] \in Frame /\ Shape(frame[p]) /\ Phase(frame[p])
  BY DEF Begin, At, FsTypeOK, MemoryTypes, RefInv, TreeInv
<1>2. Where(frame[p]) = "outside" /\ ~MadeDir(frame[p]) /\ Takes(frame[p]) = {}
  BY <1>1 DEF Where, MadeDir, Linked, Takes, Allocating
<1>3. pwd[p] \in Slot
  BY <1>1, <1>2 DEF RefInv, Started
<1>4. PICK s \in Slot : s = (IF absolute THEN 1 ELSE pwd[p]) /\ node[inode[s].sector].type = "dir"
  <2>1. node[inode[1].sector].type = "dir" /\ 1 \in Slot
    BY InUse DEF TreeInv, OpenInTree, Rooted
  <2>2. node[inode[pwd[p]].sector].type = "dir"
    BY <1>3 DEF TreeInv, OpenInTree
  <2> QED
    BY <1>3, <2>1, <2>2
<1> DEFINE g == [Outside EXCEPT !.pc = IF call = "mkdir" THEN "scan" ELSE "lookup",
                       !.call = call, !.name = name, !.dirs = <<s>>]
<1>5. Reopen(p, s) /\ Resume(p, g)
      /\ UNCHANGED <<free_map, diskVars, open_inodes, heap, holdVars, running, lost>>
  BY <1>4 DEF Begin, lostVars
<1>6. /\ g.pc = (IF call = "mkdir" THEN "scan" ELSE "lookup") /\ g.name = name
      /\ g.dirs = <<s>> /\ g.call = call /\ g.sector = 0 /\ g.block = 0
  BY DEF Outside
<1> HIDE DEF g
<1>7. Where(g) = g.pc /\ ~MadeDir(g)
  BY <1>6 DEF Where, MadeDir, Linked
<1>8. Phase(g) /\ Takes(g) = {}
  BY <1>6, <1>7 DEF Phase, Takes, Allocating
<1>9. \A t \in Slot : inode'[t].sector = inode[t].sector
  BY <1>5, ReopenSectors
<1>10. SectorsStay /\ PwdStays(p)
  BY <1>5, <1>9, SectorsSame DEF PwdStays, holdVars
<1>11. Written(node', entries', Tree', inode', g)
  <2>1. \A i \in DOMAIN g.dirs : g.dirs[i] = s
    BY <1>6
  <2>2. node' = node /\ inode'[s].sector = inode[s].sector
    BY <1>5, <1>9 DEF diskVars
  <2>3. \A i \in DOMAIN g.dirs : node'[inode'[g.dirs[i]].sector].type = "dir"
    BY <1>4, <2>1, <2>2
  <2> QED
    BY <1>6, <1>7, <2>3 DEF Written
<1>12. Onward(p, g)
  BY <1>1, <1>5, <1>6, <1>8, <1>10, <1>11 DEF Onward, Resume
<1> QED
  BY <1>1, <1>2, <1>5, <1>6, <1>8, <1>12, OnwardStep

LEMMA ScanFreeMapTree ==
  ASSUME FsTypeOK, RefInv, TreeInv, NEW p \in Process, ScanFreeMap(p)
  PROVE  TreeInv'
<1>1. frame[p].pc = "scan"
  BY DEF ScanFreeMap, At
<1>2. /\ frame[p] \in Frame /\ Shape(frame[p]) /\ Where(frame[p]) = "scan" /\ running
      /\ Phase(frame[p]) /\ Written(node, entries, Tree, inode, frame[p])
  BY <1>1, InCallTree
<1>3. frame[p].block = 0 /\ frame[p].call = "mkdir" /\ frame[p].name \in Name /\ ~MadeDir(frame[p])
  BY <1>2 DEF Phase, Allocating, MadeDir, Linked
<1>4. PICK x \in FsSector, g \in Frame :
        /\ Resume(p, g)
        /\ \/ g = [frame[p] EXCEPT !.pc = "flip", !.pick = x]
           \/ g = [frame[p] EXCEPT !.pc = "closedir"] /\ frame[p].sector = 0
           \/ g = [frame[p] EXCEPT !.pc = "makeinode"] /\ frame[p].sector # 0
  <2>1. CASE Unused # {}
    <3>1. [frame[p] EXCEPT !.pc = "flip", !.pick = Lowest(Unused)] \in Frame
      BY <1>2, <2>1, LowestUnused DEF Frame, PC
    <3> QED
      BY <2>1, <3>1, LowestUnused DEF ScanFreeMap
  <2>2. CASE Unused = {}
    <3>1. /\ [frame[p] EXCEPT !.pc = "closedir"] \in Frame
          /\ [frame[p] EXCEPT !.pc = "makeinode"] \in Frame
      BY <1>2 DEF Frame, PC
    <3> QED
      BY <2>2, <3>1, ZeroSector DEF ScanFreeMap
  <2> QED
    BY <2>1, <2>2
<1>5. /\ g.pc \in {"flip", "closedir", "makeinode"} /\ g.call = "mkdir" /\ g.name \in Name
      /\ g.sector = frame[p].sector /\ g.block = 0 /\ g.dirs = frame[p].dirs
      /\ (g.pc = "closedir" => g.sector = 0) /\ (g.pc = "makeinode" => g.sector # 0)
  BY <1>2, <1>3, <1>4 DEF Frame
<1>6. Where(g) = g.pc /\ ~MadeDir(g)
  BY <1>5 DEF Where, MadeDir, Linked
<1>7. Phase(g)
  BY <1>5, <1>6 DEF Phase, Allocating
<1>8. Takes(g) = Takes(frame[p])
  BY <1>1, <1>3, <1>5 DEF Takes, Allocating
<1>9. UNCHANGED <<free_map, diskVars, memoryVars, holdVars, running, lost>>
  BY DEF ScanFreeMap, lostVars
<1>10. SectorsStay /\ PwdStays(p) /\ Tree' = Tree /\ UNCHANGED <<node, entries, inode>>
  BY <1>9, SectorsSame, DiskAlone DEF PwdStays, memoryVars, holdVars, diskVars
<1>11. Written(node', entries', Tree', inode', g)
  <2>1. \A i \in DOMAIN g.dirs : node[inode[g.dirs[i]].sector].type = "dir"
    BY <1>2, <1>5 DEF Written
  <2>2. Written(node, entries, Tree, inode, g)
    BY <1>5, <1>6, <2>1 DEF Written
  <2> QED
    BY <1>10, <2>2
<1>12. Onward(p, g)
  BY <1>2, <1>4, <1>5, <1>7, <1>9, <1>10, <1>11 DEF Onward, Resume
<1> QED
  BY <1>1, <1>3, <1>5, <1>8, <1>9, <1>12, OnwardStep DEF Allocating

LEMMA LookupTree ==
  ASSUME FsTypeOK, RefInv, TreeInv, NEW p \in Process, Lookup(p)
  PROVE  TreeInv'
<1>1. frame[p].pc = "lookup"
  BY DEF Lookup, At
<1>2. /\ frame[p] \in Frame /\ Shape(frame[p]) /\ Where(frame[p]) = "lookup" /\ running
      /\ Phase(frame[p]) /\ Written(node, entries, Tree, inode, frame[p])
  BY <1>1, InCallTree
<1>3. PICK d \in Slot : /\ frame[p].dirs = IF frame[p].call = "mkdir" THEN <<d, d>> ELSE <<d>>
                        /\ frame[p].name \in EntryName /\ frame[p].inode = Nil
  BY <1>2 DEF Shape, Naming
<1>4. DirOf(p) = d /\ frame[p].dirs[1] = d /\ 1 \in DOMAIN frame[p].dirs
  BY <1>3 DEF DirOf
<1>5. inode[d].sector \in Tree /\ node[inode[d].sector].type = "dir"
  BY <1>2, <1>4, InUse DEF TreeInv, OpenInTree, Written
<1>6. PICK sector : /\ sector = Entry(inode[d].sector, frame[p].name)
                    /\ sector \in Tree \cup {0}
                    /\ MadeDir(frame[p]) => sector = frame[p].sector
  <2>1. PICK c \in Tree : c = inode[d].sector /\ node[c].type = "dir"
    BY <1>5
  <2>2. Ent(node, entries, c, frame[p].name) \in Tree \cup {0}
    BY <1>3, <2>1, DotsLead
  <2>3. Entry(c, frame[p].name) = Ent(node, entries, c, frame[p].name)
    BY DEF Entry, Ent
  <2>4. MadeDir(frame[p]) => Ent(node, entries, c, frame[p].name) = frame[p].sector
    BY <1>2, <1>4, <2>1 DEF Written, Parent
  <2> QED
    BY <2>1, <2>2, <2>3, <2>4
<1> DEFINE f == [frame[p] EXCEPT !.name = Nil, !.pc = "closelookup"]
           h == [f EXCEPT !.pc = "insert", !.pick = sector]
<1>7. /\ UNCHANGED <<free_map, diskVars, open_inodes, heap, holdVars, running, lost>>
      /\ \/ Resume(p, f) /\ UNCHANGED inode
         \/ sector # 0 /\ Resume(p, h) /\ UNCHANGED inode
         \/ \E s \in open_inodes : /\ inode[s].sector = sector /\ Reopen(p, s)
                                   /\ Resume(p, [f EXCEPT !.inode = s])
  BY <1>4, <1>6 DEF Lookup, lostVars
<1>8. \A t \in Slot : inode'[t].sector = inode[t].sector
  BY <1>7, ReopenSectors
<1>9. SectorsStay /\ PwdStays(p) /\ Tree' = Tree /\ UNCHANGED <<node, entries>>
  BY <1>7, <1>8, SectorsSame, DiskAlone DEF PwdStays, holdVars, diskVars
<1>10. ASSUME NEW g \in Frame, Resume(p, g), g.pc \in {"closelookup", "insert"},
              g.call = frame[p].call, g.dirs = frame[p].dirs, g.sector = frame[p].sector,
              g.block = frame[p].block,
              g.pc = "insert" => g.pick = sector /\ sector # 0 /\ g.inode = Nil,
              g.inode \in Slot => inode[g.inode].sector = sector
       PROVE  TreeInv'
  <2>1. Where(g) = g.pc /\ Nil \notin Slot
    BY <1>10, FileSystemAssumption DEF Where
  <2>2. (MadeDir(g) <=> g.call = "mkdir") /\ (MadeDir(frame[p]) <=> g.call = "mkdir")
    BY <1>2, <1>10, <2>1 DEF MadeDir, Linked
  <2>3. Phase(g)
    <3>1. MadeDir(g) => g.sector # 0
      BY <1>2, <1>10, <2>2 DEF Phase
    <3>2. ~MadeDir(g) => g.sector = 0 /\ g.block = 0
      BY <1>2, <1>10, <2>2 DEF Phase, Allocating
    <3> QED
      BY <1>6, <1>10, <2>1, <2>2, <3>1, <3>2 DEF Phase, Allocating
  <2>4. Written(node, entries, Tree, inode, g)
    <3>1. Parent(inode, g) = Parent(inode, frame[p])
      BY <1>10 DEF Parent
    <3>2. \A i \in DOMAIN g.dirs : node[inode[g.dirs[i]].sector].type = "dir"
      BY <1>2, <1>10 DEF Written
    <3>3. MadeDir(g) =>
            /\ g.sector \in Tree /\ node[g.sector].type = "dir"
            /\ \E n \in Name : Ent(node, entries, Parent(inode, g), n) = g.sector
            /\ g.inode \in Slot => inode[g.inode].sector = g.sector
            /\ Ent(node, entries, g.sector, ".") = 0 /\ Ent(node, entries, g.sector, "..") = 0
      BY <1>2, <1>6, <1>10, <2>2, <3>1 DEF Written, Linked, NoDots
    <3> QED
      BY <1>6, <1>10, <2>1, <3>2, <3>3 DEF Written, NoDots
  <2>5. Written(node', entries', Tree', inode', g)
    <3>1. MadeDir(g) /\ Where(g) \in Linked => 1 \in DOMAIN g.dirs
      BY <1>4, <1>10
    <3>2. Written(node, entries, Tree, inode', g)
      <4>1. PICK N, E, T, I, J : N = node /\ E = entries /\ T = Tree /\ I = inode /\ J = inode'
        OBVIOUS
      <4>2. Written(N, E, T, J, g)
        BY <1>8, <1>10, <2>1, <2>4, <3>1, <4>1, WrittenSectors
      <4> QED
        BY <4>1, <4>2
    <3> QED
      BY <1>9, <3>2
  <2>6. Onward(p, g)
    BY <1>2, <1>7, <1>9, <1>10, <2>3, <2>5 DEF Onward, Resume
  <2>7. Takes(g) = Takes(frame[p]) /\ g.pc \notin Allocating
    BY <1>1, <1>10 DEF Takes, Allocating
  <2> QED
    BY <1>7, <1>10, <2>2, <2>6, <2>7, OnwardStep
<1>11. /\ f \in Frame /\ f.pc = "closelookup" /\ f.call = frame[p].call /\ f.dirs = frame[p].dirs
       /\ f.sector = frame[p].sector /\ f.block = frame[p].block /\ f.inode = Nil
  <2>1. PICK r \in Frame : r = frame[p]
    BY <1>2
  <2>2. [r EXCEPT !.name = Nil, !.pc = "closelookup"] \in Frame
    BY ONLY r \in Frame DEF Frame, PC
  <2>3. f \in Frame
    BY ONLY <2>1, <2>2
  <2>4. f.inode = Nil
    BY <1>2, <1>3
  <2> QED
    BY <1>2, <2>3, <2>4 DEF Frame
<1>12. /\ sector # 0 => h \in Frame
       /\ h.pc = "insert" /\ h.call = frame[p].call /\ h.dirs = frame[p].dirs
       /\ h.sector = frame[p].sector /\ h.block = frame[p].block /\ h.inode = Nil
       /\ h.pick = sector
  <2>1. sector # 0 => sector \in FsSector
    BY <1>6, TreeFacts
  <2> HIDE DEF f
  <2>2. "insert" \in PC \cup {"unlist"}
    BY DEF PC
  <2> QED
    BY <1>11, <2>1, <2>2 DEF Frame
<1>13. CASE Resume(p, f) /\ UNCHANGED inode
  <2> PICK g : g = f
    OBVIOUS
  <2> HIDE DEF f, h
  <2> QED
    BY <1>10, <1>11, <1>13, FileSystemAssumption
<1>14. CASE sector # 0 /\ Resume(p, h) /\ UNCHANGED inode
  <2> PICK g : g = h
    OBVIOUS
  <2> HIDE DEF f, h
  <2> QED
    BY <1>10, <1>12, <1>14, FileSystemAssumption
<1>15. ASSUME NEW s \in open_inodes, inode[s].sector = sector, Reopen(p, s),
              Resume(p, [f EXCEPT !.inode = s])
       PROVE  TreeInv'
  <2> DEFINE k == [f EXCEPT !.inode = s]
  <2>1. s \in Slot
    BY DEF FsTypeOK, MemoryTypes
  <2> HIDE DEF f
  <2>2. /\ k \in Frame /\ k.pc = "closelookup" /\ k.call = frame[p].call /\ k.dirs = frame[p].dirs
        /\ k.sector = frame[p].sector /\ k.block = frame[p].block /\ k.inode = s
    BY <1>11, <2>1 DEF Frame, OptSlot
  <2> PICK g : g = k
    OBVIOUS
  <2> HIDE DEF k
  <2>3. Resume(p, g)
    BY <1>15 DEF k
  <2> QED
    BY <1>10, <1>15, <2>2, <2>3
<1> HIDE DEF f, h
<1> QED
  BY <1>7, <1>13, <1>14, <1>15

(* A call that is in the middle of inode_open() goes on as g. *)
LEMMA InsertGoes ==
  ASSUME FsTypeOK, RefInv, TreeInv, NEW p \in Process, frame[p].pc \in {"insert"} \cup Inserting,
         NEW g \in Frame, frame' = [frame EXCEPT ![p] = g], SectorsStay,
         g.pc \in {"closelookup"} \cup Inserting, g.call = frame[p].call,
         g.dirs = frame[p].dirs, g.sector = frame[p].sector, g.block = frame[p].block,
         g.pc \in Inserting => g.pick = frame[p].pick,
         g.inode \in Slot => inode'[g.inode].sector = frame[p].pick,
         UNCHANGED <<free_map, diskVars, pwd, running, lost>>
  PROVE  TreeInv'
<1>1. /\ frame[p] \in Frame /\ Where(frame[p]) = frame[p].pc /\ running
      /\ Phase(frame[p]) /\ Written(node, entries, Tree, inode, frame[p])
  BY InCallTree DEF Inserting
<1>2. Where(g) = g.pc
  BY DEF Where, Inserting
<1>3. (MadeDir(g) <=> g.call = "mkdir") /\ (MadeDir(frame[p]) <=> g.call = "mkdir")
  BY <1>1, <1>2 DEF MadeDir, Linked, Inserting
<1>4. frame[p].pick \in Tree /\ (MadeDir(frame[p]) => frame[p].pick = frame[p].sector)
  BY <1>1 DEF Written, Phase, Inserting
<1>5. PwdStays(p) /\ Tree' = Tree /\ UNCHANGED <<node, entries>>
  BY DiskAlone DEF PwdStays, diskVars
<1>6. g.pc \notin Allocating \cup {"unlist", "lookup", "setpwd"}
  BY DEF Inserting, Allocating
<1>7. Phase(g)
  <2>1. MadeDir(g) => g.sector # 0
    BY <1>1, <1>3 DEF Phase
  <2>2. ~MadeDir(g) => g.sector = 0 /\ g.block = 0
    BY <1>1, <1>3 DEF Phase, Allocating, Inserting
  <2>3. MadeDir(g) /\ g.pc \in Inserting => g.pick = g.sector
    BY <1>3, <1>4
  <2> QED
    BY <1>2, <1>6, <2>1, <2>2, <2>3 DEF Phase, Allocating, Inserting
<1>8. \A i \in DOMAIN g.dirs : inode'[g.dirs[i]].sector = inode[g.dirs[i]].sector
  BY InUse DEF SectorsStay
<1>9. Written(node, entries, Tree, inode', g)
  <2>1. MadeDir(g) => Parent(inode', g) = Parent(inode, frame[p])
    <3>1. MadeDir(g) => 1 \in DOMAIN g.dirs
      BY <1>1, <1>3, InUse DEF Linked, Inserting
    <3> QED
      BY <1>8, <3>1 DEF Parent
  <2>2. \A i \in DOMAIN g.dirs : node[inode'[g.dirs[i]].sector].type = "dir"
    BY <1>1, <1>8 DEF Written
  <2>3. MadeDir(g) =>
          /\ g.sector \in Tree /\ node[g.sector].type = "dir"
          /\ \E n \in Name : Ent(node, entries, Parent(inode', g), n) = g.sector
          /\ g.inode \in Slot => inode'[g.inode].sector = g.sector
          /\ Ent(node, entries, g.sector, ".") = 0 /\ Ent(node, entries, g.sector, "..") = 0
    BY <1>1, <1>3, <1>4, <2>1 DEF Written, Linked, NoDots, Inserting
  <2>4. g.pc \in NoDots /\ (g.pc \in {"insert", "link", "setsector", "setcount"} => g.pick \in Tree)
    BY <1>4 DEF NoDots, Inserting
  <2> QED
    BY <1>2, <1>6, <2>2, <2>3, <2>4 DEF Written, Allocating
<1>10. Onward(p, g)
  BY <1>1, <1>5, <1>7, <1>9 DEF Onward
<1>11. Takes(g) = Takes(frame[p])
  BY <1>6 DEF Takes, Allocating, Inserting
<1> QED
  BY <1>3, <1>10, <1>11, OnwardStep

LEMMA AllocateTree ==
  ASSUME FsTypeOK, RefInv, TreeInv, NEW p \in Process, Allocate(p)
  PROVE  TreeInv'
<1>1. frame[p].pc = "insert"
  BY DEF Allocate, At
<1>2. frame[p] \in Frame /\ frame[p].inode = Nil /\ Nil \notin Slot
  BY <1>1, InCallTree, FileSystemAssumption DEF Shape, Where
<1>3. UNCHANGED <<free_map, diskVars, inode, open_inodes, pwd, running, lost>>
  BY DEF Allocate, holdVars, lostVars
<1>4. SectorsStay
  BY <1>3, SectorsSame
<1>5. PICK g \in Frame :
        /\ frame' = [frame EXCEPT ![p] = g] /\ g.pc \in {"closelookup", "link"}
        /\ g.call = frame[p].call /\ g.dirs = frame[p].dirs /\ g.sector = frame[p].sector
        /\ g.block = frame[p].block /\ g.inode = Nil
        /\ g.pc = "link" => g.pick = frame[p].pick
  <2> DEFINE f == [frame[p] EXCEPT !.pc = "closelookup", !.pick = 0]
             h == [frame[p] EXCEPT !.pc = "link", !.making = Head(heap)]
  <2>0. {"closelookup", "link"} \subseteq PC \cup {"unlist"}
    BY DEF PC
  <2>1. /\ f \in Frame /\ f.pc = "closelookup" /\ f.call = frame[p].call
        /\ f.dirs = frame[p].dirs /\ f.sector = frame[p].sector /\ f.block = frame[p].block
        /\ f.inode = Nil
    BY <1>2, <2>0, ZeroSector DEF Frame
  <2>2. ASSUME heap # << >>
        PROVE  /\ h \in Frame /\ h.pc = "link" /\ h.call = frame[p].call
               /\ h.dirs = frame[p].dirs /\ h.sector = frame[p].sector
               /\ h.block = frame[p].block /\ h.inode = Nil /\ h.pick = frame[p].pick
    <3>1. Head(heap) \in OptSlot
      BY <2>2 DEF FsTypeOK, MemoryTypes, OptSlot
    <3> QED
      BY <1>2, <2>0, <3>1 DEF Frame
  <2>3. \/ frame' = [frame EXCEPT ![p] = f]
        \/ heap # << >> /\ frame' = [frame EXCEPT ![p] = h]
    BY DEF Allocate, Resume
  <2> HIDE DEF f, h
  <2> QED
    BY <2>1, <2>2, <2>3
<1>6. frame[p].pc \in {"insert"} \cup Inserting /\ g.pc \in {"closelookup"} \cup Inserting
      /\ (g.pc \in Inserting => g.pick = frame[p].pick)
  BY <1>1, <1>5 DEF Inserting
<1> QED
  BY ONLY FsTypeOK, RefInv, TreeInv, p \in Process, g \in Frame, <1>2, <1>3, <1>4, <1>5, <1>6, InsertGoes

LEMMA LinkTree ==
  ASSUME FsTypeOK, RefInv, TreeInv, NEW p \in Process, Link(p)
  PROVE  TreeInv'
<1>1. frame[p].pc = "link" /\ frame[p].pc \in Inserting
  BY DEF Link, At, Inserting
<1>2. frame[p] \in Frame /\ frame[p].inode = Nil /\ Nil \notin Slot
  BY <1>1, InInsert, FileSystemAssumption
<1>3. PICK s \in Slot : s = frame[p].making /\ Makes(p, s)
  BY <1>1, InInsert
<1> DEFINE g == [frame[p] EXCEPT !.pc = "setsector"]
<1>4. /\ g \in Frame /\ g.pc = "setsector" /\ g.call = frame[p].call /\ g.dirs = frame[p].dirs
      /\ g.sector = frame[p].sector /\ g.block = frame[p].block /\ g.inode = Nil
      /\ g.pick = frame[p].pick
  BY <1>2 DEF Frame, PC
<1>5. /\ frame' = [frame EXCEPT ![p] = g] /\ open_inodes' = open_inodes \cup {s}
      /\ UNCHANGED <<free_map, diskVars, inode, pwd, running, lost>>
  BY <1>3 DEF Link, Goto, holdVars, lostVars
<1> HIDE DEF g
<1>6. SectorsStay
  <2>1. inode[s].sector = 0
    BY <1>1, <1>3 DEF Makes, RefInv, Unmade, NoInode
  <2> QED
    BY <1>5, <2>1 DEF SectorsStay
<1>7. frame[p].pc \in {"insert"} \cup Inserting /\ g.pc \in {"closelookup"} \cup Inserting
  BY <1>1, <1>4 DEF Inserting
<1> QED
  BY ONLY FsTypeOK, RefInv, TreeInv, p \in Process, <1>2, <1>4, <1>5, <1>6, <1>7, InsertGoes

LEMMA SetSectorTree ==
  ASSUME FsTypeOK, RefInv, TreeInv, NEW p \in Process, SetSector(p)
  PROVE  TreeInv'
<1>1. frame[p].pc = "setsector" /\ frame[p].pc \in Inserting
  BY DEF SetSector, At, Inserting
<1>2. /\ frame[p] \in Frame /\ frame[p].inode = Nil /\ Nil \notin Slot
      /\ frame[p].pick \in FsSector
  BY <1>1, InInsert, FileSystemAssumption
<1>3. PICK s \in Slot : s = frame[p].making /\ Makes(p, s)
  BY <1>1, InInsert
<1> DEFINE g == [frame[p] EXCEPT !.pc = "setcount"]
<1>4. /\ g \in Frame /\ g.pc = "setcount" /\ g.call = frame[p].call /\ g.dirs = frame[p].dirs
      /\ g.sector = frame[p].sector /\ g.block = frame[p].block /\ g.inode = Nil
      /\ g.pick = frame[p].pick
  BY <1>2 DEF Frame, PC
<1>5. /\ frame' = [frame EXCEPT ![p] = g]
      /\ inode' = [inode EXCEPT ![s].sector = frame[p].pick]
      /\ UNCHANGED <<free_map, diskVars, open_inodes, pwd, running, lost>>
  BY <1>3 DEF SetSector, Goto, holdVars, lostVars
<1> HIDE DEF g
<1>6. SectorsStay
  <2>1. frame[p].pick \in Tree /\ Tree' = Tree
    <3>1. frame[p].pick \in Tree
      BY <1>1, InCallTree DEF Written
    <3> QED
      BY <1>5, <3>1, DiskAlone DEF diskVars
  <2>2. /\ \A t \in Slot \ {s} : inode'[t].sector = inode[t].sector
        /\ inode'[s].sector = frame[p].pick
    BY <1>5 DEF FsTypeOK, MemoryTypes
  <2>3. References(s) = 0 /\ open_inodes \subseteq Slot
    BY <1>3 DEF Makes, FsTypeOK, MemoryTypes
  <2> QED
    BY <1>5, <2>1, <2>2, <2>3 DEF SectorsStay
<1>7. frame[p].pc \in {"insert"} \cup Inserting /\ g.pc \in {"closelookup"} \cup Inserting
  BY <1>1, <1>4 DEF Inserting
<1> QED
  BY ONLY FsTypeOK, RefInv, TreeInv, p \in Process, <1>2, <1>4, <1>5, <1>6, <1>7, InsertGoes

LEMMA SetCountTree ==
  ASSUME FsTypeOK, RefInv, TreeInv, NEW p \in Process, SetCount(p)
  PROVE  TreeInv'
<1>1. frame[p].pc = "setcount" /\ frame[p].pc \in Inserting
  BY DEF SetCount, At, Inserting
<1>2. frame[p] \in Frame
  BY <1>1, InInsert
<1>3. PICK s \in Slot : s = frame[p].making /\ Makes(p, s)
  BY <1>1, InInsert
<1> DEFINE g == [frame[p] EXCEPT !.pc = "closelookup", !.pick = 0, !.making = Nil, !.inode = s]
<1>4. /\ g \in Frame /\ g.pc = "closelookup" /\ g.call = frame[p].call /\ g.dirs = frame[p].dirs
      /\ g.sector = frame[p].sector /\ g.block = frame[p].block /\ g.inode = s
  <2>1. s \in OptSlot /\ Nil \in OptSlot /\ "closelookup" \in PC \cup {"unlist"}
    BY DEF OptSlot, PC
  <2> QED
    BY <1>2, <2>1, ZeroSector DEF Frame
<1>5. /\ frame' = [frame EXCEPT ![p] = g] /\ inode' = [inode EXCEPT ![s].cnt = 1]
      /\ UNCHANGED <<free_map, diskVars, open_inodes, pwd, running, lost>>
  BY <1>3 DEF SetCount, Resume, lostVars
<1> HIDE DEF g
<1>6. \A t \in Slot : inode'[t].sector = inode[t].sector
  BY <1>5 DEF FsTypeOK, MemoryTypes
<1>7. SectorsStay /\ inode'[s].sector = frame[p].pick
  BY <1>1, <1>3, <1>5, <1>6, SectorsSame DEF Makes
<1>8. /\ frame[p].pc \in {"insert"} \cup Inserting /\ g.pc \in {"closelookup"} \cup Inserting
      /\ g.pc \notin Inserting
  BY <1>1, <1>4 DEF Inserting
<1> QED
  BY ONLY FsTypeOK, RefInv, TreeInv, p \in Process, <1>4, <1>5, <1>7, <1>8, InsertGoes

LEMMA UnlistTree ==
  ASSUME FsTypeOK, RefInv, TreeInv, NEW p \in Process, Unlist(p), ~stopped'
  PROVE  TreeInv'
<1>1. frame[p] \in Frame /\ frame[p].pc = "unlist" /\ Shape(frame[p]) /\ running /\ Phase(frame[p])
  BY DEF Unlist, At, FsTypeOK, MemoryTypes, RefInv, Started, TreeInv
<1>2. PICK s \in Slot : s = frame[p].closing
  BY <1>1 DEF Shape
<1>3. frame[p].next \in PC /\ Where(frame[p]) = frame[p].next /\ frame[p].next \notin Allocating
  BY <1>1 DEF Shape, Where, Phase
<1> DEFINE g == [frame[p] EXCEPT !.pc = frame[p].next, !.closing = Nil, !.next = Nil]
<1>4. /\ open_inodes' = open_inodes \ {s} /\ inode' = [inode EXCEPT ![s] = NoInode]
      /\ frame' = [frame EXCEPT ![p] = g] /\ ~ (References(s) > 0)
      /\ UNCHANGED <<free_map, diskVars, pwd, fds, leaked, running, lost>>
  BY <1>2 DEF Unlist, Resume, lostVars
<1>5. /\ g.pc = frame[p].next /\ g.dirs = frame[p].dirs /\ g.pick = frame[p].pick
      /\ g.inode = frame[p].inode /\ g.call = frame[p].call /\ g.name = frame[p].name
      /\ g.sector = frame[p].sector /\ g.block = frame[p].block
  BY <1>1 DEF Frame
<1> HIDE DEF g
<1>6. Like(g, frame[p]) /\ g.pc # "unlist"
  BY <1>3, <1>5 DEF Like, Where, PC
<1>7. MadeDir(g) = MadeDir(frame[p]) /\ Phase(g)
  BY <1>1, <1>6, LikeSame
<1>8. \A t \in Slot \ {s} : inode'[t].sector = inode[t].sector
  BY <1>4 DEF FsTypeOK, MemoryTypes
<1>9. SectorsStay
  BY <1>4, <1>8 DEF SectorsStay, FsTypeOK, MemoryTypes
<1>10. Tree' = Tree /\ TreeGrows /\ SameFor(p) /\ PwdStays(p)
  BY <1>4, DiskAlone DEF PwdStays, diskVars
<1>11. Written(node', entries', Tree', inode', g)
  <2>1. Written(node', entries', Tree', inode', frame[p])
    BY <1>9, <1>10, OthersWritten
  <2>2. PICK M, F, U, J : M = node' /\ F = entries' /\ U = Tree' /\ J = inode'
    OBVIOUS
  <2>3. Written(M, F, U, J, g)
    BY <1>6, <2>1, <2>2, LikeSame
  <2> QED
    BY <2>2, <2>3
<1>12. Onward(p, g)
  BY <1>1, <1>4, <1>5, <1>7, <1>9, <1>10, <1>11 DEF Onward
<1>13. Takes(g) = Takes(frame[p]) /\ g.pc \notin Allocating /\ frame[p].pc \notin {"save", "saverelease"}
  BY <1>1, <1>3, <1>5 DEF Takes, Allocating
<1> QED
  BY <1>4, <1>5, <1>7, <1>12, <1>13, OnwardStep

(* The processes start, each with the root as its working directory. *)
LEMMA RunTree ==
  ASSUME FsTypeOK, RefInv, TreeInv, Run
  PROVE  TreeInv'
<1>1. /\ ~running /\ running' /\ pwd' = [p \in Process |-> 1]
      /\ inode' = [inode EXCEPT ![1].cnt = inode[1].cnt + Cardinality(Process)]
      /\ UNCHANGED <<free_map, diskVars, open_inodes, frame, lost>>
  BY DEF Run, lostVars
<1>2. \A s \in Slot : inode'[s].sector = inode[s].sector
  <2>1. inode \in [Slot -> [sector : FsSector, cnt : Int]]
    BY DEF FsTypeOK, MemoryTypes
  <2>2. PICK n : n = inode[1].cnt + Cardinality(Process)
    OBVIOUS
  <2>3. inode' = [inode EXCEPT ![1].cnt = n]
    BY <1>1, <2>2
  <2> QED
    BY ONLY <2>1, <2>3
<1>3. SectorsStay
  BY <1>1, <1>2, SectorsSame
<1>4. Tree' = Tree /\ TreeGrows /\ (\A q : SameFor(q))
      /\ UNCHANGED <<node, entries, diskMap, free_map, lost>>
  BY <1>1, DiskAlone DEF diskVars
<1>5. \A q \in Process : Phase(frame'[q]) /\ Written(node', entries', Tree', inode', frame'[q])
  BY <1>1, <1>3, <1>4, OthersWritten DEF TreeInv
<1>6. OpenInTree(node', Tree', inode', open_inodes', pwd', running')
  <2>1. /\ \A s \in open_inodes : s \in Slot /\ inode[s].sector \in Tree \cup {0}
        /\ inode[1].sector = RootSector /\ 1 \in Slot
    BY FileSystemAssumption DEF TreeInv, OpenInTree, FsTypeOK, MemoryTypes, Slot
  <2>2. node[RootSector].type = "dir" /\ running' = TRUE
    BY <1>1 DEF TreeInv, Rooted, Run
  <2>3. \A q \in Process : pwd'[q] = 1
    BY <1>1
  <2>4. inode'[1].sector = RootSector
    BY <1>2, <2>1
  <2>5. \A s \in open_inodes' : inode'[s].sector \in Tree' \cup {0}
    BY <1>1, <1>2, <1>4, <2>1
  <2>6. \A q \in Process : pwd'[q] \in Slot => node'[inode'[pwd'[q]].sector].type = "dir"
    BY <1>4, <2>2, <2>3, <2>4
  <2> QED
    BY <2>2, <2>4, <2>5, <2>6 DEF OpenInTree
<1>7. /\ OneOwner(node, Tree, frame, lost, free_map)
      /\ Apart(frame) /\ Rooted(node, entries, Tree, frame)
  BY DEF TreeInv
<1>8. /\ OneOwner(node', Tree', frame', lost', free_map')
      /\ Apart(frame') /\ Rooted(node', entries', Tree', frame')
  BY <1>1, <1>4, <1>7
<1> QED
  BY <1>5, <1>6, <1>8 DEF TreeInv

-----------------------------------------------------------------------------
(* Steps that change the disk or the free map.                             *)

(* The other frames stay. *)
LEMMA Changed ==
  ASSUME FsTypeOK, NEW p \in Process, NEW g, frame' = [frame EXCEPT ![p] = g]
  PROVE  frame'[p] = g /\ \A q \in Process \ {p} : frame'[q] = frame[q]
  BY DEF FsTypeOK, MemoryTypes

(* Directories that calls make are in the tree. *)
LEMMA MadeInTree ==
  ASSUME TreeInv, NEW q \in Process, MadeDir(frame[q])
  PROVE  /\ frame[q].sector \in Tree /\ node[frame[q].sector].type = "dir"
         /\ frame[q].sector # 0
  BY DEF TreeInv, Written, Phase

(* Nobody else has the sector that a call takes. *)
LEMMA SectorAlone ==
  ASSUME FsTypeOK, TreeInv, NEW p \in Process, NEW x \in Takes(frame[p]), x # frame[p].sector
  PROVE  \A q \in Process : frame[q].sector # x
<1>1. SUFFICES ASSUME NEW q \in Process, frame[q].sector = x PROVE FALSE
  OBVIOUS
<1>2. x # 0 /\ x \in FsSector /\ q # p
  BY <1>1 DEF Takes, FsTypeOK, MemoryTypes, Frame
<1>3. Phase(frame[q]) /\ OneOwner(node, Tree, frame, lost, free_map)
  BY DEF TreeInv
<1>4. ~MadeDir(frame[q])
  BY <1>1, MadeInTree, TreeFacts
<1>5. Where(frame[q]) \in Allocating
  BY <1>1, <1>2, <1>3, <1>4 DEF Phase
<1>6. frame[q].pc \in Allocating
  BY <1>3, <1>5 DEF Phase, Where
<1>7. x \in Takes(frame[q])
  BY <1>1, <1>2, <1>6 DEF Takes
<1> QED
  BY <1>2, <1>3, <1>7 DEF OneOwner

(* A step after which the inodes and directories that paths lead to are    *)
(* the same.                                                               *)
LEMMA OffTree ==
  ASSUME FsTypeOK, TreeInv, FsTypeOK',
         \A t \in Tree : /\ node'[t] = node[t]
                         /\ entries'[node[t].block] = entries[node[t].block]
  PROVE  /\ Tree' = Tree /\ TreeGrows
         /\ \A d \in Tree, n \in EntryName : Ent(node', entries', d, n) = Ent(node, entries, d, n)
<1>1. PICK N, M, E, F, T : /\ N = node /\ M = node' /\ E = entries /\ F = entries'
                           /\ T = Tree /\ T = Reach(N, E)
  BY TreeIs
<1>2. N \in Nodes /\ M \in Nodes /\ E \in Blocks /\ F \in Blocks
  BY <1>1 DEF FsTypeOK, DiskTypes, Nodes, Blocks
<1>3. \A t \in T : M[t] = N[t] /\ F[N[t].block] = E[N[t].block]
  BY <1>1
<1>4. \A d \in T : M[d].type = N[d].type /\ (N[d].type = "dir" => Kids(M, F, d) = Kids(N, E, d))
  BY <1>3 DEF Kids
<1>5. Reach(M, F) = T
  BY <1>1, <1>2, <1>4, ReachSame
<1>6. Tree' = Tree
  BY <1>1, <1>5, TreeIs
<1>7. \A d \in T, n \in EntryName : Ent(M, F, d, n) = Ent(N, E, d, n)
  BY <1>3 DEF Ent
<1>8. \A d \in T, n \in Name : Ent(M, F, d, n) = Ent(N, E, d, n)
  BY <1>7 DEF EntryName
<1>9. TreeGrows
  BY <1>1, <1>3, <1>6, <1>8 DEF TreeGrows
<1> QED
  BY <1>1, <1>6, <1>7, <1>9

(* Then names and dots are, too. *)
LEMMA RootedOff ==
  ASSUME FsTypeOK, TreeInv, NEW p \in Process, NEW g, frame' = [frame EXCEPT ![p] = g],
         \A t \in Tree : node'[t] = node[t],
         \A d \in Tree, n \in EntryName : Ent(node', entries', d, n) = Ent(node, entries, d, n),
         Tree' = Tree,
         MadeDir(frame[p]) => MadeDir(g) /\ g.sector = frame[p].sector
  PROVE  Rooted(node', entries', Tree', frame')
<1>1. frame'[p] = g /\ \A q \in Process \ {p} : frame'[q] = frame[q]
  BY Changed
<1>2. PICK N, M, E, F, T, fr, gr : /\ N = node /\ M = node' /\ E = entries /\ F = entries'
                                   /\ T = Tree /\ fr = frame /\ gr = frame'
  OBVIOUS
<1>3. Rooted(N, E, T, fr) /\ RootSector \in T /\ 0 \notin T
  BY <1>2, TreeFacts DEF TreeInv
<1>4. \A t \in T : M[t] = N[t]
  BY <1>2
<1>5. \A d \in T, n \in EntryName : Ent(M, F, d, n) = Ent(N, E, d, n)
  BY <1>2
<1>6. \A q \in Process : MadeDir(fr[q]) => MadeDir(gr[q]) /\ gr[q].sector = fr[q].sector
  BY <1>1, <1>2
<1>7. Name \subseteq EntryName /\ "." \in EntryName /\ ".." \in EntryName
  BY DEF EntryName
<1>8. DotsRight(M, F, RootSector, RootSector)
  BY <1>3, <1>5, <1>7 DEF Rooted, DotsRight
<1>9. Rooted(M, F, T, gr)
  BY ONLY <1>3, <1>4, <1>5, <1>6, <1>7, <1>8, RootedStays
<1> QED
  BY <1>2, <1>9

LEMMA FlipBitTree ==
  ASSUME FsTypeOK, RefInv, TreeInv, NEW p \in Process, FlipBit(p), ~stopped'
  PROVE  TreeInv'
<1>1. frame[p].pc = "flip"
  BY DEF FlipBit, At
<1>2. /\ frame[p] \in Frame /\ Where(frame[p]) = "flip" /\ running
      /\ Phase(frame[p]) /\ Written(node, entries, Tree, inode, frame[p])
  BY <1>1, InCallTree
<1> DEFINE g == [frame[p] EXCEPT !.pc = "save"]
<1>3. /\ frame' = [frame EXCEPT ![p] = g] /\ free_map' = free_map \cup {frame[p].pick}
      /\ frame[p].pick \notin free_map
      /\ UNCHANGED <<diskVars, memoryVars, holdVars, running, lost>>
  BY DEF FlipBit, Goto, lostVars
<1>4. /\ g.pc = "save" /\ g.call = frame[p].call /\ g.name = frame[p].name
      /\ g.dirs = frame[p].dirs /\ g.pick = frame[p].pick /\ g.sector = frame[p].sector
      /\ g.block = frame[p].block
  BY <1>2 DEF Frame
<1> HIDE DEF g
<1>5. Where(g) = "save" /\ ~MadeDir(g) /\ ~MadeDir(frame[p])
  BY <1>2, <1>4 DEF Where, MadeDir, Linked
<1>6. OneOwner(node, Tree, frame, lost, free_map)
  BY DEF TreeInv
<1>7. /\ frame[p].call = "mkdir" /\ frame[p].name \in Name /\ frame[p].block = 0
      /\ frame[p].pick \in FsSector /\ frame[p].sector \in FsSector
  BY <1>2 DEF Phase, Allocating, Frame
<1>8. frame[p].pick # 0
  BY <1>3, <1>6, ZeroSector DEF OneOwner, Others
<1>9. Takes(frame[p]) = {frame[p].sector} \ {0} /\ Takes(g) = Takes(frame[p]) \cup {frame[p].pick}
  BY <1>1, <1>4, <1>7, <1>8 DEF Takes, Allocating
<1>10. frame[p].sector \in free_map \/ frame[p].sector = 0
  BY <1>6, <1>7, <1>9 DEF OneOwner
<1>11. Phase(g)
  BY <1>3, <1>4, <1>5, <1>7, <1>8, <1>10 DEF Phase, Allocating
<1>12. /\ SectorsStay /\ PwdStays(p) /\ Tree' = Tree /\ TreeGrows /\ \A q : SameFor(q)
       /\ UNCHANGED <<node, entries, inode, diskMap, lost>>
  BY <1>3, SectorsSame, DiskAlone DEF PwdStays, memoryVars, holdVars, diskVars
<1>13. Written(node', entries', Tree', inode', g)
  <2>1. \A i \in DOMAIN g.dirs : node[inode[g.dirs[i]].sector].type = "dir"
    BY <1>2, <1>4 DEF Written
  <2>2. Written(node, entries, Tree, inode, g)
    BY <1>4, <1>5, <2>1 DEF Written
  <2> QED
    BY <1>12, <2>2
<1>14. Onward(p, g)
  BY <1>2, <1>3, <1>4, <1>11, <1>12, <1>13 DEF Onward
<1>15. frame'[p] = g /\ \A q \in Process \ {p} : frame'[q] = frame[q]
  BY <1>3, Changed
<1>16. OneOwner(node', Tree', frame', lost', free_map')
  <2>1. PICK T, fr, gr, x : T = Tree /\ fr = frame /\ gr = frame' /\ x = frame[p].pick
    OBVIOUS
  <2>2. OneOwner(node, T, fr, lost, free_map) /\ x \notin free_map
    BY <1>3, <1>6, <2>1
  <2>3. /\ Takes(gr[p]) = Takes(fr[p]) \cup {x}
        /\ \A q \in Process \ {p} : Takes(gr[q]) = Takes(fr[q])
    BY <1>9, <1>15, <2>1
  <2>4. OneOwner(node, T, gr, lost, free_map \cup {x})
    BY ONLY <2>2, <2>3, OwnersTake, p \in Process
  <2> QED
    BY <1>3, <1>12, <2>1, <2>4
<1>18. Rooted(node', entries', Tree', frame')
  BY <1>3, <1>5, <1>12, RootedOff
<1> QED
  BY <1>12, <1>14, <1>16, <1>18, CallStep

(* A byte of the free map is copied. *)
LEMMA SavedTree ==
  ASSUME FsTypeOK, RefInv, TreeInv, FsTypeOK', NEW p \in Process, NEW g, Phase(g), ~MadeDir(g),
         Where(g) \in {"save", "saverelease", "scan", "makeinode", "closedir"},
         g.dirs = frame[p].dirs,
         Takes(g) = Takes(frame[p]), ~MadeDir(frame[p]), running,
         g.sector \in {frame[p].sector, 0} \/ \A q \in Process : frame[q].sector # g.sector,
         frame' = [frame EXCEPT ![p] = g],
         UNCHANGED <<free_map, node, entries, memoryVars, holdVars, running, lost>>
  PROVE  TreeInv'
<1>1. /\ SectorsStay /\ PwdStays(p) /\ Tree' = Tree /\ TreeGrows /\ \A q : SameFor(q)
      /\ UNCHANGED <<node, entries, inode, lost>>
  BY SectorsSame, DiskAlone DEF PwdStays, memoryVars, holdVars
<1>2. Written(node', entries', Tree', inode', g)
  <2>1. \A i \in DOMAIN g.dirs : node[inode[g.dirs[i]].sector].type = "dir"
    <3>1. Written(node, entries, Tree, inode, frame[p])
      BY DEF TreeInv
    <3>2. \A i \in DOMAIN frame[p].dirs : node[inode[frame[p].dirs[i]].sector].type = "dir"
      BY <3>1 DEF Written
    <3> QED
      BY <3>2
  <2>2. Written(node, entries, Tree, inode, g)
    BY <2>1 DEF Written
  <2> QED
    BY <1>1, <2>2
<1>3. Onward(p, g)
  BY <1>1, <1>2 DEF Onward
<1>4. frame'[p] = g /\ \A q \in Process \ {p} : frame'[q] = frame[q]
  BY Changed
<1>5. PICK T, fr, gr : T = Tree /\ fr = frame /\ gr = frame'
  OBVIOUS
<1>6. OneOwner(node, T, gr, lost, free_map)
  <2>1. OneOwner(node, T, fr, lost, free_map) /\ \A q \in Process : Takes(gr[q]) = Takes(fr[q])
    BY <1>4, <1>5 DEF TreeInv
  <2> QED
    BY <2>1, OwnersSame
<1>8. Rooted(node', entries', Tree', frame')
  BY <1>1, RootedOff
<1> QED
  BY <1>1, <1>3, <1>5, <1>6, <1>8, CallStep

LEMMA LoadByteTree ==
  ASSUME FsTypeOK, RefInv, TreeInv, FsTypeOK', NEW p \in Process, LoadByte(p)
  PROVE  TreeInv'
<1>1. frame[p].pc \in {"save", "saverelease"}
  BY DEF LoadByte, Saving
<1>2. frame[p] \in Frame /\ Where(frame[p]) = frame[p].pc /\ running /\ Phase(frame[p])
  BY <1>1, InCallTree
<1>3. ~MadeDir(frame[p])
  BY <1>1, <1>2 DEF MadeDir, Linked
<1> DEFINE g == [frame[p] EXCEPT !.loaded = free_map \cap Byte(frame[p].at)]
<1>4. /\ frame' = [frame EXCEPT ![p] = g]
      /\ UNCHANGED <<free_map, node, entries, memoryVars, holdVars, running, lost>>
  BY DEF LoadByte, Resume, diskVars, lostVars
<1>5. /\ g.pc = frame[p].pc /\ g.call = frame[p].call /\ g.name = frame[p].name
      /\ g.dirs = frame[p].dirs /\ g.pick = frame[p].pick /\ g.sector = frame[p].sector
      /\ g.block = frame[p].block /\ g.inode = frame[p].inode
  BY <1>2 DEF Frame
<1> HIDE DEF g
<1>6. Where(g) = frame[p].pc
  BY <1>1, <1>5 DEF Where
<1>7. Like(g, frame[p]) /\ g.pc # "unlist"
  BY <1>1, <1>2, <1>5, <1>6 DEF Like
<1>8. Phase(g) /\ ~MadeDir(g)
  BY <1>2, <1>3, <1>7, LikeSame
<1>9. Takes(g) = Takes(frame[p])
  BY <1>5 DEF Takes
<1> QED
  BY <1>1, <1>2, <1>3, <1>4, <1>5, <1>6, <1>8, <1>9, SavedTree

(* The call goes on after bitmap_write(), with the sector it has taken. *)
LEMMA SavedOn ==
  ASSUME FsTypeOK, RefInv, TreeInv, NEW p \in Process, frame[p].pc \in {"save", "saverelease"},
         NEW g, g = Saved(frame[p])
  PROVE  /\ Phase(g) /\ ~MadeDir(g) /\ Where(g) \in {"scan", "makeinode", "closedir"}
         /\ g.dirs = frame[p].dirs /\ Takes(g) = Takes(frame[p])
         /\ g.sector \in {frame[p].sector, 0} \/ \A q \in Process : frame[q].sector # g.sector
<1>1. /\ frame[p] \in Frame /\ Where(frame[p]) = frame[p].pc /\ Phase(frame[p])
      /\ ~MadeDir(frame[p])
  BY InCallTree DEF MadeDir, Linked
<1>2. CASE frame[p].pc = "saverelease"
  <2>1. frame[p].sector = 0 /\ frame[p].block = 0
    BY <1>1, <1>2 DEF Phase, Allocating
  <2>2. g.pc = "closedir" /\ g.sector = 0 /\ g.block = 0 /\ g.dirs = frame[p].dirs
    BY <1>1, <1>2, <2>1 DEF Saved, Frame
  <2>3. Where(g) = "closedir" /\ ~MadeDir(g)
    BY <2>2 DEF Where, MadeDir, Linked
  <2>4. Phase(g)
    BY <2>2, <2>3 DEF Phase, Allocating
  <2>5. Takes(g) = Takes(frame[p])
    BY <1>2, <2>2 DEF Takes, Allocating
  <2> QED
    BY <2>2, <2>3, <2>4, <2>5
<1>3. CASE frame[p].pc = "save"
  <2>1. /\ frame[p].call = "mkdir" /\ frame[p].name \in Name /\ frame[p].block = 0
        /\ frame[p].pick # 0 /\ frame[p].pick # frame[p].sector
    BY <1>1, <1>3 DEF Phase, Allocating
  <2>2. /\ g.call = "mkdir" /\ g.name \in Name /\ g.dirs = frame[p].dirs
        /\ IF frame[p].sector = 0
           THEN g.pc = "scan" /\ g.sector = frame[p].pick /\ g.block = 0
           ELSE g.pc = "makeinode" /\ g.sector = frame[p].sector /\ g.block = frame[p].pick
    BY <1>1, <1>3, <2>1 DEF Saved, Frame
  <2>3. Where(g) = g.pc /\ g.pc \in {"scan", "makeinode"}
    BY <2>2 DEF Where
  <2>4. ~MadeDir(g)
    BY <2>3 DEF MadeDir, Linked
  <2>5. Phase(g)
    BY <2>1, <2>2, <2>3, <2>4 DEF Phase, Allocating
  <2>6. Takes(frame[p]) = {frame[p].sector, frame[p].pick} \ {0}
    BY <1>3, <2>1 DEF Takes, Allocating
  <2>7. Takes(g) = Takes(frame[p])
    BY <2>1, <2>2, <2>6 DEF Takes, Allocating
  <2>8. \A q \in Process : frame[q].sector # frame[p].pick
    BY <2>1, <2>6, SectorAlone
  <2> QED
    BY <2>2, <2>3, <2>4, <2>5, <2>7, <2>8
<1> QED
  BY <1>2, <1>3

LEMMA StoreByteTree ==
  ASSUME FsTypeOK, RefInv, TreeInv, FsTypeOK', NEW p \in Process, StoreByte(p)
  PROVE  TreeInv'
<1>1. frame[p].pc \in {"save", "saverelease"}
  BY DEF StoreByte, Saving
<1>2. frame[p] \in Frame /\ Where(frame[p]) = frame[p].pc /\ running /\ Phase(frame[p])
  BY <1>1, InCallTree
<1>3. ~MadeDir(frame[p])
  BY <1>1, <1>2 DEF MadeDir, Linked
<1> DEFINE h == [frame[p] EXCEPT !.at = @ + ByteBits, !.loaded = Nil]
<1>4. PICK g : g \in {h, Saved(frame[p])} /\ frame' = [frame EXCEPT ![p] = g]
  BY DEF StoreByte, Resume
<1>5. UNCHANGED <<free_map, node, entries, memoryVars, holdVars, running, lost>>
  BY DEF StoreByte
<1>6. CASE g = h
  <2>1. /\ h.pc = frame[p].pc /\ h.call = frame[p].call /\ h.name = frame[p].name
        /\ h.dirs = frame[p].dirs /\ h.pick = frame[p].pick /\ h.sector = frame[p].sector
        /\ h.block = frame[p].block /\ h.inode = frame[p].inode
    BY <1>2 DEF Frame
  <2> HIDE DEF h
  <2>2. Where(g) = frame[p].pc
    BY <1>1, <1>6, <2>1 DEF Where
  <2>3. Like(g, frame[p]) /\ g.pc # "unlist"
    BY <1>1, <1>2, <1>6, <2>1, <2>2 DEF Like
  <2>4. Phase(g) /\ ~MadeDir(g)
    BY <1>2, <1>3, <2>3, LikeSame
  <2>5. Takes(g) = Takes(frame[p])
    BY <1>6, <2>1 DEF Takes
  <2> QED
    BY <1>1, <1>2, <1>3, <1>4, <1>5, <1>6, <2>1, <2>2, <2>4, <2>5, SavedTree
<1>7. CASE g = Saved(frame[p])
  <2>1. /\ Phase(g) /\ ~MadeDir(g) /\ Where(g) \in {"scan", "makeinode", "closedir"}
        /\ g.dirs = frame[p].dirs /\ Takes(g) = Takes(frame[p])
        /\ g.sector \in {frame[p].sector, 0} \/ \A q \in Process : frame[q].sector # g.sector
    BY <1>1, <1>7, SavedOn
  <2> QED
    BY <1>2, <1>3, <1>4, <1>5, <2>1, SavedTree
<1> HIDE DEF h
<1> QED
  BY <1>4, <1>6, <1>7

LEMMA ReleaseSectorTree ==
  ASSUME FsTypeOK, RefInv, TreeInv, FsTypeOK', NEW p \in Process, ReleaseSector(p)
  PROVE  TreeInv'
<1>1. frame[p].pc = "release"
  BY DEF ReleaseSector, At
<1>2. /\ frame[p] \in Frame /\ Where(frame[p]) = "release" /\ running
      /\ Phase(frame[p]) /\ Written(node, entries, Tree, inode, frame[p])
  BY <1>1, InCallTree
<1>3. PICK x \in FsSector, b \in FsSector :
        x = frame[p].sector /\ b = frame[p].block /\ x # 0 /\ x # b /\ ~MadeDir(frame[p])
  BY <1>2 DEF Phase, Allocating, MadeDir, Linked, Frame
<1>4. Takes(frame[p]) = {x, b} \ {0}
  BY <1>1, <1>3 DEF Takes, Allocating
<1> DEFINE g == [frame[p] EXCEPT !.pc = "saverelease", !.sector = 0, !.block = 0]
<1>5. /\ frame' = [frame EXCEPT ![p] = g] /\ free_map' = free_map \ {x}
      /\ node' = [node EXCEPT ![x] = NoNode] /\ lost' = lost \cup ({b} \ {0})
      /\ UNCHANGED <<entries, memoryVars, holdVars, running>>
  BY <1>3 DEF ReleaseSector, Resume
<1>6. g.pc = "saverelease" /\ g.sector = 0 /\ g.block = 0 /\ g.dirs = frame[p].dirs
  BY <1>2 DEF Frame
<1> HIDE DEF g
<1>7. Where(g) = "saverelease" /\ ~MadeDir(g) /\ Takes(g) = {}
  BY <1>6 DEF Where, MadeDir, Linked, Takes, Allocating
<1>8. Phase(g)
  BY <1>6, <1>7 DEF Phase, Allocating
<1>9. x \notin Tree
  BY <1>3, <1>4, TreeFacts
<1>10. \A t \in FsSector \ {x} : node'[t] = node[t]
  BY <1>5 DEF FsTypeOK, DiskTypes
<1>11. /\ Tree' = Tree /\ TreeGrows /\ (\A t \in Tree : node'[t] = node[t])
       /\ \A d \in Tree, n \in EntryName :
            Ent(node', entries', d, n) = Ent(node, entries, d, n)
  BY <1>5, <1>9, <1>10, TreeFacts, OffTree
<1>12. \A q \in Process \ {p} : SameFor(q)
  <2>1. ASSUME NEW q \in Process \ {p}, MadeDir(frame[q])
        PROVE  \A n \in {".", ".."} : Ent(node', entries', frame[q].sector, n)
                                      = Ent(node, entries, frame[q].sector, n)
    BY <1>11, <2>1, MadeInTree DEF EntryName
  <2>2. ASSUME NEW q \in Process \ {p}, Where(frame[q]) = "add"
        PROVE  node'[frame[q].sector] = node[frame[q].sector]
    <3>1. frame[q].sector # x /\ frame[q].sector \in FsSector
      BY <1>3 DEF TreeInv, Apart, FsTypeOK, MemoryTypes, Frame
    <3> QED
      BY <1>10, <3>1
  <2> QED
    BY <1>5, <2>1, <2>2 DEF SameFor
<1>13. SectorsStay /\ PwdStays(p) /\ UNCHANGED <<inode, entries>>
  BY <1>5, SectorsSame DEF PwdStays, memoryVars, holdVars
<1>14. Written(node', entries', Tree', inode', g)
  <2>1. \A i \in DOMAIN frame[p].dirs : /\ node[inode[frame[p].dirs[i]].sector].type = "dir"
                                        /\ inode[frame[p].dirs[i]].sector \in Tree
    BY <1>2, InUse DEF Written, TreeInv, OpenInTree
  <2>2. \A i \in DOMAIN g.dirs : node'[inode'[g.dirs[i]].sector].type = "dir"
    BY <1>6, <1>11, <1>13, <2>1
  <2> QED
    BY <1>7, <2>2 DEF Written
<1>15. Onward(p, g)
  BY <1>2, <1>5, <1>6, <1>8, <1>13, <1>14 DEF Onward
<1>16. frame'[p] = g /\ \A q \in Process \ {p} : frame'[q] = frame[q]
  BY <1>5, Changed
<1>17. OneOwner(node', Tree', frame', lost', free_map')
  <2>1. PICK N, M, T, fr, gr, lo, mo, fm :
          /\ N = node /\ M = node' /\ T = Tree /\ fr = frame /\ gr = frame' /\ lo = lost
          /\ mo = lost' /\ fm = free_map
    OBVIOUS
  <2>2. OneOwner(N, T, fr, lo, fm) /\ \A t \in T : M[t] = N[t]
    BY <1>11, <2>1 DEF TreeInv
  <2>3. /\ x \in Takes(fr[p]) /\ Takes(gr[p]) = {}
        /\ \A q \in Process \ {p} : Takes(gr[q]) = Takes(fr[q])
    BY <1>3, <1>4, <1>7, <1>16, <2>1
  <2>4. Others(mo) = Others(lo) \cup (Takes(fr[p]) \ {x})
    BY <1>3, <1>4, <1>5, <2>1 DEF Others
  <2>5. OneOwner(M, T, gr, mo, fm \ {x})
    BY ONLY <2>2, <2>3, <2>4, OwnersRelease, p \in Process, x \in FsSector
  <2> QED
    BY <1>5, <1>11, <2>1, <2>5
<1>19. Rooted(node', entries', Tree', frame')
  BY <1>3, <1>5, <1>11, RootedOff
<1> QED
  BY <1>11, <1>12, <1>15, <1>17, <1>19, CallStep

LEMMA MakeInodeTree ==
  ASSUME FsTypeOK, RefInv, TreeInv, FsTypeOK', NEW p \in Process, MakeInode(p)
  PROVE  TreeInv'
<1>1. frame[p].pc = "makeinode"
  BY DEF MakeInode, At
<1>2. /\ frame[p] \in Frame /\ Where(frame[p]) = "makeinode" /\ running
      /\ Phase(frame[p]) /\ Written(node, entries, Tree, inode, frame[p])
  BY <1>1, InCallTree
<1>3. PICK x \in FsSector, b \in FsSector :
        /\ x = frame[p].sector /\ b = frame[p].block /\ x # 0 /\ x # b /\ ~MadeDir(frame[p])
        /\ frame[p].call = "mkdir" /\ frame[p].name \in Name
  BY <1>2 DEF Phase, Allocating, MadeDir, Linked, Frame
<1>4. Takes(frame[p]) = {x, b} \ {0}
  BY <1>1, <1>3 DEF Takes, Allocating
<1> DEFINE g == [frame[p] EXCEPT !.pc = IF b = 0 THEN "release" ELSE "add"]
<1>5. /\ frame' = [frame EXCEPT ![p] = g]
      /\ node' = [node EXCEPT ![x] = [type |-> "dir", block |-> b]]
      /\ entries' = [entries EXCEPT ![b] = IF b = 0 THEN @ ELSE NoEntries]
      /\ UNCHANGED <<free_map, memoryVars, holdVars, running, lost>>
  BY <1>3 DEF MakeInode, Goto, lostVars
<1>6. /\ g.pc = (IF b = 0 THEN "release" ELSE "add") /\ g.sector = x /\ g.block = b
      /\ g.dirs = frame[p].dirs /\ g.call = "mkdir" /\ g.name \in Name
  BY <1>2, <1>3 DEF Frame
<1> HIDE DEF g
<1>7. Where(g) = g.pc /\ ~MadeDir(g)
  BY <1>6 DEF Where, MadeDir, Linked
<1>8. Phase(g)
  BY <1>3, <1>6, <1>7 DEF Phase, Allocating
<1>9. x \notin Tree /\ \A t \in Tree : b = 0 \/ node[t].block # b
  BY <1>3, <1>4, TreeFacts
<1>10. /\ \A t \in FsSector \ {x} : node'[t] = node[t]
       /\ node'[x] = [type |-> "dir", block |-> b]
       /\ \A t \in FsSector : t # b \/ b = 0 => entries'[t] = entries[t]
       /\ b # 0 => entries'[b] = NoEntries
  BY <1>5 DEF FsTypeOK, DiskTypes
<1>11. /\ Tree' = Tree /\ TreeGrows /\ (\A t \in Tree : node'[t] = node[t])
       /\ \A d \in Tree, n \in EntryName :
            Ent(node', entries', d, n) = Ent(node, entries, d, n)
  <2>1. \A t \in Tree : node'[t] = node[t] /\ entries'[node[t].block] = entries[node[t].block]
    BY <1>9, <1>10, TreeFacts
  <2> QED
    BY <2>1, OffTree
<1>12. \A q \in Process \ {p} : SameFor(q)
  <2>1. ASSUME NEW q \in Process \ {p}, MadeDir(frame[q])
        PROVE  \A n \in {".", ".."} : Ent(node', entries', frame[q].sector, n)
                                      = Ent(node, entries, frame[q].sector, n)
    BY <1>11, <2>1, MadeInTree DEF EntryName
  <2>2. ASSUME NEW q \in Process \ {p}, Where(frame[q]) = "add"
        PROVE  /\ node'[frame[q].sector] = node[frame[q].sector]
               /\ entries'[frame[q].block] = entries[frame[q].block]
    <3>1. /\ frame[q].sector # x /\ frame[q].sector \in FsSector /\ frame[q].block \in FsSector
          /\ Phase(frame[q])
      BY <1>3 DEF TreeInv, Apart, FsTypeOK, MemoryTypes, Frame
    <3>2. frame[q].pc \in Allocating /\ frame[q].block # 0
      BY <2>2, <3>1 DEF Phase, Where, Allocating
    <3>3. frame[q].block \in Takes(frame[q])
      BY <3>2 DEF Takes
    <3>4. frame[q].block # b \/ b = 0
      BY <1>4, <3>1, <3>3 DEF TreeInv, OneOwner
    <3> QED
      BY <1>10, <3>1, <3>4
  <2> QED
    BY <2>1, <2>2 DEF SameFor
<1>13. SectorsStay /\ PwdStays(p) /\ UNCHANGED <<inode, free_map, lost>>
  BY <1>5, SectorsSame DEF PwdStays, memoryVars, holdVars
<1>14. Written(node', entries', Tree', inode', g)
  <2>1. \A i \in DOMAIN frame[p].dirs : /\ node[inode[frame[p].dirs[i]].sector].type = "dir"
                                        /\ inode[frame[p].dirs[i]].sector \in Tree
    <3>1. \A i \in DOMAIN frame[p].dirs : node[inode[frame[p].dirs[i]].sector].type = "dir"
      BY <1>2 DEF Written
    <3>2. \A s \in open_inodes : inode[s].sector \in Tree \cup {0}
      BY DEF TreeInv, OpenInTree
    <3>3. \A i \in DOMAIN frame[p].dirs : /\ frame[p].dirs[i] \in open_inodes
                                          /\ inode[frame[p].dirs[i]].sector # 0
      BY InUse
    <3> QED
      BY ONLY <3>1, <3>2, <3>3
  <2>2. \A i \in DOMAIN g.dirs : node'[inode'[g.dirs[i]].sector].type = "dir"
    BY <1>6, <1>11, <1>13, <2>1
  <2>3. Where(g) = "add" => /\ node'[g.sector] = [type |-> "dir", block |-> g.block]
                            /\ entries'[g.block] = NoEntries
    BY <1>6, <1>7, <1>10
  <2> QED
    BY <1>6, <1>7, <2>2, <2>3 DEF Written
<1>15. Onward(p, g)
  BY <1>2, <1>3, <1>5, <1>6, <1>8, <1>13, <1>14 DEF Onward
<1>16. frame'[p] = g /\ \A q \in Process \ {p} : frame'[q] = frame[q]
  BY <1>5, Changed
<1>17. PICK N, M, T, fr, gr : /\ N = node /\ M = node' /\ T = Tree /\ fr = frame /\ gr = frame'
                              /\ \A t \in T : M[t] = N[t]
  BY <1>11
<1>18. OneOwner(node', Tree', frame', lost', free_map')
  <2>1. Takes(g) = Takes(frame[p])
    BY <1>4, <1>6 DEF Takes, Allocating
  <2>2. OneOwner(N, T, fr, lost, free_map) /\ \A q \in Process : Takes(gr[q]) = Takes(fr[q])
    BY <1>16, <1>17, <2>1 DEF TreeInv
  <2>3. OneOwner(M, T, gr, lost, free_map)
    BY <1>17, <2>2, OwnersSame
  <2> QED
    BY <1>11, <1>13, <1>17, <2>3
<1>20. Rooted(node', entries', Tree', frame')
  BY <1>3, <1>5, <1>11, RootedOff
<1> QED
  BY <1>11, <1>12, <1>15, <1>18, <1>20, CallStep

(* Directory entry nm of block b is set. *)
SetEntry(E, b, nm, v) == [E EXCEPT ![b][nm] = v]

(* The call that makes a directory adds an entry to it. *)
DotAdded(p, c, nm, v) ==
  /\ Tree' = Tree /\ TreeGrows /\ \A q \in Process \ {p} : SameFor(q)
  /\ Ent(node', entries', c, nm) = v
  /\ \A n \in EntryName \ {nm} : Ent(node', entries', c, n) = Ent(node, entries, c, n)
  /\ \A d \in Tree \ {c}, n \in EntryName :
       Ent(node', entries', d, n) = Ent(node, entries, d, n)

(* What adding one of the two entries to the directory a call has made     *)
(* changes.                                                                *)
LEMMA DotTree ==
  ASSUME FsTypeOK, TreeInv, FsTypeOK', NEW p \in Process, MadeDir(frame[p]),
         NEW c, c = frame[p].sector, NEW nm \in {".", ".."}, NEW v,
         entries' = SetEntry(entries, node[c].block, nm, v), node' = node
  PROVE  DotAdded(p, c, nm, v)
<1>1. PICK N, E, F, T : N = node /\ N = node' /\ E = entries /\ F = entries' /\ T = Tree
  OBVIOUS
<1>2. N \in Nodes /\ E \in Blocks /\ F \in Blocks /\ T = Reach(N, E)
  BY <1>1, TreeIs DEF FsTypeOK, DiskTypes, Nodes, Blocks
<1>3. /\ c \in T /\ c \in FsSector /\ N[c].block \in FsSector \ {0}
      /\ \A d \in T : d # c => N[d].block # N[c].block
      /\ \A d \in T : d \in FsSector /\ N[d].block \in FsSector
  BY <1>1, MadeInTree, TreeFacts
<1>4. nm \in EntryName /\ nm \notin Name /\ Name \subseteq EntryName
  BY FileSystemAssumption DEF EntryName
<1>5. /\ F[N[c].block][nm] = v
      /\ \A n \in EntryName \ {nm} : F[N[c].block][n] = E[N[c].block][n]
      /\ \A b \in FsSector : b # N[c].block => F[b] = E[b]
  <2>1. F = [E EXCEPT ![N[c].block][nm] = v]
    BY <1>1 DEF SetEntry
  <2> QED
    BY ONLY <1>2, <1>3, <1>4, <2>1 DEF Blocks
<1>6. /\ \A n \in EntryName \ {nm} : Ent(N, F, c, n) = Ent(N, E, c, n)
      /\ Ent(N, F, c, nm) = v
      /\ \A d \in T \ {c}, n \in EntryName : Ent(N, F, d, n) = Ent(N, E, d, n)
  BY <1>3, <1>5 DEF Ent
<1>7. \A d \in T, n \in Name : Ent(N, F, d, n) = Ent(N, E, d, n)
  BY <1>4, <1>6
<1>8. Reach(N, F) = T
  <2>1. \A d \in T : Kids(N, F, d) = Kids(N, E, d)
    BY <1>7 DEF Kids, Ent
  <2> QED
    BY <1>2, <2>1, ReachSame
<1>9. Tree' = Tree
  BY <1>1, <1>8, TreeIs
<1>10. TreeGrows
  BY <1>1, <1>7, <1>9 DEF TreeGrows
<1>11. ASSUME NEW q \in Process \ {p} PROVE SameFor(q)
  <2>1. ASSUME MadeDir(frame[q])
        PROVE  /\ Ent(node', entries', frame[q].sector, ".") = Ent(node, entries, frame[q].sector, ".")
               /\ Ent(node', entries', frame[q].sector, "..") = Ent(node, entries, frame[q].sector, "..")
    <3>1. frame[q].sector \in T /\ frame[q].sector # c
      BY <1>1, <2>1, MadeInTree DEF TreeInv, Apart
    <3>2. "." \in EntryName /\ ".." \in EntryName
      BY DEF EntryName
    <3>3. PICK e : e = frame[q].sector
      OBVIOUS
    <3>4. Ent(N, F, e, ".") = Ent(N, E, e, ".") /\ Ent(N, F, e, "..") = Ent(N, E, e, "..")
      BY ONLY <1>6, <3>1, <3>2, <3>3
    <3> QED
      BY ONLY <1>1, <3>3, <3>4
  <2>2. ASSUME Where(frame[q]) = "add"
        PROVE  entries'[frame[q].block] = entries[frame[q].block]
    <3>1. frame[q].block \in FsSector /\ Phase(frame[q])
      BY DEF TreeInv, FsTypeOK, MemoryTypes, Frame
    <3>2. frame[q].pc \in Allocating /\ frame[q].block # 0
      BY <2>2, <3>1 DEF Phase, Where, Allocating
    <3>3. frame[q].block \in Takes(frame[q])
      BY <3>2 DEF Takes
    <3>4. frame[q].block # N[c].block
      BY <1>1, <1>3, <3>3, TreeFacts
    <3> QED
      BY <1>1, <1>5, <3>1, <3>4
  <2> QED
    BY <2>1, <2>2 DEF SameFor
<1>12. /\ Ent(node', entries', c, nm) = v
       /\ \A n \in EntryName \ {nm} : Ent(node', entries', c, n) = Ent(node, entries, c, n)
       /\ \A d \in Tree \ {c}, n \in EntryName :
            Ent(node', entries', d, n) = Ent(node, entries, d, n)
  BY ONLY <1>1, <1>6
<1> QED
  BY ONLY <1>9, <1>10, <1>11, <1>12 DEF DotAdded

(* And then it goes on, the directory still being made. *)
LEMMA DotStep ==
  ASSUME FsTypeOK, RefInv, TreeInv, FsTypeOK', NEW p \in Process, MadeDir(frame[p]),
         frame[p].pc \in Linked, running, NEW nm \in {".", ".."}, NEW v,
         entries' = SetEntry(entries, node[frame[p].sector].block, nm, v),
         UNCHANGED <<free_map, node, memoryVars, holdVars, running, lost>>,
         NEW g, frame' = [frame EXCEPT ![p] = g], MadeDir(g), g.sector = frame[p].sector,
         g.pc \notin Allocating, Phase(g), Written(node', entries', Tree', inode', g)
  PROVE  TreeInv'
<1>0. frame[p].pc \notin Allocating /\ Where(frame[p]) \in Linked
  BY DEF Linked, Allocating, Where
<1>1. PICK c : c = frame[p].sector
  OBVIOUS
<1>2. /\ Tree' = Tree /\ TreeGrows /\ \A q \in Process \ {p} : SameFor(q)
      /\ \A d \in Tree \ {c}, n \in EntryName :
           Ent(node', entries', d, n) = Ent(node, entries, d, n)
      /\ \A n \in EntryName \ {nm} : Ent(node', entries', c, n) = Ent(node, entries, c, n)
  <2>1. entries' = SetEntry(entries, node[c].block, nm, v) /\ node' = node
    BY <1>1
  <2>2. DotAdded(p, c, nm, v)
    BY ONLY <1>1, <2>1, DotTree, FsTypeOK, TreeInv, FsTypeOK', MadeDir(frame[p]), p \in Process,
            nm \in {".", ".."}
  <2> QED
    BY ONLY <2>2 DEF DotAdded
<1>3. SectorsStay /\ PwdStays(p) /\ UNCHANGED inode
  BY SectorsSame DEF PwdStays, memoryVars, holdVars
<1>4. Onward(p, g)
  BY <1>3 DEF Onward
<1>5. frame'[p] = g /\ \A q \in Process \ {p} : frame'[q] = frame[q]
  BY Changed
<1>6. PICK N, E, F, T, fr, gr : /\ N = node /\ E = entries /\ F = entries' /\ T = Tree
                                /\ fr = frame /\ gr = frame'
  OBVIOUS
<1>7. Takes(g) = Takes(frame[p])
  BY <1>0 DEF Takes
<1>8. OneOwner(N, T, gr, lost, free_map)
  <2>1. OneOwner(N, T, fr, lost, free_map) /\ \A q \in Process : Takes(gr[q]) = Takes(fr[q])
    BY <1>5, <1>6, <1>7 DEF TreeInv
  <2> QED
    BY <2>1, OwnersSame
<1>10. Rooted(N, F, T, gr)
  <2>1. Rooted(N, E, T, fr) /\ RootSector \in T /\ 0 \notin T
    BY <1>6, TreeFacts DEF TreeInv
  <2>2. c # RootSector
    <3>1. Written(N, E, T, inode, fr[p])
      BY <1>6 DEF TreeInv
    <3>2. \E n \in Name : Ent(N, E, Parent(inode, fr[p]), n) = c
      BY <1>0, <1>1, <1>6, <3>1 DEF Written
    <3>3. Parent(inode, fr[p]) \in T /\ N[Parent(inode, fr[p])].type = "dir"
      <4>1. /\ 1 \in DOMAIN fr[p].dirs /\ fr[p].dirs[1] \in open_inodes
            /\ inode[fr[p].dirs[1]].sector # 0
        BY <1>0, <1>6, InUse
      <4> QED
        BY <1>6, <3>1, <4>1 DEF Parent, Written, TreeInv, OpenInTree
    <3>4. c \in T
      BY <1>1, <1>6, MadeInTree
    <3> QED
      BY <2>1, <3>2, <3>3, <3>4 DEF Rooted
  <2>3. Name \subseteq EntryName /\ "." \in EntryName /\ ".." \in EntryName /\ nm \notin Name
    BY FileSystemAssumption DEF EntryName
  <2>4. \A d \in T \ {c}, n \in EntryName : Ent(N, F, d, n) = Ent(N, E, d, n)
    BY <1>2, <1>6
  <2>5. \A n \in EntryName \ {nm} : Ent(N, F, c, n) = Ent(N, E, c, n)
    BY <1>2, <1>6
  <2>6. \A d \in T, n \in Name : Ent(N, F, d, n) = Ent(N, E, d, n)
    BY <2>3, <2>4, <2>5
  <2>7. DotsRight(N, F, RootSector, RootSector)
    BY <2>1, <2>2, <2>3, <2>4 DEF Rooted, DotsRight
  <2>8. MadeDir(gr[p]) /\ gr[p].sector = c
    BY <1>1, <1>5, <1>6
  <2>9. \A q \in Process : MadeDir(fr[q]) => MadeDir(gr[q]) /\ gr[q].sector = fr[q].sector
    BY <1>5, <1>6
  <2>10. \A e \in T : e # c => Ent(N, F, e, ".") = Ent(N, E, e, ".")
                              /\ Ent(N, F, e, "..") = Ent(N, E, e, "..")
    BY <2>3, <2>4
  <2> QED
    BY ONLY <2>1, <2>6, <2>7, <2>8, <2>9, <2>10, RootedStays, p \in Process
<1>11. /\ OneOwner(node', Tree', frame', lost', free_map')
       /\ Rooted(node', entries', Tree', frame')
  BY <1>2, <1>6, <1>8, <1>10
<1> QED
  BY <1>2, <1>4, <1>11, CallStep

LEMMA AddDotTree ==
  ASSUME FsTypeOK, RefInv, TreeInv, FsTypeOK', NEW p \in Process, AddDot(p)
  PROVE  TreeInv'
<1>1. frame[p].pc = "adddot"
  BY DEF AddDot, At
<1>2. /\ frame[p] \in Frame /\ Shape(frame[p]) /\ Where(frame[p]) = "adddot" /\ running
      /\ Phase(frame[p]) /\ Written(node, entries, Tree, inode, frame[p])
  BY <1>1, InCallTree
<1>3. /\ MadeDir(frame[p]) /\ frame[p].inode \in Slot
      /\ inode[frame[p].inode].sector = frame[p].sector
      /\ Ent(node, entries, frame[p].sector, ".") = 0
      /\ Ent(node, entries, frame[p].sector, "..") = 0
  <2>1. frame[p].call = "mkdir" /\ frame[p].inode \in Slot
    BY <1>2 DEF Shape, Making
  <2>2. MadeDir(frame[p])
    BY <1>2, <2>1 DEF MadeDir, Linked
  <2> QED
    BY <1>2, <2>1, <2>2 DEF Written, NoDots
<1>4. PICK c \in FsSector : c = frame[p].sector
  BY <1>2 DEF Frame
<1>5. /\ entries' = SetEntry(entries, node[c].block, ".", c)
      /\ UNCHANGED <<free_map, node, memoryVars, holdVars, running, lost>>
  <2>1. entries' = [entries EXCEPT ![node[c].block]["."] = IF @ = 0 THEN c ELSE @]
    BY <1>3, <1>4 DEF AddDot, Add
  <2>2. entries[node[c].block]["."] = 0
    BY <1>3, <1>4 DEF Ent
  <2> QED
    BY <2>1, <2>2 DEF AddDot, SetEntry, lostVars
<1> DEFINE g == [frame[p] EXCEPT !.pc = "addparent"]
<1>6. /\ frame' = [frame EXCEPT ![p] = g] /\ g.pc = "addparent" /\ g.sector = frame[p].sector
      /\ g.block = frame[p].block /\ g.dirs = frame[p].dirs /\ g.call = frame[p].call
      /\ g.name = frame[p].name /\ g.pick = frame[p].pick /\ g.inode = frame[p].inode
  BY <1>2 DEF AddDot, Goto, Frame
<1> HIDE DEF g
<1>7. Where(g) = "addparent" /\ MadeDir(g)
  BY <1>3, <1>6 DEF Where, MadeDir, Linked
<1>8. Phase(g)
  BY <1>2, <1>3, <1>6, <1>7 DEF Phase, Allocating
<1>9. /\ Tree' = Tree /\ Ent(node', entries', c, ".") = c
      /\ Ent(node', entries', c, "..") = 0
      /\ \A d \in Tree, n \in Name : Ent(node', entries', d, n) = Ent(node, entries, d, n)
  <2>1. DotAdded(p, c, ".", c)
    <3>1. node' = node
      BY <1>5
    <3>2. PICK nm \in {".", ".."} : nm = "."
      OBVIOUS
    <3>3. entries' = SetEntry(entries, node[c].block, nm, c)
      BY ONLY <1>5, <3>2
    <3>4. DotAdded(p, c, nm, c)
      BY ONLY <1>3, <1>4, <3>1, <3>3, DotTree, FsTypeOK, TreeInv, FsTypeOK', p \in Process,
              nm \in {".", ".."}
    <3> QED
      BY ONLY <3>2, <3>4
  <2>2. /\ Tree' = Tree /\ Ent(node', entries', c, ".") = c
        /\ \A n \in EntryName \ {"."} : Ent(node', entries', c, n) = Ent(node, entries, c, n)
        /\ \A d \in Tree \ {c}, n \in EntryName :
              Ent(node', entries', d, n) = Ent(node, entries, d, n)
    BY ONLY <2>1 DEF DotAdded
  <2>3. Name \subseteq EntryName \ {"."} /\ ".." \in EntryName \ {"."}
    BY FileSystemAssumption DEF EntryName
  <2> QED
    BY <1>3, <1>4, <2>2, <2>3
<1>10. Written(node', entries', Tree', inode', g)
  <2>1. UNCHANGED <<inode, node>>
    BY <1>5 DEF memoryVars
  <2>2. Parent(inode', g) = Parent(inode, frame[p])
    BY <1>6, <2>1 DEF Parent
  <2>3. \A i \in DOMAIN g.dirs : node'[inode'[g.dirs[i]].sector].type = "dir"
    BY <1>2, <1>6, <2>1 DEF Written
  <2>4. Parent(inode, frame[p]) \in Tree
    BY <1>2, <1>3, InUse DEF Parent, TreeInv, OpenInTree, Linked
  <2>5. /\ g.sector \in Tree' /\ node'[g.sector].type = "dir"
        /\ g.inode \in Slot => inode'[g.inode].sector = g.sector
        /\ \E n \in Name : Ent(node', entries', Parent(inode', g), n) = g.sector
    BY <1>2, <1>3, <1>6, <1>9, <2>1, <2>2, <2>4 DEF Written, Linked
  <2>6. Ent(node', entries', g.sector, ".") = g.sector /\ Ent(node', entries', g.sector, "..") = 0
    BY <1>4, <1>6, <1>9
  <2> QED
    BY <1>7, <2>3, <2>5, <2>6 DEF Written, NoDots
<1> QED
  BY <1>1, <1>2, <1>3, <1>4, <1>5, <1>6, <1>7, <1>8, <1>10, DotStep DEF Linked, Allocating

LEMMA AddParentTree ==
  ASSUME FsTypeOK, RefInv, TreeInv, FsTypeOK', NEW p \in Process, AddParent(p)
  PROVE  TreeInv'
<1>1. frame[p].pc = "addparent"
  BY DEF AddParent, At
<1>2. /\ frame[p] \in Frame /\ Shape(frame[p]) /\ Where(frame[p]) = "addparent" /\ running
      /\ Phase(frame[p]) /\ Written(node, entries, Tree, inode, frame[p])
  BY <1>1, InCallTree
<1>3. /\ MadeDir(frame[p]) /\ frame[p].inode \in Slot
      /\ inode[frame[p].inode].sector = frame[p].sector
      /\ Ent(node, entries, frame[p].sector, ".") = frame[p].sector
      /\ Ent(node, entries, frame[p].sector, "..") = 0
  <2>1. frame[p].call = "mkdir" /\ frame[p].inode \in Slot
    BY <1>2 DEF Shape, Making
  <2>2. MadeDir(frame[p])
    BY <1>2, <2>1 DEF MadeDir, Linked
  <2> QED
    BY <1>2, <2>1, <2>2 DEF Written, NoDots
<1>4. PICK c, v : c \in FsSector /\ c = frame[p].sector /\ v = Parent(inode, frame[p])
  BY <1>2 DEF Frame
<1>5. /\ entries' = SetEntry(entries, node[c].block, "..", v)
      /\ UNCHANGED <<free_map, node, memoryVars, holdVars, running, lost>>
  <2>1. entries' = [entries EXCEPT ![node[c].block][".."] = IF @ = 0 THEN v ELSE @]
    BY <1>3, <1>4 DEF AddParent, Add, Parent
  <2>2. entries[node[c].block][".."] = 0
    BY <1>3, <1>4 DEF Ent
  <2> QED
    BY <2>1, <2>2 DEF AddParent, SetEntry, lostVars
<1> DEFINE g == [frame[p] EXCEPT !.pc = "closemade"]
<1>6. /\ frame' = [frame EXCEPT ![p] = g] /\ g.pc = "closemade" /\ g.sector = frame[p].sector
      /\ g.block = frame[p].block /\ g.dirs = frame[p].dirs /\ g.call = frame[p].call
      /\ g.name = frame[p].name /\ g.pick = frame[p].pick /\ g.inode = frame[p].inode
  BY <1>2 DEF AddParent, Goto, Frame
<1> HIDE DEF g
<1>7. Where(g) = "closemade" /\ MadeDir(g)
  BY <1>3, <1>6 DEF Where, MadeDir, Linked
<1>8. Phase(g)
  BY <1>2, <1>3, <1>6, <1>7 DEF Phase, Allocating
<1>9. /\ Tree' = Tree /\ Ent(node', entries', c, "..") = v
      /\ Ent(node', entries', c, ".") = c
      /\ \A d \in Tree, n \in Name : Ent(node', entries', d, n) = Ent(node, entries, d, n)
  <2>1. DotAdded(p, c, "..", v)
    <3>1. node' = node
      BY <1>5
    <3>2. PICK nm \in {".", ".."} : nm = ".."
      OBVIOUS
    <3>3. entries' = SetEntry(entries, node[c].block, nm, v)
      BY ONLY <1>5, <3>2
    <3>4. DotAdded(p, c, nm, v)
      BY ONLY <1>3, <1>4, <3>1, <3>3, DotTree, FsTypeOK, TreeInv, FsTypeOK', p \in Process,
              nm \in {".", ".."}
    <3> QED
      BY ONLY <3>2, <3>4
  <2>2. /\ Tree' = Tree /\ Ent(node', entries', c, "..") = v
        /\ \A n \in EntryName \ {".."} : Ent(node', entries', c, n) = Ent(node, entries, c, n)
        /\ \A d \in Tree \ {c}, n \in EntryName :
              Ent(node', entries', d, n) = Ent(node, entries, d, n)
    BY ONLY <2>1 DEF DotAdded
  <2>3. Name \subseteq EntryName \ {".."} /\ "." \in EntryName \ {".."}
    BY FileSystemAssumption DEF EntryName
  <2> QED
    BY <1>3, <1>4, <2>2, <2>3
<1>10. Written(node', entries', Tree', inode', g)
  <2>1. UNCHANGED <<inode, node>>
    BY <1>5 DEF memoryVars
  <2>2. Parent(inode', g) = Parent(inode, frame[p])
    BY <1>6, <2>1 DEF Parent
  <2>3. \A i \in DOMAIN g.dirs : node'[inode'[g.dirs[i]].sector].type = "dir"
    BY <1>2, <1>6, <2>1 DEF Written
  <2>4. Parent(inode, frame[p]) \in Tree
    BY <1>2, <1>3, InUse DEF Parent, TreeInv, OpenInTree, Linked
  <2>5. /\ g.sector \in Tree' /\ node'[g.sector].type = "dir"
        /\ g.inode \in Slot => inode'[g.inode].sector = g.sector
        /\ \E n \in Name : Ent(node', entries', Parent(inode', g), n) = g.sector
    BY <1>2, <1>3, <1>6, <1>9, <2>1, <2>2, <2>4 DEF Written, Linked
  <2>6. /\ Ent(node', entries', g.sector, ".") = g.sector
        /\ Ent(node', entries', g.sector, "..") = Parent(inode', g)
    BY <1>4, <1>6, <1>9, <2>2
  <2> QED
    BY <1>7, <2>3, <2>5, <2>6 DEF Written, NoDots
<1> QED
  BY <1>1, <1>2, <1>3, <1>4, <1>5, <1>6, <1>7, <1>8, <1>10, DotStep DEF Linked, Allocating

(* dir_add() finds that the name is taken. *)
LEMMA NameTakenTree ==
  ASSUME FsTypeOK, RefInv, TreeInv, NEW p \in Process, frame[p].pc = "add",
         frame' = [frame EXCEPT ![p] = [frame[p] EXCEPT !.pc = "release"]],
         UNCHANGED <<free_map, diskVars, memoryVars, holdVars, running, lost>>
  PROVE  TreeInv'
<1>1. /\ frame[p] \in Frame /\ Where(frame[p]) = "add" /\ running
      /\ Phase(frame[p]) /\ Written(node, entries, Tree, inode, frame[p])
  BY InCallTree
<1> DEFINE g == [frame[p] EXCEPT !.pc = "release"]
<1>2. /\ frame' = [frame EXCEPT ![p] = g] /\ g.pc = "release" /\ g.sector = frame[p].sector
      /\ g.block = frame[p].block /\ g.dirs = frame[p].dirs /\ g.call = frame[p].call
      /\ g.name = frame[p].name
  BY <1>1 DEF Frame
<1> HIDE DEF g
<1>3. Where(g) = "release" /\ ~MadeDir(g) /\ ~MadeDir(frame[p])
  BY <1>1, <1>2 DEF Where, MadeDir, Linked
<1>4. Phase(g)
  BY <1>1, <1>2, <1>3 DEF Phase, Allocating
<1>5. Takes(g) = Takes(frame[p])
  BY <1>2 DEF Takes, Allocating
<1>6. /\ SectorsStay /\ PwdStays(p) /\ Tree' = Tree
      /\ UNCHANGED <<node, entries, inode>>
  BY SectorsSame, DiskAlone DEF PwdStays, memoryVars, holdVars, diskVars
<1>7. Written(node', entries', Tree', inode', g)
  <2>1. \A i \in DOMAIN g.dirs : node[inode[g.dirs[i]].sector].type = "dir"
    BY <1>1, <1>2 DEF Written
  <2>2. Written(node, entries, Tree, inode, g)
    BY <1>2, <1>3, <2>1 DEF Written
  <2> QED
    BY <1>6, <2>2
<1>8. Onward(p, g)
  BY <1>1, <1>2, <1>4, <1>6, <1>7 DEF Onward
<1> QED
  BY <1>2, <1>3, <1>5, <1>8, OnwardStep DEF Allocating

(* It adds the name: a path leads to the new directory. *)
LEMMA NameAddedTree ==
  ASSUME FsTypeOK, RefInv, TreeInv, FsTypeOK', NEW p \in Process, frame[p].pc = "add",
         NEW s, s = frame[p].dirs[1], NEW b, b = inode[s].sector,
         Entry(b, frame[p].name) = 0,
         entries' = SetEntry(entries, node[b].block, frame[p].name, frame[p].sector),
         Reopen(p, s),
         frame' = [frame EXCEPT ![p] = [frame[p] EXCEPT !.pc = "lookup", !.dirs = <<s, s>>]],
         UNCHANGED <<free_map, node, open_inodes, heap, holdVars, running, lost>>
  PROVE  TreeInv'
<1>1. /\ frame[p] \in Frame /\ Shape(frame[p]) /\ Where(frame[p]) = "add" /\ running
      /\ Phase(frame[p]) /\ Written(node, entries, Tree, inode, frame[p])
  BY InCallTree
<1>2. PICK c \in FsSector, k \in FsSector, nm \in Name :
        /\ c = frame[p].sector /\ k = frame[p].block /\ nm = frame[p].name
        /\ c # 0 /\ k # 0 /\ c # k /\ frame[p].call = "mkdir" /\ ~MadeDir(frame[p])
        /\ node[c] = [type |-> "dir", block |-> k] /\ entries[k] = NoEntries
  BY <1>1 DEF Phase, Allocating, Written, MadeDir, Linked, Frame
<1>3. s \in Slot /\ 1 \in DOMAIN frame[p].dirs /\ frame[p].inode = Nil /\ Nil \notin Slot
  <2>1. Nil \notin Slot
    BY FileSystemAssumption
  <2>2. frame[p].inode = Nil /\ \E d \in Slot : frame[p].dirs = <<d>>
    BY <1>1 DEF Shape, Making
  <2> QED
    BY <2>1, <2>2
<1>4. b \in Tree /\ node[b].type = "dir"
  <2>1. s \in open_inodes /\ b # 0
    BY <1>3, InUse
  <2>2. b \in Tree \cup {0} /\ node[b].type = "dir"
    BY <1>1, <1>3, <2>1 DEF TreeInv, OpenInTree, Written
  <2> QED
    BY <2>1, <2>2
<1>5. Takes(frame[p]) = {c, k}
  BY <1>2 DEF Takes, Allocating
<1>6. /\ c \notin Tree /\ (\A t \in Tree : node[t].block # k)
      /\ \A t \in Tree : t # b => node[t].block # node[b].block
  BY <1>2, <1>4, <1>5, TreeFacts
<1> DEFINE g == [frame[p] EXCEPT !.pc = "lookup", !.dirs = <<s, s>>]
<1>7. /\ frame' = [frame EXCEPT ![p] = g] /\ g.pc = "lookup" /\ g.sector = c /\ g.block = k
      /\ g.dirs = <<s, s>> /\ g.call = "mkdir" /\ g.name = nm /\ g.inode = Nil
  BY <1>1, <1>2, <1>3 DEF Frame
<1> HIDE DEF g
<1>8. Where(g) = "lookup" /\ MadeDir(g) /\ Takes(g) = {}
  BY <1>7 DEF Where, MadeDir, Linked, Takes, Allocating
<1>9. Phase(g)
  BY <1>2, <1>7, <1>8 DEF Phase, Allocating
<1>10. PICK N, E, F, T, U : /\ N = node /\ node' = N /\ E = entries /\ F = entries' /\ T = Tree
                            /\ U = Tree' /\ T = Reach(N, E) /\ U = Reach(N, F)
  BY TreeIs
<1>11. N \in Nodes /\ E \in Blocks /\ F \in Blocks
  BY <1>10 DEF FsTypeOK, DiskTypes, Nodes, Blocks
<1>12. /\ T \subseteq FsSector /\ RootSector \in T /\ 0 \notin T
       /\ \A d \in T, n \in Name : N[d].type = "dir" => Ent(N, E, d, n) \in T \cup {0}
       /\ \A t \in T : N[t].block \in FsSector
  BY <1>10, TreeFacts
<1>13. /\ b \in T /\ N[b].type = "dir" /\ Ent(N, E, b, nm) = 0 /\ c \notin T
       /\ (\A t \in T : N[t].block # k) /\ N[c] = [type |-> "dir", block |-> k]
       /\ \A t \in T : t # b => N[t].block # N[b].block
       /\ E[k] = NoEntries /\ F = SetEntry(E, N[b].block, nm, c)
  BY <1>2, <1>4, <1>6, <1>10 DEF Entry, Ent
<1>14. /\ F[N[b].block][nm] = c
       /\ \A n \in EntryName \ {nm} : F[N[b].block][n] = E[N[b].block][n]
       /\ \A x \in FsSector : x # N[b].block => F[x] = E[x]
  <2>1. F = [E EXCEPT ![N[b].block][nm] = c] /\ nm \in EntryName /\ N[b].block \in FsSector
    BY <1>12, <1>13 DEF SetEntry, EntryName
  <2> QED
    BY ONLY <1>11, <2>1 DEF Blocks
<1>15. \A d \in T, n \in EntryName : Ent(N, F, d, n) = IF d = b /\ n = nm THEN c ELSE Ent(N, E, d, n)
  BY ONLY <1>12, <1>13, <1>14 DEF Ent
<1>16. Name \subseteq EntryName /\ "." \in EntryName \ Name /\ ".." \in EntryName \ Name
  BY FileSystemAssumption DEF EntryName
<1>17. \A n \in EntryName : Ent(N, F, c, n) = 0
  <2>1. k # N[b].block
    BY <1>13
  <2>2. F[k] = NoEntries
    BY ONLY <1>13, <1>14, <2>1, k \in FsSector
  <2>3. N[c].block = k
    BY ONLY <1>13
  <2> QED
    BY ONLY <2>2, <2>3 DEF Ent, NoEntries
<1>18. U = T \cup {c}
  <2>1. Kids(N, F, c) = {}
    BY <1>16, <1>17 DEF Kids, Ent
  <2>2. Kids(N, F, b) = Kids(N, E, b) \cup {c}
    <3>1. \A n \in Name : F[N[b].block][n] = IF n = nm THEN c ELSE E[N[b].block][n]
      BY <1>14, <1>16
    <3>2. E[N[b].block][nm] = 0 /\ c # 0
      BY <1>2, <1>13 DEF Ent
    <3> QED
      BY ONLY <3>1, <3>2, nm \in Name DEF Kids
  <2>3. \A d \in T : d # b => Kids(N, F, d) = Kids(N, E, d)
    BY ONLY <1>15, <1>16 DEF Kids, Ent
  <2>4. c \in FsSector /\ \A d \in Reach(N, E) : N[d].type = "dir" =>
          Kids(N, F, d) = IF d = b THEN Kids(N, E, d) \cup {c} ELSE Kids(N, E, d)
    BY ONLY <1>10, <2>2, <2>3, c \in FsSector
  <2>5. b \in Reach(N, E) /\ N[b].type = "dir"
    BY ONLY <1>10, <1>13
  <2>6. Reach(N, F) = Reach(N, E) \cup {c}
    BY ONLY <1>11, <2>1, <2>4, <2>5, ReachAdd
  <2> QED
    BY ONLY <1>10, <2>6
<1>19. TreeGrows
  <2>1. \A d \in T, n \in Name : N[d].type = "dir" /\ Ent(N, E, d, n) # 0
          => Ent(N, F, d, n) = Ent(N, E, d, n)
    BY <1>13, <1>15, <1>16
  <2> QED
    BY ONLY <1>10, <1>18, <2>1 DEF TreeGrows
<1>20. ASSUME NEW q \in Process \ {p} PROVE SameFor(q)
  <2>1. ASSUME MadeDir(frame[q])
        PROVE  /\ Ent(node', entries', frame[q].sector, ".") = Ent(node, entries, frame[q].sector, ".")
               /\ Ent(node', entries', frame[q].sector, "..") = Ent(node, entries, frame[q].sector, "..")
    <3>1. PICK e \in T : e = frame[q].sector
      BY <1>10, <2>1, MadeInTree
    <3>2. Ent(N, F, e, ".") = Ent(N, E, e, ".") /\ Ent(N, F, e, "..") = Ent(N, E, e, "..")
      BY ONLY <1>15, <1>16, <3>1, nm \in Name
    <3> QED
      BY ONLY <1>10, <3>1, <3>2
  <2>2. ASSUME Where(frame[q]) = "add"
        PROVE  entries'[frame[q].block] = entries[frame[q].block]
    <3>1. frame[q].block \in FsSector /\ Phase(frame[q])
      BY DEF TreeInv, FsTypeOK, MemoryTypes, Frame
    <3>2. frame[q].pc \in Allocating /\ frame[q].block # 0
      BY <2>2, <3>1 DEF Phase, Where, Allocating
    <3>3. frame[q].block \in Takes(frame[q])
      BY <3>2 DEF Takes
    <3>4. frame[q].block # N[b].block
      BY <1>4, <1>10, <3>3, TreeFacts
    <3> QED
      BY <1>10, <1>14, <3>1, <3>4
  <2>3. node' = node
    BY <1>10
  <2> QED
    BY ONLY <2>1, <2>2, <2>3 DEF SameFor
<1>21. \A t \in Slot : inode'[t].sector = inode[t].sector
  BY ReopenSectors
<1>22. SectorsStay /\ PwdStays(p)
  BY <1>21, SectorsSame DEF PwdStays, holdVars
<1>23. Written(node', entries', Tree', inode', g)
  <2>1. inode'[s].sector = b
    BY <1>3, <1>21
  <2>2. \A i \in DOMAIN g.dirs : g.dirs[i] = s
    BY ONLY <1>7
  <2>3. PICK J : J = inode'
    OBVIOUS
  <2>4. Parent(J, g) = b /\ \A i \in DOMAIN g.dirs : N[J[g.dirs[i]].sector].type = "dir"
    <3>1. J[s].sector = b /\ g.dirs[1] = s /\ N[b].type = "dir"
      BY ONLY <1>7, <1>13, <2>1, <2>3
    <3> QED
      BY ONLY <2>2, <3>1 DEF Parent
  <2>5. Ent(N, F, b, nm) = c /\ "." \in EntryName /\ ".." \in EntryName
    BY ONLY <1>13, <1>15, <1>16, nm \in Name
  <2>6. /\ g.sector \in U /\ N[g.sector].type = "dir"
        /\ \E n \in Name : Ent(N, F, Parent(J, g), n) = g.sector
        /\ Ent(N, F, Parent(J, g), g.name) = g.sector
        /\ g.inode \notin Slot
        /\ Ent(N, F, g.sector, ".") = 0 /\ Ent(N, F, g.sector, "..") = 0
    <3>1. g.sector = c /\ g.name = nm /\ g.inode = Nil /\ Nil \notin Slot /\ N[c].type = "dir"
      BY ONLY <1>3, <1>7, <1>13
    <3> QED
      BY ONLY <1>17, <1>18, <2>4, <2>5, <3>1, nm \in Name
  <2>7. Written(N, F, U, J, g)
    BY ONLY <1>8, <2>4, <2>6 DEF Written, NoDots
  <2> QED
    BY <1>10, <2>3, <2>7
<1>24. Onward(p, g)
  BY <1>1, <1>2, <1>7, <1>9, <1>22, <1>23 DEF Onward
<1>25. frame'[p] = g /\ \A q \in Process \ {p} : frame'[q] = frame[q]
  BY <1>7, Changed
<1>26. PICK fr, gr, lo, fm : /\ fr = frame /\ gr = frame' /\ lo = lost /\ lo = lost'
                             /\ fm = free_map /\ fm = free_map'
  OBVIOUS
<1>27. OneOwner(N, U, gr, lo, fm)
  <2>1. OneOwner(N, T, fr, lo, fm)
    BY <1>10, <1>26 DEF TreeInv
  <2>2. Takes(fr[p]) = Sectors(N, c) /\ Takes(gr[p]) = {}
    BY ONLY <1>5, <1>8, <1>13, <1>25, <1>26 DEF Sectors
  <2>3. \A q \in Process \ {p} : Takes(gr[q]) = Takes(fr[q])
    BY <1>25, <1>26
  <2>4. OneOwner(N, T \cup {c}, gr, lo, fm)
    BY ONLY <1>13, <2>1, <2>2, <2>3, OwnersLink, p \in Process
  <2> QED
    BY <1>18, <2>4
<1>29. Rooted(N, F, U, gr)
  <2>1. Rooted(N, E, T, fr)
    BY <1>10, <1>26 DEF TreeInv
  <2>2. MadeDir(gr[p]) /\ gr[p].sector = c /\ N[c].type = "dir"
    BY ONLY <1>7, <1>8, <1>13, <1>25, <1>26
  <2>3. \A q \in Process : MadeDir(fr[q]) => MadeDir(gr[q]) /\ gr[q].sector = fr[q].sector
    BY <1>2, <1>25, <1>26
  <2>4. \A n \in Name : Ent(N, F, c, n) = 0
    BY <1>16, <1>17
  <2>5. Rooted(N, F, T \cup {c}, gr)
    <3>1. /\ c # 0 /\ c \notin T /\ b \in T /\ N[b].type = "dir" /\ Ent(N, E, b, nm) = 0
          /\ RootSector \in T /\ 0 \notin T /\ N[c].type # "none" /\ nm \in Name
          /\ \A d \in T, n \in Name : N[d].type = "dir" => Ent(N, E, d, n) \in T \cup {0}
          /\ \E q \in Process : MadeDir(gr[q]) /\ gr[q].sector = c
      BY ONLY <1>2, <1>12, <1>13, <2>2, nm \in Name, p \in Process
    <3>2. \A d \in T, n \in EntryName :
            N[d].type = "dir" =>
              Ent(N, F, d, n) = IF d = b /\ n = nm THEN c ELSE Ent(N, E, d, n)
      BY ONLY <1>15
    <3>3. LinkMade(N, N, E, F, T, fr, gr, c, b, nm)
      BY ONLY <2>1, <2>3, <2>4, <3>1, <3>2 DEF LinkMade
    <3> QED
      BY ONLY <3>3, RootedLink
  <2> QED
    BY <1>18, <2>5
<1>30. /\ OneOwner(node', Tree', frame', lost', free_map')
       /\ Rooted(node', entries', Tree', frame')
  BY ONLY <1>10, <1>26, <1>27, <1>29
<1> QED
  BY ONLY <1>19, <1>20, <1>24, <1>30, CallStep, FsTypeOK, RefInv, TreeInv, p \in Process

LEMMA AddNameTree ==
  ASSUME FsTypeOK, RefInv, TreeInv, FsTypeOK', NEW p \in Process, AddName(p)
  PROVE  TreeInv'
<1>1. frame[p].pc = "add"
  BY DEF AddName, At
<1>2. PICK s, b : s = frame[p].dirs[1] /\ b = inode[s].sector
  OBVIOUS
<1>3. /\ UNCHANGED <<free_map, node, diskMap, open_inodes, heap, holdVars, running, lost>>
      /\ entries' = SetEntry(entries, node[b].block, frame[p].name,
                       IF entries[node[b].block][frame[p].name] = 0 THEN frame[p].sector
                       ELSE entries[node[b].block][frame[p].name])
  BY <1>2 DEF AddName, Add, SetEntry, lostVars
<1>4. CASE Entry(b, frame[p].name) # 0
  <2>1. /\ frame' = [frame EXCEPT ![p] = [frame[p] EXCEPT !.pc = "release"]]
        /\ UNCHANGED inode
    BY <1>2, <1>4 DEF AddName, Goto
  <2>2. UNCHANGED entries
    <3>1. entries' = SetEntry(entries, node[b].block, frame[p].name,
                       entries[node[b].block][frame[p].name])
      BY <1>3, <1>4 DEF Entry
    <3>2. entries \in [FsSector -> [EntryName -> FsSector]]
      BY DEF FsTypeOK, DiskTypes
    <3> QED
      BY ONLY <3>1, <3>2 DEF SetEntry
  <2> QED
    BY <1>1, <1>3, <2>1, <2>2, NameTakenTree DEF diskVars, memoryVars
<1>5. CASE Entry(b, frame[p].name) = 0
  <2>1. /\ Reopen(p, s)
        /\ frame' = [frame EXCEPT ![p] = [frame[p] EXCEPT !.pc = "lookup", !.dirs = <<s, s>>]]
    BY <1>2, <1>5 DEF AddName, Resume
  <2>2. entries' = SetEntry(entries, node[b].block, frame[p].name, frame[p].sector)
    BY <1>3, <1>5 DEF Entry
  <2> QED
    BY <1>1, <1>2, <1>3, <1>5, <2>1, <2>2, NameAddedTree
<1> QED
  BY <1>4, <1>5

-----------------------------------------------------------------------------
(* Boot.                                                                   *)

LEMMA OutsideSays ==
  ASSUME NEW f, f.pc = "outside", f.dirs = << >>
  PROVE  /\ Takes(f) = {} /\ ~MadeDir(f)
         /\ \A N, E, T, I : Written(N, E, T, I, f)
<1>1. Where(f) = "outside"
  BY DEF Where
<1>2. ~MadeDir(f)
  BY <1>1 DEF MadeDir, Linked
<1> QED
  BY <1>1, <1>2 DEF Takes, Allocating, Written

(* Before the kernel runs, only the root is open and no process is in a    *)
(* call.                                                                   *)
LEMMA BootFacts ==
  ASSUME FsTypeOK, RefInv, TreeInv, ~running
  PROVE  /\ open_inodes = {1} /\ Nil \notin Slot
         /\ \A p \in Process :
              /\ frame[p].pc = "outside" /\ pwd[p] = Nil
              /\ Takes(frame[p]) = {} /\ ~MadeDir(frame[p]) /\ Phase(frame[p])
              /\ frame[p].sector \in FsSector /\ frame[p].block \in FsSector
              /\ \A N, E, T, I : Written(N, E, T, I, frame[p])
<1>1. open_inodes = {1} /\ Nil \notin Slot
  BY FileSystemAssumption DEF TreeInv, OpenInTree
<1>2. ASSUME NEW p \in Process
      PROVE  /\ frame[p].pc = "outside" /\ frame[p].dirs = << >> /\ pwd[p] = Nil
             /\ Phase(frame[p]) /\ frame[p] \in Frame
  <2>1. frame[p].pc = "outside" /\ pwd[p] = Nil /\ Shape(frame[p]) /\ Phase(frame[p])
        /\ frame[p] \in Frame
    BY DEF RefInv, Started, TreeInv, FsTypeOK, MemoryTypes
  <2> QED
    BY <2>1 DEF Shape, Where
<1>3. \A p \in Process : frame[p].sector \in FsSector /\ frame[p].block \in FsSector
  BY <1>2 DEF Frame
<1> QED
  BY <1>1, <1>2, <1>3, OutsideSays

(* A boot action, from its effect on sectors and on the tree. *)
LEMMA BootStep ==
  ASSUME FsTypeOK, RefInv, TreeInv, ~running,
         UNCHANGED <<memoryVars, holdVars, frame, running>>, RootSector \in Tree',
         OneOwner(node', Tree', frame', lost', free_map'),
         Rooted(node', entries', Tree', frame')
  PROVE  TreeInv'
<1>1. UNCHANGED <<inode, open_inodes, pwd, frame, running>>
  BY DEF memoryVars, holdVars
<1>2. \A p \in Process : Phase(frame'[p]) /\ Written(node', entries', Tree', inode', frame'[p])
  BY <1>1, BootFacts
<1>3. Apart(frame')
  BY <1>1 DEF TreeInv
<1>4. OpenInTree(node', Tree', inode', open_inodes', pwd', running')
  <2>1. inode[1].sector = RootSector /\ open_inodes = {1} /\ \A p \in Process : pwd[p] \notin Slot
    BY BootFacts DEF TreeInv, OpenInTree
  <2> QED
    BY <1>1, <2>1 DEF OpenInTree
<1> QED
  BY <1>2, <1>3, <1>4 DEF TreeInv

LEMMA ExtractTree ==
  ASSUME FsTypeOK, RefInv, TreeInv, FsTypeOK', NEW name \in Name, Extract(name), ~stopped'
  PROVE  TreeInv'
<1>1. ~running /\ UNCHANGED <<memoryVars, holdVars, frame, running, lost>>
  BY DEF Extract, lostVars
<1> DEFINE sector == Lowest(Unused)
           block == Lowest(Unused \ {sector})
<1>2. /\ Entry(RootSector, name) = 0 /\ ~(Cardinality(Unused) < 2)
      /\ free_map' = free_map \cup {sector, block}
      /\ node' = [node EXCEPT ![sector] = [type |-> "file", block |-> block]]
      /\ entries' = [entries EXCEPT ![node[RootSector].block][name] = sector,
                                    ![block] = NoEntries]
  BY DEF Extract
<1>3. sector \in Unused /\ block \in Unused \ {sector}
  <2>1. Unused # {} /\ Unused \ {sector} # {}
    <3>1. Cardinality(Unused) \in Nat
      BY UnusedFinite, FS_CardinalityType
    <3>2. Cardinality(Unused) >= 2
      BY <1>2, <3>1
    <3> QED
      BY <3>2, UnusedFinite
  <2>2. Unused \in SUBSET Nat /\ Unused \ {sector} \in SUBSET Nat
    BY UnusedFinite
  <2>3. sector \in Unused
    BY <2>1, <2>2, LowestIsLeast
  <2>4. block \in Unused \ {sector}
    <3> HIDE DEF sector
    <3> QED
      BY <2>1, <2>2, LowestIsLeast
  <2> QED
    BY <2>3, <2>4
<1> HIDE DEF sector, block
<1>4. PICK c \in FsSector, k \in FsSector, r \in FsSector :
        /\ c = sector /\ k = block /\ c \notin free_map /\ k \notin free_map /\ c # k
        /\ r = node[RootSector].block
  BY <1>3, TreeFacts DEF Unused
<1>5. PICK N, M, E, F, T, U, fr, gr, lo, fm :
        /\ N = node /\ M = node' /\ E = entries /\ F = entries' /\ T = Tree /\ U = Tree'
        /\ T = Reach(N, E) /\ U = Reach(M, F) /\ fr = frame /\ gr = frame' /\ lo = lost
        /\ fm = free_map
  BY TreeIs
<1>6. N \in Nodes /\ M \in Nodes /\ E \in Blocks /\ F \in Blocks
  BY <1>5 DEF FsTypeOK, DiskTypes, Nodes, Blocks
<1>7. /\ OneOwner(N, T, fr, lo, fm) /\ Rooted(N, E, T, fr)
  BY <1>5 DEF TreeInv
<1>8. /\ T \subseteq FsSector /\ RootSector \in T /\ 0 \notin T
      /\ \A d \in T, n \in Name : N[d].type = "dir" => Ent(N, E, d, n) \in T \cup {0}
      /\ \A t \in T : N[t].block \in FsSector
      /\ \A t \in T : N[t].block = r => t = RootSector
  BY <1>4, <1>5, TreeFacts
<1>9. /\ c # 0 /\ k # 0 /\ c \notin T /\ \A t \in T : N[t].block # k
  <2>1. c \notin fm /\ k \notin fm
    BY <1>4, <1>5
  <2> QED
    BY <1>7, <1>8, <2>1, ZeroSector DEF OneOwner, Others, Sectors
<1>10. /\ M[c] = [type |-> "file", block |-> k] /\ \A t \in FsSector \ {c} : M[t] = N[t]
  <2>1. M = [N EXCEPT ![c] = [type |-> "file", block |-> k]]
    BY ONLY <1>2, <1>4, <1>5
  <2> QED
    BY ONLY <1>6, <2>1, c \in FsSector DEF Nodes
<1>11. Name \subseteq EntryName /\ "." \in EntryName \ Name /\ ".." \in EntryName \ Name
  BY FileSystemAssumption DEF EntryName
<1>12. /\ F[r][name] = c /\ (\A n \in EntryName \ {name} : F[r][n] = E[r][n])
       /\ \A x \in FsSector \ {r, k} : F[x] = E[x]
  <2>1. F = [E EXCEPT ![r][name] = c, ![k] = NoEntries]
    BY ONLY <1>2, <1>4, <1>5
  <2>2. name \in EntryName /\ r # k
    BY <1>4, <1>5, <1>8, <1>9, <1>11
  <2> QED
    BY ONLY <1>6, <2>1, <2>2, r \in FsSector, k \in FsSector DEF Blocks
<1>13. /\ \A t \in T : M[t] = N[t]
       /\ \A d \in T, n \in EntryName :
            Ent(M, F, d, n) = IF d = RootSector /\ n = name THEN c ELSE Ent(N, E, d, n)
  <2>1. \A t \in T : M[t] = N[t]
    BY ONLY <1>8, <1>9, <1>10
  <2>2. N[RootSector].block = r
    BY ONLY <1>4, <1>5
  <2> QED
    BY ONLY <1>8, <1>9, <1>12, <2>1, <2>2 DEF Ent
<1>14. /\ N[RootSector].type = "dir" /\ Ent(N, E, RootSector, name) = 0
  BY <1>2, <1>5, <1>7 DEF Rooted, Entry, Ent
<1>15. U = T \cup {c}
  <2>1. \A d \in T : Kids(M, F, d) = {Ent(M, F, d, n) : n \in Name} \ {0}
    BY DEF Kids, Ent
  <2>2. \A d \in T : Kids(N, E, d) = {Ent(N, E, d, n) : n \in Name} \ {0}
    BY DEF Kids, Ent
  <2>3. Kids(M, F, RootSector) = Kids(N, E, RootSector) \cup {c}
    <3>1. \A n \in Name : Ent(M, F, RootSector, n)
                          = IF n = name THEN c ELSE Ent(N, E, RootSector, n)
      BY ONLY <1>8, <1>11, <1>13
    <3> QED
      BY ONLY <1>8, <1>9, <1>14, <2>1, <2>2, <3>1, name \in Name
  <2>4. \A d \in T : d # RootSector => Kids(M, F, d) = Kids(N, E, d)
    BY ONLY <1>11, <1>13, <2>1, <2>2
  <2>5. \A d \in Reach(N, E) :
          M[d].type = N[d].type
          /\ (N[d].type = "dir" =>
                Kids(M, F, d) = IF d = RootSector THEN Kids(N, E, d) \cup {c} ELSE Kids(N, E, d))
    BY ONLY <1>5, <1>13, <2>3, <2>4
  <2>6. RootSector \in Reach(N, E) /\ M[c].type # "dir"
    BY ONLY <1>5, <1>8, <1>10
  <2>7. Reach(M, F) = Reach(N, E) \cup {c}
    BY ONLY <1>6, <1>14, <2>5, <2>6, c \in FsSector, ReachAdd
  <2> QED
    BY ONLY <1>5, <2>7
<1>16. gr = fr /\ lost' = lo
  BY <1>1, <1>5
<1>17. OneOwner(M, U, gr, lo, fm \cup {c, k})
  <2>1. Sectors(M, c) = {c, k} /\ {c, k} \cap fm = {}
    BY ONLY <1>4, <1>5, <1>10 DEF Sectors
  <2>2. Sectors(M, c) \cap fm = {}
    BY ONLY <2>1
  <2>3. OneOwner(M, T \cup {c}, fr, lo, fm \cup Sectors(M, c))
    BY ONLY <1>7, <1>9, <1>13, <2>2, OwnersExtract
  <2> QED
    BY ONLY <1>15, <1>16, <2>1, <2>3
<1>19. Rooted(M, F, U, gr)
  <2>1. \A q \in Process : MadeDir(fr[q]) => MadeDir(gr[q]) /\ gr[q].sector = fr[q].sector
    BY ONLY <1>16
  <2>2. M[c].type = "file"
    BY ONLY <1>10
  <2>3. LinkMade(N, M, E, F, T, fr, gr, c, RootSector, name)
    BY ONLY <1>7, <1>8, <1>9, <1>13, <1>14, <2>1, <2>2, name \in Name DEF LinkMade
  <2>4. Rooted(M, F, T \cup {c}, gr)
    BY ONLY <2>3, RootedLink
  <2> QED
    BY ONLY <1>15, <2>4
<1>20. RootSector \in Tree' /\ free_map' = fm \cup {c, k}
  BY ONLY <1>2, <1>4, <1>5, <1>8, <1>15
<1>21. /\ OneOwner(node', Tree', frame', lost', free_map')
       /\ Rooted(node', entries', Tree', frame')
  BY ONLY <1>5, <1>16, <1>17, <1>19, <1>20
<1> QED
  BY ONLY <1>1, <1>20, <1>21, BootStep, FsTypeOK, RefInv, TreeInv

LEMMA RemoveTree ==
  ASSUME FsTypeOK, RefInv, TreeInv, FsTypeOK', NEW name \in Name, Remove(name)
  PROVE  TreeInv'
<1>1. PICK c, k, r : /\ c = Entry(RootSector, name) /\ k = node[c].block
                     /\ r = node[RootSector].block
  OBVIOUS
<1>2. /\ ~running /\ c # 0
      /\ node[c].type = "file" \/ \A n \in Name : entries[k][n] = 0
      /\ entries' = [entries EXCEPT ![r][name] = 0, ![k] = NoEntries]
      /\ node' = [node EXCEPT ![c] = NoNode]
      /\ \/ free_map' = free_map \ {c, k} /\ UNCHANGED lost
         \/ lost' = lost \cup {c, k} /\ UNCHANGED free_map
      /\ UNCHANGED <<memoryVars, holdVars, frame, running>>
  BY <1>1 DEF Remove
<1>3. PICK N, M, E, F, T, U, fr, gr, lo, mo, fm, gm :
        /\ N = node /\ M = node' /\ E = entries /\ F = entries' /\ T = Tree /\ U = Tree'
        /\ T = Reach(N, E) /\ U = Reach(M, F) /\ fr = frame /\ gr = frame' /\ lo = lost
        /\ mo = lost' /\ fm = free_map /\ gm = free_map'
  BY TreeIs
<1>4. N \in Nodes /\ M \in Nodes /\ E \in Blocks /\ F \in Blocks
  BY <1>3 DEF FsTypeOK, DiskTypes, Nodes, Blocks
<1>5. OneOwner(N, T, fr, lo, fm) /\ Rooted(N, E, T, fr)
  BY <1>3 DEF TreeInv
<1>6. /\ T \subseteq FsSector /\ RootSector \in T /\ 0 \notin T
      /\ \A d \in T, n \in Name : N[d].type = "dir" => Ent(N, E, d, n) \in T \cup {0}
      /\ \A t \in T : N[t].block \in FsSector
      /\ \A t, u \in T : N[t].block = N[u].block => t = u
  BY <1>3, TreeFacts
<1>7. N[RootSector].type = "dir" /\ Ent(N, E, RootSector, name) = c /\ N[c].block = k
      /\ N[RootSector].block = r
  BY <1>1, <1>3, <1>5 DEF Rooted, Entry, Ent
<1>8. c \in T /\ c # RootSector
  <2>1. c \in T
    BY <1>2, <1>6, <1>7
  <2> QED
    BY <1>5, <1>6, <1>7, <2>1 DEF Rooted
<1>9. Name \subseteq EntryName /\ "." \in EntryName \ Name /\ ".." \in EntryName \ Name
  BY FileSystemAssumption DEF EntryName
<1>10. /\ c \in FsSector /\ k \in FsSector /\ r \in FsSector /\ r # k
       /\ \A t \in T \ {c} : N[t].block # k
       /\ \A t \in T \ {RootSector} : N[t].block # r
  BY ONLY <1>6, <1>7, <1>8
<1>11. \A t \in FsSector \ {c} : M[t] = N[t]
  <2>1. M = [N EXCEPT ![c] = NoNode]
    BY ONLY <1>2, <1>3
  <2> QED
    BY ONLY <1>4, <2>1 DEF Nodes
<1>12. /\ F[r][name] = 0 /\ (\A n \in EntryName \ {name} : F[r][n] = E[r][n])
       /\ \A x \in FsSector \ {r, k} : F[x] = E[x]
  <2>1. F = [E EXCEPT ![r][name] = 0, ![k] = NoEntries]
    BY ONLY <1>2, <1>3
  <2>2. name \in EntryName
    BY <1>9
  <2> QED
    BY ONLY <1>4, <1>10, <2>1, <2>2 DEF Blocks
<1>13. /\ \A t \in T \ {c} : M[t] = N[t]
       /\ \A d \in T \ {c}, n \in EntryName :
            Ent(M, F, d, n) = IF d = RootSector /\ n = name THEN 0 ELSE Ent(N, E, d, n)
  <2>1. \A t \in T \ {c} : M[t] = N[t]
    BY ONLY <1>6, <1>11
  <2> QED
    BY ONLY <1>6, <1>7, <1>10, <1>12, <2>1 DEF Ent
<1>14. U = T \ {c}
  <2>1. \A d \in T : Kids(M, F, d) = {Ent(M, F, d, n) : n \in Name} \ {0}
    BY DEF Kids, Ent
  <2>2. \A d \in T : Kids(N, E, d) = {Ent(N, E, d, n) : n \in Name} \ {0}
    BY DEF Kids, Ent
  <2>3. \A d \in T, n \in Name : N[d].type = "dir" /\ Ent(N, E, d, n) = c =>
          d = RootSector /\ n = name
    BY ONLY <1>2, <1>5, <1>6, <1>7, name \in Name DEF Rooted
  <2>4. ASSUME NEW d \in T \ {c}, N[d].type = "dir"
        PROVE  Kids(M, F, d) = Kids(N, E, d) \ {c}
    <3>1. CASE d = RootSector
      <4>1. \A n \in Name : /\ Ent(M, F, d, n) = IF n = name THEN 0 ELSE Ent(N, E, d, n)
                            /\ Ent(N, E, d, n) = c <=> n = name
        BY ONLY <1>7, <1>9, <1>13, <2>3, <2>4, <3>1
      <4> QED
        BY ONLY <2>1, <2>2, <4>1, d \in T
    <3>2. CASE d # RootSector
      <4>1. \A n \in Name : Ent(M, F, d, n) = Ent(N, E, d, n) /\ Ent(N, E, d, n) # c
        BY ONLY <1>9, <1>13, <2>3, <2>4, <3>2
      <4> QED
        BY ONLY <2>1, <2>2, <4>1, d \in T
    <3> QED
      BY <3>1, <3>2
  <2>5. N[c].type = "dir" => Kids(N, E, c) = {}
    <3>1. N[c].type = "dir" => \A n \in Name : E[k][n] = 0
      BY ONLY <1>2, <1>3
    <3> QED
      BY ONLY <1>7, <3>1 DEF Kids
  <2>6. \A d \in Reach(N, E) \ {c} :
          /\ M[d].type = N[d].type
          /\ N[d].type = "dir" => Kids(M, F, d) = Kids(N, E, d) \ {c}
    BY ONLY <1>3, <1>13, <2>4
  <2>7. Reach(M, F) = Reach(N, E) \ {c}
    BY ONLY <1>4, <1>8, <1>10, <2>5, <2>6, ReachRemove
  <2> QED
    BY ONLY <1>3, <2>7
<1>15. gr = fr
  BY <1>2, <1>3
<1>16. OneOwner(M, U, gr, mo, gm)
  <2>1. Sectors(N, c) = {c, k}
    BY ONLY <1>7 DEF Sectors
  <2>2. \/ gm = fm \ {c, k} /\ mo = lo
        \/ gm = fm /\ mo = lo \cup {c, k}
    BY ONLY <1>2, <1>3
  <2>3. \/ gm = fm \ Sectors(N, c) /\ Others(mo) = Others(lo)
        \/ gm = fm /\ Others(mo) = Others(lo) \cup Sectors(N, c)
    BY ONLY <2>1, <2>2 DEF Others
  <2>4. OneOwner(M, T \ {c}, fr, mo, gm)
    BY ONLY <1>5, <1>8, <1>13, <2>3, OwnersRemove
  <2> QED
    BY ONLY <1>14, <1>15, <2>4
<1>18. Rooted(M, F, U, gr)
  <2>1. NameGone(N, M, E, F, T, fr, c, name)
    BY ONLY <1>5, <1>6, <1>7, <1>8, <1>13, name \in Name DEF NameGone
  <2>2. Rooted(M, F, T \ {c}, fr)
    BY ONLY <2>1, RootedRemove
  <2> QED
    BY ONLY <1>14, <1>15, <2>2
<1>19. RootSector \in Tree'
  BY ONLY <1>3, <1>6, <1>8, <1>14
<1>20. /\ OneOwner(node', Tree', frame', lost', free_map')
       /\ Rooted(node', entries', Tree', frame')
  BY ONLY <1>3, <1>15, <1>16, <1>18
<1> QED
  BY ONLY <1>2, <1>19, <1>20, BootStep, FsTypeOK, RefInv, TreeInv

(* No process is in a call, and memory is as when the machine is started. *)
LEMMA FreshMemory ==
  ASSUME NEW N, NEW E, NEW T, NEW I, NEW op, NEW pw, NEW fr, RootSector \in T,
         I = [s \in Slot |-> IF s = 1 THEN [sector |-> RootSector, cnt |-> 1] ELSE NoInode],
         op = {1}, pw = [p \in Process |-> Nil], \A p \in Process : fr[p] = Outside
  PROVE  /\ OpenInTree(N, T, I, op, pw, FALSE) /\ Apart(fr)
         /\ \A p \in Process : Phase(fr[p]) /\ Written(N, E, T, I, fr[p])
<1>1. 1 \in Slot /\ Nil \notin Slot
  BY FileSystemAssumption DEF Slot
<1>2. I[1].sector = RootSector
  BY ONLY <1>1, I = [s \in Slot |-> IF s = 1 THEN [sector |-> RootSector, cnt |-> 1] ELSE NoInode]
<1>3. OpenInTree(N, T, I, op, pw, FALSE)
  <2>1. \A p \in Process : pw[p] \notin Slot
    BY <1>1
  <2> QED
    BY <1>2, <2>1 DEF OpenInTree
<1>4. Apart(fr)
  BY OutsideTree DEF Apart
<1>5. \A p \in Process : Phase(fr[p]) /\ Written(N, E, T, I, fr[p])
  BY OutsideTree
<1> QED
  BY <1>3, <1>4, <1>5

(* The free map is read from its file: what it has too much is lost. *)
LEMMA OwnersReboot ==
  ASSUME NEW N, NEW T, NEW fr, NEW lo, NEW fm, NEW dm, OneOwner(N, T, fr, lo, fm),
         \A q \in Process : Takes(fr[q]) = {}, {0, 2} \subseteq dm,
         \A t \in T : Sectors(N, t) \subseteq dm
  PROVE  OneOwner(N, T, fr, (lo \cap dm) \cup (dm \ fm), dm)
<1> DEFINE mo == (lo \cap dm) \cup (dm \ fm)
<1>1. ASSUME NEW t \in T, NEW s \in FsSector, s \in Sectors(N, t) PROVE s \notin Others(mo)
  BY <1>1 DEF OneOwner, Others
<1>2. ASSUME NEW s \in FsSector
      PROVE  s \in dm <=> s \in Others(mo) \/ \E t \in T : s \in Sectors(N, t)
  <2>1. s \in Others(mo) \/ (\E t \in T : s \in Sectors(N, t)) => s \in dm
    BY DEF Others
  <2>2. ASSUME s \in dm PROVE s \in Others(mo) \/ \E t \in T : s \in Sectors(N, t)
    <3>1. CASE s \in fm
      BY <2>2, <3>1 DEF OneOwner, Others
    <3>2. CASE s \notin fm
      BY <2>2, <3>2 DEF Others
    <3> QED
      BY <3>1, <3>2
  <2> QED
    BY <2>1, <2>2
<1> HIDE DEF mo
<1>3. OneOwner(N, T, fr, mo, dm)
  BY <1>1, <1>2 DEF OneOwner
<1> QED
  BY <1>3 DEF mo

(* Memory is new and the disk as it was left. *)
LEMMA RebootTree ==
  ASSUME FsTypeOK, TreeInv, FileInv, Reboot, ~stopped'
  PROVE  TreeInv'
<1>1. \A p \in Process : frame[p] = Outside
  BY DEF Reboot
<1>2. /\ OneOwner(node, Tree, frame, lost, free_map)
      /\ Rooted(node, entries, Tree, frame)
  BY DEF TreeInv
<1>3. /\ UNCHANGED <<node, entries, diskMap, frame>> /\ running' = FALSE
      /\ free_map' = diskMap /\ lost' = (lost \cap diskMap) \cup (diskMap \ free_map)
  BY DEF Reboot, diskVars
<1>4. Tree' = Tree
  BY <1>3, DiskAlone
<1>5. OneOwner(node, Tree, frame, (lost \cap diskMap) \cup (diskMap \ free_map), diskMap)
  <2>1. \A q \in Process : Takes(frame[q]) = {}
    BY <1>1, OutsideTree
  <2>2. {0, 2} \subseteq diskMap
    BY DEF FileInv, Marked
  <2>3. \A t \in Tree : Sectors(node, t) \subseteq diskMap
    BY DEF Reboot, Sectors
  <2> QED
    BY ONLY <1>2, <2>1, <2>2, <2>3, OwnersReboot
<1>6. /\ OneOwner(node', Tree', frame', lost', free_map')
      /\ Rooted(node', entries', Tree', frame')
  BY ONLY <1>2, <1>3, <1>4, <1>5
<1>7. PICK N, E, T, I, op, pw, fr : /\ N = node' /\ E = entries' /\ T = Tree' /\ I = inode'
                                    /\ op = open_inodes' /\ pw = pwd' /\ fr = frame'
  OBVIOUS
<1>8. /\ I = [s \in Slot |-> IF s = 1 THEN [sector |-> RootSector, cnt |-> 1] ELSE NoInode]
      /\ op = {1} /\ pw = [p \in Process |-> Nil]
  BY <1>7 DEF Reboot
<1>9. RootSector \in T /\ \A p \in Process : fr[p] = Outside
  BY <1>1, <1>3, <1>4, <1>7, TreeFacts
<1>10. /\ OpenInTree(N, T, I, op, pw, FALSE) /\ Apart(fr)
       /\ \A p \in Process : Phase(fr[p]) /\ Written(N, E, T, I, fr[p])
  BY ONLY <1>8, <1>9, FreshMemory
<1> QED
  BY <1>3, <1>6, <1>7, <1>10 DEF TreeInv

LEMMA InitTree == FsInit => TreeInv
<1> SUFFICES ASSUME FsInit PROVE TreeInv
  OBVIOUS
<1>1. FsTypeOK
  BY InitFresh DEF FsInv
<1>2. PICK N, E, T, I, fr : /\ N = node /\ E = entries /\ T = Tree /\ I = inode /\ fr = frame
                            /\ T = Reach(N, E)
  BY TreeIs
<1>3. N \in Nodes /\ E \in Blocks
  BY <1>1, <1>2 DEF FsTypeOK, DiskTypes, Nodes, Blocks
<1>4. /\ 1 \in FsSector /\ 3 \in FsSector
      /\ "." \in EntryName \ Name /\ ".." \in EntryName \ Name /\ Name \subseteq EntryName
  BY ZeroSector, FileSystemAssumption DEF EntryName, RootSector
<1>5. N[RootSector] = [type |-> "dir", block |-> 3]
  BY <1>2, <1>4 DEF FsInit, RootSector
<1>6. /\ E[3]["."] = RootSector /\ E[3][".."] = RootSector
      /\ \A n \in Name : E[3][n] = 0
  <2>1. E[3] = [NoEntries EXCEPT !["."] = RootSector, ![".."] = RootSector]
    BY <1>2, <1>4 DEF FsInit
  <2>2. NoEntries = [n \in EntryName |-> 0]
    BY DEF NoEntries
  <2> QED
    BY ONLY <1>4, <2>1, <2>2
<1>7. T = {RootSector}
  <2>1. Kids(N, E, RootSector) = {}
    BY <1>5, <1>6 DEF Kids
  <2>2. Ends(N, E, {RootSector})
    BY <2>1 DEF Ends
  <2>3. T \subseteq {RootSector} /\ RootSector \in T
    BY <1>2, <1>3, <2>2, ReachLeast, ReachSound DEF Ends
  <2> QED
    BY <2>3
<1>8. \A p \in Process : fr[p] = Outside
  BY <1>2 DEF FsInit
<1>9. Sectors(N, RootSector) = {1, 3}
  BY <1>5 DEF Sectors, RootSector
<1>10. Others(lost) = {0, 2} /\ free_map = {0, 1, 2, 3} /\ diskMap = {0, 1, 2, 3}
  BY DEF FsInit, Others, Reserved
<1>11. \A p \in Process : Takes(fr[p]) = {} /\ ~MadeDir(fr[p])
  BY <1>8, OutsideTree
<1>12. OneOwner(N, T, fr, lost, free_map)
  BY <1>7, <1>9, <1>10, <1>11 DEF OneOwner
<1>14. Rooted(N, E, T, fr)
  <2>1. \A n \in EntryName : Ent(N, E, RootSector, n) = E[3][n]
    BY <1>5 DEF Ent
  <2>2. DotsRight(N, E, RootSector, RootSector) /\ \A n \in Name : Ent(N, E, RootSector, n) = 0
    BY <1>4, <1>6, <2>1 DEF DotsRight
  <2>3. RootSector # 0
    BY DEF RootSector
  <2> QED
    BY <1>5, <1>7, <2>2, <2>3 DEF Rooted
<1>15. PICK op, pw : op = open_inodes /\ pw = pwd /\ op = {1} /\ pw = [p \in Process |-> Nil]
                     /\ running = FALSE
  BY DEF FsInit
<1>16. I = [s \in Slot |-> IF s = 1 THEN [sector |-> RootSector, cnt |-> 1] ELSE NoInode]
  BY <1>2 DEF FsInit
<1>17. /\ OpenInTree(N, T, I, op, pw, FALSE) /\ Apart(fr)
       /\ \A p \in Process : Phase(fr[p]) /\ Written(N, E, T, I, fr[p])
  <2>1. RootSector \in T
    BY <1>7
  <2> QED
    BY ONLY <1>8, <1>15, <1>16, <2>1, FreshMemory
<1> QED
  BY <1>2, <1>12, <1>14, <1>15, <1>17 DEF TreeInv

-----------------------------------------------------------------------------
(* The free map file.                                                      *)

(* Neither map changes, and p goes on as g, neither before nor after in    *)
(* the middle of a copy.                                                   *)
LEMMA FileSame ==
  ASSUME FsTypeOK, FileInv, NEW p \in Process, NEW g, frame' = [frame EXCEPT ![p] = g],
         frame[p].pc \notin Copying, g.pc \notin Copying, g.at = 0, g.loaded = Nil,
         g.pc = "unlist" => g.next \notin Copying,
         UNCHANGED <<free_map, diskMap, stale>>
  PROVE  FileInv'
<1>1. frame'[p] = g /\ \A q \in Process \ {p} : frame'[q] = frame[q]
  BY Changed
<1>2. \A q \in Process : Idle(frame'[q]) /\ Copied(frame'[q])
  BY <1>1 DEF FileInv, Idle, Copied
<1>3. ASSUME NEW q \in Process, NEW s, ToCopy(frame[q], s) PROVE ToCopy(frame'[q], s)
  BY <1>1, <1>3 DEF ToCopy, Copying
<1>4. ASSUME NEW q \in Process, NEW s, WillSave(q, s) PROVE WillSave(q, s)'
  BY <1>1, <1>4 DEF WillSave, Saving, Copying
<1>5. Wrong(diskMap)' = Wrong(diskMap)
  BY DEF Wrong
<1>6. Marked'
  BY <1>3 DEF FileInv, Marked
<1>7. Pending'
  BY <1>4, <1>5 DEF FileInv, Pending
<1> QED
  BY <1>2, <1>6, <1>7 DEF FileInv

(* p closes an inode and goes on as after. *)
LEMMA CloseKeepsFile ==
  ASSUME FsTypeOK, FileInv, NEW p \in Process, frame[p].pc \notin Copying,
         NEW s, NEW after \in Frame, Close(p, s, after), after.pc \in PC \ Copying,
         after.at = 0, after.loaded = Nil, UNCHANGED <<free_map, diskMap, stale>>
  PROVE  FileInv'
<1> DEFINE u == [after EXCEPT !.pc = "unlist", !.closing = s, !.next = after.pc]
<1>1. /\ u.pc = "unlist" /\ u.next = after.pc /\ u.at = 0 /\ u.loaded = Nil
      /\ "unlist" \notin Copying /\ after.pc # "unlist"
  BY DEF Frame, Copying, PC
<1>2. frame' = [frame EXCEPT ![p] = after] \/ frame' = [frame EXCEPT ![p] = u]
  BY DEF Close, Resume
<1> HIDE DEF u
<1> QED
  BY <1>1, <1>2, FileSame

(* A step that leaves the maps alone, of a call that is not copying. *)
Quiet(p) ==
  /\ frame[p] \in Frame /\ frame[p].pc \notin Copying
  /\ frame[p].at = 0 /\ frame[p].loaded = Nil

LEMMA QuietCall ==
  ASSUME FsTypeOK, FileInv, NEW p \in Process, frame[p].pc \notin Copying
  PROVE  Quiet(p)
  BY DEF Quiet, FileInv, Idle, FsTypeOK, MemoryTypes

(* The steps of mkdir, but for those of the free map. *)
LEMMA MakingFile ==
  ASSUME FsTypeOK, FileInv, NEW p \in Process,
         ScanFreeMap(p) \/ MakeInode(p) \/ AddName(p) \/ AddDot(p) \/ AddParent(p)
  PROVE  FileInv'
<1>1. frame[p].pc \notin Copying
  BY DEF ScanFreeMap, MakeInode, AddName, AddDot, AddParent, At, Copying
<1>2. Quiet(p)
  BY <1>1, QuietCall
<1>3. UNCHANGED <<free_map, diskMap, stale>>
  BY DEF ScanFreeMap, MakeInode, AddName, AddDot, AddParent, diskVars, lostVars
<1> DEFINE Good(g) == g.pc \notin Copying \cup {"unlist"} /\ g.at = 0 /\ g.loaded = Nil
           Next(c)  == [frame[p] EXCEPT !.pc = c]
           Flip     == [frame[p] EXCEPT !.pc = "flip", !.pick = Lowest(Unused)]
           Look(d)  == [frame[p] EXCEPT !.pc = "lookup", !.dirs = <<d, d>>]
<1>4. PICK g : frame' = [frame EXCEPT ![p] = g] /\ Good(g)
  <2>1. \A c \in {"closedir", "makeinode", "release", "add", "addparent", "closemade"} :
          Good(Next(c))
    BY <1>2 DEF Quiet, Frame, Copying
  <2>2. Good(Flip)
    BY <1>2 DEF Quiet, Frame, Copying
  <2>3. \A d : Good(Look(d))
    BY <1>2 DEF Quiet, Frame, Copying
  <2>4. \/ \E c \in {"closedir", "makeinode", "release", "add", "addparent", "closemade"} :
             frame' = [frame EXCEPT ![p] = Next(c)]
        \/ frame' = [frame EXCEPT ![p] = Flip]
        \/ \E d : frame' = [frame EXCEPT ![p] = Look(d)]
    <3>1. CASE ScanFreeMap(p)
      BY <3>1 DEF ScanFreeMap, Resume
    <3>2. CASE MakeInode(p)
      BY <3>2 DEF MakeInode, Goto
    <3>3. CASE AddName(p)
      BY <3>3 DEF AddName, Goto, Resume
    <3>4. CASE AddDot(p) \/ AddParent(p)
      BY <3>4 DEF AddDot, AddParent, Goto
    <3> QED
      BY <3>1, <3>2, <3>3, <3>4
  <2> HIDE DEF Good, Next, Flip, Look
  <2> QED
    BY ONLY <2>1, <2>2, <2>3, <2>4
<1> QED
  BY <1>1, <1>3, <1>4, FileSame

(* The steps of inode_open(). *)
LEMMA OpeningFile ==
  ASSUME FsTypeOK, FileInv, NEW p \in Process,
         Lookup(p) \/ Allocate(p) \/ Link(p) \/ SetSector(p) \/ SetCount(p)
  PROVE  FileInv'
<1>1. frame[p].pc \notin Copying
  BY DEF Lookup, Allocate, Link, SetSector, SetCount, At, Copying
<1>2. Quiet(p)
  BY <1>1, QuietCall
<1>3. UNCHANGED <<free_map, diskMap, stale>>
  BY DEF Lookup, Allocate, Link, SetSector, SetCount, diskVars, lostVars
<1> DEFINE Good(g) == g.pc \notin Copying \cup {"unlist"} /\ g.at = 0 /\ g.loaded = Nil
<1>4. PICK g : frame' = [frame EXCEPT ![p] = g] /\ Good(g)
  <2>1. CASE Lookup(p)
    <3> DEFINE f == [frame[p] EXCEPT !.name = Nil, !.pc = "closelookup"]
    <3>1. \/ frame' = [frame EXCEPT ![p] = f]
          \/ \E x : frame' = [frame EXCEPT ![p] = [f EXCEPT !.pc = "insert", !.pick = x]]
          \/ \E s : frame' = [frame EXCEPT ![p] = [f EXCEPT !.inode = s]]
      BY <2>1 DEF Lookup, Resume
    <3>2. /\ Good(f) /\ \A x : Good([f EXCEPT !.pc = "insert", !.pick = x])
          /\ \A s : Good([f EXCEPT !.inode = s])
      BY <1>2 DEF Quiet, Frame, Copying
    <3> HIDE DEF f, Good
    <3> QED
      BY <3>1, <3>2
  <2>2. CASE Allocate(p)
    <3>1. \/ frame' = [frame EXCEPT ![p] = [frame[p] EXCEPT !.pc = "closelookup", !.pick = 0]]
          \/ \E s : frame' = [frame EXCEPT ![p] = [frame[p] EXCEPT !.pc = "link", !.making = s]]
      BY <2>2 DEF Allocate, Resume
    <3>2. /\ Good([frame[p] EXCEPT !.pc = "closelookup", !.pick = 0])
          /\ \A s : Good([frame[p] EXCEPT !.pc = "link", !.making = s])
      BY <1>2 DEF Quiet, Frame, Copying
    <3> HIDE DEF Good
    <3> QED
      BY <3>1, <3>2
  <2>3. CASE Link(p) \/ SetSector(p)
    <3>1. \E c \in {"setsector", "setcount"} :
            frame' = [frame EXCEPT ![p] = [frame[p] EXCEPT !.pc = c]]
      BY <2>3 DEF Link, SetSector, Goto
    <3>2. \A c \in {"setsector", "setcount"} : Good([frame[p] EXCEPT !.pc = c])
      BY <1>2 DEF Quiet, Frame, Copying
    <3> HIDE DEF Good
    <3> QED
      BY <3>1, <3>2
  <2>4. CASE SetCount(p)
    <3>1. \E s : frame' = [frame EXCEPT ![p] = [frame[p] EXCEPT !.pc = "closelookup",
                                                  !.pick = 0, !.making = Nil, !.inode = s]]
      BY <2>4 DEF SetCount, Resume
    <3>2. \A s : Good([frame[p] EXCEPT !.pc = "closelookup", !.pick = 0, !.making = Nil,
                                       !.inode = s])
      BY <1>2 DEF Quiet, Frame, Copying
    <3> HIDE DEF Good
    <3> QED
      BY <3>1, <3>2
  <2> QED
    BY <2>1, <2>2, <2>3, <2>4
<1> QED
  BY <1>1, <1>3, <1>4, FileSame

(* Calls begin and end, and keep what they have opened. *)
LEMMA ReturningFile ==
  ASSUME FsTypeOK, FileInv, NEW p \in Process,
         \/ KeepFile(p) \/ SetPwd(p)
         \/ \E call \in {"mkdir", "open", "chdir"}, name \in EntryName, absolute \in BOOLEAN :
              Begin(p, call, name, absolute)
  PROVE  FileInv'
<1>1. frame[p].pc \notin Copying
  BY DEF KeepFile, SetPwd, Begin, Opened, At, Copying
<1>2. UNCHANGED <<free_map, diskMap, stale>>
  BY DEF KeepFile, SetPwd, Begin, diskVars, lostVars
<1> DEFINE Good(g) == g.pc \notin Copying \cup {"unlist"} /\ g.at = 0 /\ g.loaded = Nil
<1> DEFINE First(c, call, name, d) ==
             [Outside EXCEPT !.pc = c, !.call = call, !.name = name, !.dirs = d]
<1>3. PICK g : frame' = [frame EXCEPT ![p] = g] /\ Good(g)
  <2>1. CASE KeepFile(p) \/ SetPwd(p)
    <3>1. frame' = [frame EXCEPT ![p] = Outside]
      BY <2>1 DEF KeepFile, SetPwd, Return, Resume
    <3>2. Good(Outside)
      BY DEF Outside, Copying
    <3> HIDE DEF Good
    <3> QED
      BY <3>1, <3>2
  <2>2. ASSUME NEW call, NEW name, NEW absolute, Begin(p, call, name, absolute)
        PROVE  \E g : frame' = [frame EXCEPT ![p] = g] /\ Good(g)
    <3>1. PICK c \in {"scan", "lookup"} : \E d :
            frame' = [frame EXCEPT ![p] = First(c, call, name, d)]
      BY <2>2 DEF Begin, Resume
    <3>2. PICK d : frame' = [frame EXCEPT ![p] = First(c, call, name, d)]
      BY <3>1
    <3>3. Good(First(c, call, name, d))
      BY DEF Outside, Copying
    <3> HIDE DEF Good, First
    <3> QED
      BY <3>2, <3>3
  <2> HIDE DEF Good
  <2> QED
    BY <2>1, <2>2
<1> QED
  BY <1>1, <1>2, <1>3, FileSame

(* The steps that close an inode. *)
LEMMA ClosingFile ==
  ASSUME FsTypeOK, RefInv, FileInv, NEW p \in Process,
         \/ CloseMade(p) \/ CloseAgain(p) \/ CloseDir(p) \/ CloseLookup(p)
         \/ CloseFile(p) \/ LeavePwd(p) \/ Unlist(p)
  PROVE  FileInv'
<1>1. frame[p].pc \notin Copying
  BY DEF CloseMade, CloseAgain, CloseDir, CloseLookup, CloseFile, LeavePwd, Unlist, Opened, At,
         Copying
<1>2. Quiet(p)
  BY <1>1, QuietCall
<1>3. UNCHANGED <<free_map, diskMap, stale>>
  BY DEF CloseMade, CloseAgain, CloseDir, CloseLookup, CloseFile, LeavePwd, Unlist, diskVars,
         lostVars
<1> DEFINE Good(g) == g \in Frame /\ g.pc \in PC \ Copying /\ g.at = 0 /\ g.loaded = Nil
<1>0. {"closeagain", "closedir", "adddot", "opened", "setpwd"} \subseteq PC \ Copying
  BY DEF PC, Copying
<1>4. Good(Outside)
  BY OutsideTree DEF Outside, Copying, PC
<1>5. CASE CloseMade(p)
  <2>1. frame[p].inode \in OptSlot /\ Nil \in OptSlot
    BY <1>2 DEF Quiet, Frame, OptSlot
  <2>2. Good([frame[p] EXCEPT !.pc = "closeagain", !.inode = Nil, !.again = frame[p].inode])
    <3>1. PICK f \in Frame, i \in OptSlot : f = frame[p] /\ i = frame[p].inode
      BY <1>2, <2>1 DEF Quiet
    <3>2. "closeagain" \in PC \cup {"unlist"} /\ Nil \in OptSlot
      BY <1>0, <2>1
    <3>3. [f EXCEPT !.pc = "closeagain", !.inode = Nil, !.again = i] \in Frame
      BY ONLY <3>2 DEF Frame
    <3>4. f.at = 0 /\ f.loaded = Nil
      BY <1>2, <3>1 DEF Quiet
    <3> QED
      BY <1>0, <3>1, <3>3, <3>4 DEF Frame
  <2> QED
    BY <1>1, <1>3, <1>5, <2>2, CloseKeepsFile DEF CloseMade
<1>6. CASE CloseAgain(p)
  <2>0. Nil \in OptSlot
    BY DEF OptSlot
  <2>1. Good([frame[p] EXCEPT !.pc = "closedir", !.again = Nil, !.sector = 0, !.block = 0])
    BY <1>0, <1>2, <2>0, ZeroSector DEF Quiet, Frame
  <2> QED
    BY <1>1, <1>3, <1>6, <2>1, CloseKeepsFile DEF CloseAgain
<1>7. CASE CloseDir(p) \/ CloseFile(p)
  BY <1>1, <1>3, <1>4, <1>7, CloseKeepsFile DEF CloseDir, CloseFile
<1>8. CASE CloseLookup(p)
  <2>1. PICK ds \in Seq(Slot) : ds = SubSeq(frame[p].dirs, 1, Len(frame[p].dirs) - 1)
    <3>1. frame[p] \in Frame /\ Shape(frame[p]) /\ Where(frame[p]) = "closelookup"
      BY <1>2, <1>8 DEF Quiet, RefInv, CloseLookup, At, Where
    <3>2. PICK d \in Slot : frame[p].dirs = <<d, d>> \/ frame[p].dirs = <<d>>
      BY <3>1 DEF Shape
    <3>3. SubSeq(<<d, d>>, 1, Len(<<d, d>>) - 1) \in Seq(Slot) /\ SubSeq(<<d>>, 1, Len(<<d>>) - 1) \in Seq(Slot)
      <4>1. SubSeq(<<d, d>>, 1, 1) = <<d>> /\ SubSeq(<<d>>, 1, 0) = << >>
        BY DropLast
      <4>2. Len(<<d, d>>) - 1 = 1 /\ Len(<<d>>) - 1 = 0 /\ <<d>> \in Seq(Slot) /\ << >> \in Seq(Slot)
        OBVIOUS
      <4> QED
        BY <4>1, <4>2
    <3> QED
      BY <3>2, <3>3
  <2>2. PICK c \in {"adddot", "opened"} :
          c = IF frame[p].call = "mkdir" /\ frame[p].inode # Nil THEN "adddot" ELSE "opened"
    OBVIOUS
  <2> DEFINE f == [frame[p] EXCEPT !.dirs = ds, !.pc = c]
  <2>3. Good(f)
    BY <1>0, <1>2 DEF Quiet, Frame
  <2>4. Close(p, DirOf(p), f) \/ Close(p, DirOf(p), Outside)
    BY <1>8, <2>1, <2>2 DEF CloseLookup
  <2> HIDE DEF f
  <2> QED
    BY <1>1, <1>3, <1>4, <2>3, <2>4, CloseKeepsFile
<1>9. CASE LeavePwd(p)
  <2>1. Good([frame[p] EXCEPT !.pc = "setpwd"])
    BY <1>0, <1>2 DEF Quiet, Frame
  <2>2. CASE Close(p, pwd[p], [frame[p] EXCEPT !.pc = "setpwd"])
    BY <1>1, <1>3, <2>1, <2>2, CloseKeepsFile
  <2>3. CASE Return(p)
    <3>1. frame' = [frame EXCEPT ![p] = Outside] /\ Outside.pc # "unlist"
      BY <2>3 DEF Return, Resume, Outside
    <3> QED
      BY <1>1, <1>3, <1>4, <3>1, FileSame
  <2> QED
    BY <1>9, <2>2, <2>3 DEF LeavePwd
<1>10. CASE Unlist(p)
  <2> DEFINE g == [frame[p] EXCEPT !.pc = frame[p].next, !.closing = Nil, !.next = Nil]
  <2>1. frame' = [frame EXCEPT ![p] = g]
    BY <1>10 DEF Unlist, Resume
  <2>2. frame[p].pc = "unlist" /\ frame[p].next \in PC \ Copying
    <3>1. frame[p].pc = "unlist"
      BY <1>10 DEF Unlist, At
    <3> QED
      BY <3>1 DEF RefInv, Shape, FileInv, Idle
  <2>3. g.pc = frame[p].next /\ g.at = 0 /\ g.loaded = Nil /\ g.pc # "unlist"
    BY <1>2, <2>2 DEF Quiet, Frame, PC
  <2> HIDE DEF g
  <2> QED
    BY <1>1, <1>3, <2>1, <2>2, <2>3, FileSame
<1> HIDE DEF Good
<1> QED
  BY <1>5, <1>6, <1>7, <1>8, <1>9, <1>10

(* A call that begins to copy the map will write each bit. *)
LEMMA CopyBegins ==
  ASSUME FsTypeOK', NEW p \in Process, frame'[p].pc \in Copying, frame'[p].at = 0,
         frame'[p].loaded = Nil
  PROVE  Pending'
<1>1. Wrong(diskMap)' \subseteq Nat
  BY FileSystemAssumption DEF Wrong, FsTypeOK, DiskTypes, FsSector
<1>2. \A s \in Nat : WillSave(p, s)'
  BY DEF WillSave, Saving, Copying
<1> QED
  BY <1>1, <1>2 DEF Pending

LEMMA FlipBitFile ==
  ASSUME FsTypeOK, FsTypeOK', FileInv, NEW p \in Process, FlipBit(p)
  PROVE  FileInv'
<1>1. frame[p].pc = "flip" /\ frame[p].pc \notin Copying
  BY DEF FlipBit, At, Copying
<1>2. Quiet(p)
  BY <1>1, QuietCall
<1> DEFINE g == [frame[p] EXCEPT !.pc = "save"]
<1>3. frame' = [frame EXCEPT ![p] = g] /\ free_map' = free_map \cup {frame[p].pick}
      /\ UNCHANGED <<diskMap, stale>>
  BY DEF FlipBit, Goto, diskVars, lostVars
<1>4. g.pc = "save" /\ g.at = 0 /\ g.loaded = Nil /\ g.pick = frame[p].pick
      /\ frame[p].pick \in Nat
  BY <1>2, FileSystemAssumption DEF Quiet, Frame, FsSector
<1> HIDE DEF g
<1>5. frame'[p] = g /\ \A q \in Process \ {p} : frame'[q] = frame[q]
  BY <1>3, Changed
<1>6. \A q \in Process : Idle(frame'[q]) /\ Copied(frame'[q])
  BY <1>4, <1>5 DEF FileInv, Idle, Copied, Copying
<1>7. Pending'
  BY <1>4, <1>5, CopyBegins DEF Copying
<1>8. Marked'
  <2>1. ASSUME NEW s \in free_map' PROVE s \in diskMap \cup stale \/ \E q \in Process : ToCopy(frame'[q], s)
    <3>1. CASE s = frame[p].pick
      BY <1>4, <1>5, <3>1 DEF ToCopy
    <3>2. CASE s \in free_map
      <4>1. s \in diskMap \cup stale \/ \E q \in Process : ToCopy(frame[q], s)
        BY <3>2 DEF FileInv, Marked
      <4> QED
        BY <1>1, <1>5, <4>1 DEF ToCopy
    <3> QED
      BY <1>3, <3>1, <3>2
  <2> QED
    BY <1>3, <2>1 DEF FileInv, Marked
<1> QED
  BY <1>6, <1>7, <1>8 DEF FileInv

LEMMA ReleaseSectorFile ==
  ASSUME FsTypeOK, FsTypeOK', FileInv, NEW p \in Process, ReleaseSector(p)
  PROVE  FileInv'
<1>1. frame[p].pc = "release" /\ frame[p].pc \notin Copying
  BY DEF ReleaseSector, At, Copying
<1>2. Quiet(p)
  BY <1>1, QuietCall
<1> DEFINE g == [frame[p] EXCEPT !.pc = "saverelease", !.sector = 0, !.block = 0]
<1>3. frame' = [frame EXCEPT ![p] = g] /\ free_map' \subseteq free_map
      /\ UNCHANGED <<diskMap, stale>>
  BY DEF ReleaseSector, Resume
<1>4. g.pc = "saverelease" /\ g.at = 0 /\ g.loaded = Nil
  BY <1>2 DEF Quiet, Frame
<1> HIDE DEF g
<1>5. frame'[p] = g /\ \A q \in Process \ {p} : frame'[q] = frame[q]
  BY <1>3, Changed
<1>6. \A q \in Process : Idle(frame'[q]) /\ Copied(frame'[q])
  BY <1>4, <1>5 DEF FileInv, Idle, Copied, Copying
<1>7. Pending'
  BY <1>4, <1>5, CopyBegins DEF Copying
<1>8. Marked'
  <2>1. ASSUME NEW q \in Process, NEW s, ToCopy(frame[q], s) PROVE ToCopy(frame'[q], s)
    BY <1>1, <1>5, <2>1 DEF ToCopy
  <2> QED
    BY <1>3, <2>1 DEF FileInv, Marked
<1> QED
  BY <1>6, <1>7, <1>8 DEF FileInv

(* The inodes of free map and root, and what calls take, are marked. *)
LEMMA OwnedSectors ==
  ASSUME NEW N, NEW T, NEW fr, NEW lo, NEW fm, OneOwner(N, T, fr, lo, fm)
  PROVE  /\ {0, 2} \subseteq fm
         /\ \A p \in Process, s \in FsSector : s \in Takes(fr[p]) => s \in fm
<1>1. 0 \in FsSector /\ 2 \in FsSector
  BY FileSystemAssumption DEF FsSector
<1> QED
  BY <1>1 DEF OneOwner, Others

LEMMA LoadByteFile ==
  ASSUME FsTypeOK, TreeInv, FileInv, NEW p \in Process, LoadByte(p)
  PROVE  FileInv'
<1>1. frame[p].pc \in Copying /\ frame[p] \in Frame /\ frame[p].loaded = Nil
  BY DEF LoadByte, Saving, Copying, FsTypeOK, MemoryTypes
<1> DEFINE g == [frame[p] EXCEPT !.loaded = free_map \cap Byte(frame[p].at)]
<1>2. frame' = [frame EXCEPT ![p] = g] /\ UNCHANGED <<free_map, diskMap, stale>>
  BY DEF LoadByte, Resume, diskVars, lostVars
<1>3. /\ g.pc = frame[p].pc /\ g.at = frame[p].at /\ g.pick = frame[p].pick
      /\ g.loaded = free_map \cap Byte(frame[p].at)
  BY <1>1 DEF Frame
<1> HIDE DEF g
<1>4. frame'[p] = g /\ \A q \in Process \ {p} : frame'[q] = frame[q]
  BY <1>2, Changed
<1>5. \A q \in Process : Idle(frame'[q]) /\ Copied(frame'[q])
  <2>1. Idle(g)
    BY <1>1, <1>3 DEF Idle, Copying
  <2>2. {0, 2} \subseteq free_map /\ (frame[p].pc = "save" => frame[p].pick \in free_map)
    <3>1. OneOwner(node, Tree, frame, lost, free_map) /\ Phase(frame[p])
      BY DEF TreeInv
    <3>2. ASSUME frame[p].pc = "save" PROVE frame[p].pick \in Takes(frame[p]) \cap FsSector
      <4>1. frame[p].pick # 0 /\ frame[p].pick \in FsSector
        BY <1>1, <3>1, <3>2 DEF Phase, Where, Frame
      <4> QED
        BY <3>2, <4>1 DEF Takes, Allocating
    <3> QED
      BY <3>1, <3>2, OwnedSectors
  <2>3. Copied(g)
    BY <1>3, <2>2 DEF Copied
  <2> QED
    BY <1>4, <2>1, <2>3 DEF FileInv
<1>6. ASSUME NEW q \in Process, NEW s, ToCopy(frame[q], s) PROVE ToCopy(frame'[q], s)
  BY <1>3, <1>4, <1>6 DEF ToCopy
<1>7. ASSUME NEW q \in Process, NEW s, WillSave(q, s) PROVE WillSave(q, s)'
  <2>1. CASE q = p
    <3>1. g.pc \in Copying /\ g.at <= s
      BY <1>1, <1>3, <1>7, <2>1 DEF WillSave
    <3>2. s \in Byte(g.at) => (s \in g.loaded <=> s \in free_map)
      BY <1>3
    <3> QED
      BY <1>2, <1>4, <2>1, <3>1, <3>2 DEF WillSave, Saving, Copying
  <2>2. CASE q # p
    BY <1>2, <1>4, <1>7, <2>2 DEF WillSave, Saving
  <2> QED
    BY <2>1, <2>2
<1>8. Wrong(diskMap)' = Wrong(diskMap)
  BY <1>2 DEF Wrong
<1>9. Marked'
  BY <1>2, <1>6 DEF FileInv, Marked
<1>10. Pending'
  BY <1>2, <1>7, <1>8 DEF FileInv, Pending
<1> QED
  BY <1>5, <1>9, <1>10 DEF FileInv

(* What a call stores, and what it has yet to copy then: a bit that is     *)
(* wrong afterwards, and not made so by this byte, was wrong before.       *)
LEMMA StoreByteFile ==
  ASSUME FsTypeOK, FsTypeOK', FileInv, NEW p \in Process, StoreByte(p)
  PROVE  FileInv'
<1>1. frame[p].pc \in Copying /\ frame[p] \in Frame /\ frame[p].loaded # Nil
  BY DEF StoreByte, Saving, Copying, FsTypeOK, MemoryTypes
<1>2. PICK f : f = frame[p]
  OBVIOUS
<1>3. f.at \in Nat /\ ByteBits \in Nat /\ FsSectors \in Nat
  BY <1>1, <1>2, FileSystemAssumption DEF Frame
<1> DEFINE h == [f EXCEPT !.at = @ + ByteBits, !.loaded = Nil]
<1>4. PICK g : /\ frame' = [frame EXCEPT ![p] = g]
               /\ IF f.at + ByteBits < FsSectors THEN g = h ELSE g = Saved(f)
  BY <1>2 DEF StoreByte, Resume
<1>5. /\ diskMap' = (diskMap \ Byte(f.at)) \cup f.loaded
      /\ stale' = {s \in Wrong(diskMap') : s \in stale \/ s \notin Wrong(diskMap)}
      /\ UNCHANGED free_map
  BY <1>2 DEF StoreByte
<1>6. /\ h.pc = f.pc /\ h.at = f.at + ByteBits /\ h.pick = f.pick /\ h.loaded = Nil
      /\ f.pc \in Copying
  BY <1>1, <1>2 DEF Frame
<1>7. Saved(f).pc \in {"scan", "makeinode", "closedir"} /\ Saved(f).at = 0 /\ Saved(f).loaded = Nil
  BY <1>1, <1>2 DEF Saved, Frame
<1> HIDE DEF h
<1>8. frame'[p] = g /\ \A q \in Process \ {p} : frame'[q] = frame[q]
  BY <1>4, Changed
<1>9. \A q \in Process : Idle(frame'[q]) /\ Copied(frame'[q])
  <2>1. Idle(g) /\ Copied(g)
    BY <1>4, <1>6, <1>7 DEF Idle, Copied, Copying
  <2> QED
    BY <1>8, <2>1 DEF FileInv
<1>10. f.loaded \subseteq Byte(f.at) /\ {0, 2} \cap Byte(f.at) \subseteq f.loaded
       /\ (f.pc = "save" /\ f.pick \in Byte(f.at) => f.pick \in f.loaded)
  BY <1>1, <1>2 DEF FileInv, Copied
<1>11. ASSUME NEW s \in FsSector, s \in Wrong(diskMap'), s \notin stale'
       PROVE  s \in Wrong(diskMap) /\ s \notin stale
  BY <1>5, <1>11
<1>12. ASSUME NEW s \in FsSector, f.at <= s, s \notin Byte(f.at)
       PROVE  g = h /\ h.at <= s
  <2>1. s \in Nat /\ s < FsSectors /\ s >= f.at + ByteBits
    BY <1>3, <1>12 DEF Byte, FsSector
  <2> QED
    BY <1>3, <1>4, <1>6, <2>1
<1>13. Marked'
  <2>1. {0, 2} \subseteq diskMap'
    BY <1>5, <1>10 DEF FileInv, Marked
  <2>2. ASSUME NEW s \in free_map, s \notin diskMap', s \notin stale'
        PROVE  \E q \in Process : ToCopy(frame'[q], s)
    <3>1. s \in FsSector /\ s \in Wrong(diskMap')
      BY <2>2 DEF Wrong, FsTypeOK, DiskTypes
    <3>2. s \in Wrong(diskMap) /\ s \notin stale
      BY <1>11, <2>2, <3>1
    <3>3. s \notin diskMap
      BY <2>2, <3>2 DEF Wrong
    <3>4. PICK q \in Process : ToCopy(frame[q], s)
      BY <2>2, <3>2, <3>3 DEF FileInv, Marked
    <3>5. CASE q # p
      BY <1>8, <3>4, <3>5
    <3>6. CASE q = p
      <4>1. f.pc = "save" /\ f.pick = s /\ f.at <= s
        BY <1>2, <3>4, <3>6 DEF ToCopy
      <4>2. s \notin Byte(f.at)
        BY <1>5, <1>10, <2>2, <4>1
      <4>3. g = h /\ h.at <= s
        BY <1>12, <3>1, <4>1, <4>2
      <4> QED
        BY <1>6, <1>8, <4>1, <4>3 DEF ToCopy
    <3> QED
      BY <3>5, <3>6
  <2> QED
    BY <1>5, <2>1, <2>2 DEF Marked
<1>14. Pending'
  <2>1. ASSUME NEW s \in Wrong(diskMap') \ stale' PROVE \E q \in Process : WillSave(q, s)'
    <3>1. s \in FsSector
      BY <2>1 DEF Wrong, FsTypeOK, DiskTypes
    <3>2. s \in Wrong(diskMap) /\ s \notin stale
      BY <1>11, <2>1, <3>1
    <3>3. PICK q \in Process : WillSave(q, s)
      BY <3>2 DEF FileInv, Pending
    <3>4. CASE q # p
      BY <1>5, <1>8, <3>3, <3>4 DEF WillSave, Saving
    <3>5. CASE q = p
      <4>1. f.at <= s /\ (s \in Byte(f.at) => (s \in f.loaded <=> s \in free_map))
        BY <1>1, <1>2, <3>3, <3>5 DEF WillSave
      <4>2. s \notin Byte(f.at)
        BY <1>5, <2>1, <4>1 DEF Wrong
      <4>3. g = h /\ h.at <= s
        BY <1>12, <3>1, <4>1, <4>2
      <4> QED
        BY <1>6, <1>8, <3>5, <4>3 DEF WillSave, Saving, Copying
    <3> QED
      BY <3>4, <3>5
  <2>2. Wrong(diskMap)' = Wrong(diskMap')
    BY <1>5 DEF Wrong
  <2> QED
    BY <2>1, <2>2 DEF Pending
<1> QED
  BY <1>9, <1>13, <1>14 DEF FileInv

(* The boot actions, and a new start, leave the two maps equal. *)
LEMMA BootFile ==
  ASSUME FsTypeOK', TreeInv', FileInv, NEW name \in Name, Extract(name) \/ Remove(name), ~stopped'
  PROVE  FileInv'
<1>1. diskMap' = free_map' /\ UNCHANGED frame
  BY DEF Extract, Remove
<1>2. {0, 2} \subseteq free_map'
  <2>1. OneOwner(node', Tree', frame', lost', free_map')
    BY DEF TreeInv
  <2> QED
    BY <2>1, OwnedSectors
<1>3. Wrong(diskMap)' = {}
  BY <1>1 DEF Wrong
<1> QED
  BY <1>1, <1>2, <1>3 DEF FileInv, Marked, Pending

LEMMA RebootFile ==
  ASSUME FileInv, Reboot
  PROVE  FileInv'
<1>1. free_map' = diskMap /\ UNCHANGED <<frame, diskMap>>
  BY DEF Reboot, diskVars
<1>2. Wrong(diskMap)' = {}
  BY <1>1 DEF Wrong
<1> QED
  BY <1>1, <1>2 DEF FileInv, Marked, Pending

(* Nothing of it changes. *)
LEMMA FileUnchanged ==
  ASSUME FileInv, UNCHANGED <<free_map, diskMap, stale, frame>>
  PROVE  FileInv'
<1>1. Wrong(diskMap)' = Wrong(diskMap)
  BY DEF Wrong
<1>2. \A p, s : WillSave(p, s)' <=> WillSave(p, s)
  BY DEF WillSave, Saving
<1> QED
  BY <1>1, <1>2 DEF FileInv, Marked, Pending

LEMMA InitFile == FsInit => FileInv
<1> SUFFICES ASSUME FsInit PROVE FileInv
  OBVIOUS
<1>1. \A p \in Process : Idle(frame[p]) /\ Copied(frame[p])
  BY DEF FsInit, Idle, Copied, Outside
<1>2. free_map = Reserved /\ diskMap = Reserved /\ {0, 2} \subseteq Reserved
  BY DEF FsInit, Reserved
<1>3. Wrong(diskMap) = {}
  BY <1>2 DEF Wrong
<1> QED
  BY <1>1, <1>2, <1>3 DEF FileInv, Marked, Pending

-----------------------------------------------------------------------------
LEMMA PathStep == FsInv /\ FsInv' /\ PathInv /\ [FsNext]_fsVars => PathInv'
<1> SUFFICES ASSUME FsInv, FsInv', PathInv, [FsNext]_fsVars, ~stopped' PROVE TreeInv' /\ FileInv'
  BY DEF PathInv
<1>1. FsTypeOK'
  BY DEF FsInv
<1>2. CASE UNCHANGED fsVars
  <2>1. /\ UNCHANGED <<node, entries, free_map, diskMap, lost, stale, inode, open_inodes, pwd,
                       running, frame, stopped>>
    BY <1>2 DEF fsVars, diskVars, memoryVars, holdVars, lostVars
  <2>2. TreeInv /\ FileInv /\ Tree' = Tree
    BY <2>1, TreeIs DEF PathInv
  <2>3. TreeInv'
    BY <2>1, <2>2 DEF TreeInv
  <2> QED
    BY <2>1, <2>2, <2>3, FileUnchanged
<1>3. CASE FsNext
  <2>1. FsTypeOK /\ RefInv /\ TreeInv /\ FileInv
    BY <1>3 DEF FsNext, FsInv, PathInv
  <2>2. CASE Run
    <3>1. UNCHANGED <<free_map, diskMap, stale, frame>>
      BY <2>2 DEF Run, diskVars, lostVars
    <3> QED
      BY <2>1, <2>2, <3>1, RunTree, FileUnchanged
  <2>3. CASE Reboot
    BY <2>1, <2>3, RebootTree, RebootFile
  <2>4. ASSUME NEW name \in Name, Extract(name) \/ Remove(name) PROVE TreeInv' /\ FileInv'
    <3>1. TreeInv'
      BY <1>1, <2>1, <2>4, ExtractTree, RemoveTree
    <3> QED
      BY <1>1, <2>1, <2>4, <3>1, BootFile
  <2>5. ASSUME NEW p \in Process, Continue(p) PROVE TreeInv' /\ FileInv'
    <3>1. CASE FlipBit(p) \/ ReleaseSector(p) \/ LoadByte(p) \/ StoreByte(p)
      <4>1. TreeInv'
        BY <1>1, <2>1, <3>1, FlipBitTree, ReleaseSectorTree, LoadByteTree, StoreByteTree
      <4>2. FileInv'
        BY <1>1, <2>1, <3>1, FlipBitFile, ReleaseSectorFile, LoadByteFile, StoreByteFile
      <4> QED
        BY <4>1, <4>2
    <3>2. CASE ScanFreeMap(p) \/ MakeInode(p) \/ AddName(p) \/ AddDot(p) \/ AddParent(p)
      <4>1. TreeInv'
        BY <1>1, <2>1, <3>2, ScanFreeMapTree, MakeInodeTree, AddNameTree, AddDotTree,
           AddParentTree
      <4> QED
        BY <2>1, <3>2, <4>1, MakingFile
    <3>3. CASE \/ CloseMade(p) \/ CloseAgain(p) \/ CloseDir(p) \/ CloseLookup(p)
               \/ CloseFile(p) \/ LeavePwd(p) \/ Unlist(p)
      <4>1. TreeInv'
        BY <2>1, <3>3, CloseMadeTree, CloseAgainTree, CloseDirTree, CloseLookupTree,
           CloseFileTree, LeavePwdTree, UnlistTree
      <4> QED
        BY <2>1, <3>3, <4>1, ClosingFile
    <3>4. CASE Lookup(p) \/ Allocate(p) \/ Link(p) \/ SetSector(p) \/ SetCount(p)
      <4>1. TreeInv'
        BY <2>1, <3>4, LookupTree, AllocateTree, LinkTree, SetSectorTree, SetCountTree
      <4> QED
        BY <2>1, <3>4, <4>1, OpeningFile
    <3>5. CASE KeepFile(p) \/ SetPwd(p)
      BY <2>1, <3>5, KeepFileTree, SetPwdTree, ReturningFile
    <3>6. CASE NotOpened(p)
      BY <3>6 DEF NotOpened
    <3> QED
      BY <2>5, <3>1, <3>2, <3>3, <3>4, <3>5, <3>6 DEF Continue
  <2>6. ASSUME NEW p \in Process, NEW absolute \in BOOLEAN, NEW name \in EntryName,
               NEW call \in {"mkdir", "open", "chdir"}, call = "mkdir" => name \in Name,
               Begin(p, call, name, absolute)
        PROVE  TreeInv' /\ FileInv'
    BY <2>1, <2>6, BeginTree, ReturningFile
  <2>7. Name \subseteq EntryName /\ Name \cup {".."} \subseteq EntryName
    BY DEF EntryName
  <2>8. ASSUME NEW p \in Process,
               \/ Continue(p)
               \/ \E absolute \in BOOLEAN, name \in Name : Begin(p, "mkdir", name, absolute)
               \/ \E absolute \in BOOLEAN, name \in Name \cup {".."},
                     call \in {"open", "chdir"} : Begin(p, call, name, absolute)
        PROVE  TreeInv' /\ FileInv'
    <3>1. CASE \E absolute \in BOOLEAN, name \in Name : Begin(p, "mkdir", name, absolute)
      BY <2>6, <2>7, <3>1
    <3>2. CASE \E absolute \in BOOLEAN, name \in Name \cup {".."},
                  call \in {"open", "chdir"} : Begin(p, call, name, absolute)
      BY <2>6, <2>7, <3>2
    <3> QED
      BY <2>5, <2>8, <3>1, <3>2
  <2> QED
    BY <1>3, <2>2, <2>3, <2>4, <2>8 DEF FsNext
<1> QED
  BY <1>2, <1>3

(* The inductive invariant of paths and sectors: what the free map in      *)
(* memory and in its file, the disk inodes and the directory entries say,  *)
(* how far each call of mkdir has come between free_map_allocate(),        *)
(* inode_create(), dir_add() and the entries "." and "..", and which call  *)
(* of bitmap_write() will still write each bit that is wrong in the file,  *)
(* byte by byte and unlocked as it is copied.                              *)
THEOREM PathInvariant == FsSpec => []PathInv
<1>1. FsInit => PathInv
  BY InitTree, InitFile DEF PathInv
<1>2. FsInv /\ FsInv' /\ PathInv /\ [FsNext]_fsVars => PathInv'
  BY PathStep
<1> QED
  BY <1>1, <1>2, FsInvariant, PTL DEF FsSpec

(* A sector whose bit is set in the free map belongs to one inode that a   *)
(* path leads to, or to one call of mkdir, or is known to be lost, and to  *)
(* one of them only; the others belong to none: free_map_allocate() and    *)
(* free_map_release() as inode_create(), filesys_create() and the boot     *)
(* actions use them, whichever calls interleave.                           *)
THEOREM SectorsOwnedOnceThm == FsSpec => []SectorsOwnedOnce
<1>1. FsInv /\ PathInv => SectorsOwnedOnce
  <2> SUFFICES ASSUME FsInv, PathInv, ~stopped, NEW s \in FsSector
               PROVE  Cardinality({<<"tree", t>> : t \in {t \in Tree : s \in {t, node[t].block}}}
                        \cup {<<"call", p>> : p \in {p \in Process : s \in Taken(p)}}
                        \cup {<<"other", s>> : x \in (lost \cup {0, 2}) \cap {s}})
                      = IF s \in free_map THEN 1 ELSE 0
    BY DEF SectorsOwnedOnce
  <2> DEFINE A == {t \in Tree : s \in {t, node[t].block}}
             B == {p \in Process : s \in Taken(p)}
             C == (lost \cup {0, 2}) \cap {s}
             W == {<<"tree", t>> : t \in A} \cup {<<"call", p>> : p \in B}
                  \cup {<<"other", s>> : x \in C}
  <2>1. OneOwner(node, Tree, frame, lost, free_map)
    BY DEF PathInv, TreeInv
  <2>2. \A p \in Process : Taken(p) = Takes(frame[p])
    BY DEF Taken, Takes, Allocating
  <2>3. \A t \in Tree : s \in Sectors(node, t) <=> t \in A
    BY DEF Sectors
  <2>4. \A p \in Process : s \in Takes(frame[p]) <=> p \in B
    BY <2>2
  <2>5. s \in Others(lost) <=> C # {}
    BY DEF Others
  <2>6. /\ \A t, u \in A : t = u
        /\ \A p, q \in B : p = q
        /\ ~ (A # {} /\ B # {}) /\ ~ (A # {} /\ C # {}) /\ ~ (B # {} /\ C # {})
        /\ s \in free_map <=> A # {} \/ B # {} \/ C # {}
    <3>1. A \subseteq Tree /\ B \subseteq Process
      OBVIOUS
    <3> HIDE DEF A, B, C
    <3> QED
      BY <2>1, <2>3, <2>4, <2>5, <3>1 DEF OneOwner
  <2> HIDE DEF A, B, C
  <2>7. CASE s \notin free_map
    <3>1. W = {}
      BY <2>6, <2>7
    <3> QED
      BY <2>7, <3>1, FS_EmptySet DEF A, B, C
  <2>8. CASE s \in free_map
    <3>1. \E x : W = {x}
      <4>1. CASE A # {}
        <5>1. PICK t \in A : A = {t} /\ B = {} /\ C = {}
          BY <2>6, <4>1
        <5>2. W = {<<"tree", t>>}
          BY <5>1
        <5> QED
          BY <5>2
      <4>2. CASE B # {}
        <5>1. PICK p \in B : B = {p} /\ A = {} /\ C = {}
          BY <2>6, <4>2
        <5>2. W = {<<"call", p>>}
          BY <5>1
        <5> QED
          BY <5>2
      <4>3. CASE C # {}
        <5>1. A = {} /\ B = {}
          BY <2>6, <4>3
        <5>2. W = {<<"other", s>>}
          BY <4>3, <5>1
        <5> QED
          BY <5>2
      <4> QED
        BY <2>6, <2>8, <4>1, <4>2, <4>3
    <3>2. Cardinality(W) = 1
      <4> HIDE DEF W
      <4> QED
        BY <3>1, FS_Singleton
    <3> QED
      BY <2>8, <3>2 DEF A, B, C
  <2> QED
    BY <2>7, <2>8
<1> QED
  BY <1>1, FsInvariant, PathInvariant, PTL

(* The free map file marks every sector of an inode that a path leads to,  *)
(* and is the map in memory but for bits that a call of bitmap_write() is  *)
(* still to write, and for bits that one byte, loaded before and stored    *)
(* after another call's change, has made wrong (free_map_allocate() and    *)
(* free_map_release(), which take no lock).  mkdir names a directory only  *)
(* when its sectors have been written.                                     *)
THEOREM DiskMapSafeThm == FsSpec => []DiskMapSafe
<1>1. FsInv /\ PathInv => DiskMapSafe
  <2> SUFFICES ASSUME FsInv, PathInv, ~stopped PROVE DiskMapSafe
    BY DEF DiskMapSafe
  <2>1. FsTypeOK /\ TreeInv /\ Marked /\ Pending
    BY DEF FsInv, PathInv, FileInv
  <2>2. ASSUME NEW t \in Tree, NEW s, s \in {t, node[t].block}
        PROVE  s \in diskMap \cup stale
    <3>1. s \in FsSector \ {0} /\ s \in Sectors(node, t)
      BY <2>1, <2>2, TreeFacts DEF Sectors
    <3>2. OneOwner(node, Tree, frame, lost, free_map)
      BY <2>1 DEF TreeInv
    <3>3. s \in free_map
      BY <3>1, <3>2 DEF OneOwner
    <3>4. ASSUME NEW p \in Process, ToCopy(frame[p], s) PROVE FALSE
      <4>1. s \in Takes(frame[p])
        BY <3>1, <3>4 DEF ToCopy, Takes, Allocating
      <4> QED
        BY <3>1, <3>2, <4>1 DEF OneOwner
    <3> QED
      BY <2>1, <3>3, <3>4 DEF Marked
  <2> QED
    BY <2>1, <2>2 DEF DiskMapSafe, Pending
<1> QED
  BY <1>1, FsInvariant, PathInvariant, PTL

(* Directories form a tree: an inode has one name in one directory, and a  *)
(* directory names itself "." and its parent ".." as soon as the call of   *)
(* mkdir that made it has added the two entries (dir_add() in              *)
(* filesys_create(), fsutil_extract(), fsutil_rm()).                       *)
THEOREM TreeSoundThm == FsSpec => []TreeSound
<1>1. FsInv /\ PathInv => TreeSound
  <2> SUFFICES ASSUME FsInv, PathInv, ~stopped PROVE TreeSound
    BY DEF TreeSound
  <2> DEFINE dirs == {d \in Tree : IsDir(d)}
             uses == {u \in dirs \X Name : Entry(u[1], u[2]) # 0}
  <2>1. FsTypeOK /\ TreeInv
    BY DEF FsInv, PathInv
  <2>2. \A d, n : Entry(d, n) = Ent(node, entries, d, n)
    BY DEF Entry, Ent
  <2>3. Rooted(node, entries, Tree, frame)
    BY <2>1 DEF TreeInv
  <2>4. \A u \in uses : /\ u \in Tree \X Name /\ u[1] \in Tree /\ u[2] \in Name
                        /\ node[u[1]].type = "dir" /\ Entry(u[1], u[2]) # 0
    BY DEF IsDir
  <2>5. \A u \in uses : Entry(u[1], u[2]) \in Tree
    BY <2>1, <2>2, <2>4, TreeFacts
  <2> HIDE DEF uses
  <2>6. ASSUME NEW u \in uses, NEW v \in uses, Entry(u[1], u[2]) = Entry(v[1], v[2])
        PROVE  u = v
    <3>1. u[1] = v[1] /\ u[2] = v[2]
      BY <2>2, <2>3, <2>4, <2>6 DEF Rooted
    <3>2. u = <<u[1], u[2]>> /\ v = <<v[1], v[2]>>
      BY <2>4
    <3> QED
      BY <3>1, <3>2
  <2>7. ASSUME NEW u \in uses, NEW c, c = Entry(u[1], u[2]), IsDir(c)
        PROVE  \/ Entry(c, ".") = c /\ Entry(c, "..") = u[1]
               \/ \E p \in Process : frame[p].call = "mkdir" /\ frame[p].sector = c
    <3>1. \/ DotsRight(node, entries, c, u[1])
          \/ \E p \in Process : MadeDir(frame[p]) /\ frame[p].sector = c
      BY <2>2, <2>3, <2>4, <2>5, <2>7 DEF Rooted, IsDir
    <3> QED
      BY <2>2, <3>1 DEF DotsRight, MadeDir
  <2> QED
    BY <2>6, <2>7 DEF TreeSound, uses
<1> QED
  BY <1>1, FsInvariant, PathInvariant, PTL
=============================================================================
