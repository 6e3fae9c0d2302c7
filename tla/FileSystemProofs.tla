-------------------------- MODULE FileSystemProofs --------------------------
(***************************************************************************)
(* Proof about module FileSystem, for any number of processes, sectors and *)
(* struct inodes: open_cnt counts the references to an inode.              *)
(*                                                                         *)
(* The kernel closes an inode too often (mkdir) and too seldom (chdir), so *)
(* the count says little by itself.  What makes the argument work is that  *)
(* a working directory has been leaked, or is the root: its inode cannot   *)
(* reach the free list unnoticed, which is why no struct inode is freed    *)
(* twice although two processes may be about to take it off the list.      *)
(***************************************************************************)
EXTENDS FileSystem, FiniteSetTheorems, SequenceTheorems, WellFoundedInduction, TLAPS

PC == {"outside", "scan", "flip", "save", "makeinode", "add", "release", "saverelease",
       "adddot", "addparent", "closemade", "closeagain", "closedir", "lookup", "insert",
       "link", "setsector", "setcount", "closelookup", "opened", "setpwd"}

OptSlot == Slot \cup {Nil}

Frame == [pc : PC \cup {"unlist"}, call : {"none", "mkdir", "open", "chdir"},
          name : EntryName \cup {Nil}, dirs : Seq(Slot), pick : FsSector,
          sector : FsSector, block : FsSector, at : Nat, loaded : (SUBSET FsSector) \cup {Nil},
          making : OptSlot, inode : OptSlot, again : OptSlot,
          closing : OptSlot, next : PC \cup {Nil}]

DiskTypes ==
  /\ free_map \subseteq FsSector /\ diskMap \subseteq FsSector
  /\ lost \subseteq FsSector /\ stale \subseteq FsSector
  /\ node \in [FsSector -> [type : {"none", "file", "dir"}, block : FsSector]]
  /\ entries \in [FsSector -> [EntryName -> FsSector]]

MemoryTypes ==
  /\ inode \in [Slot -> [sector : FsSector, cnt : Int]]
  /\ open_inodes \subseteq Slot /\ heap \in Seq(Slot)
  /\ pwd \in [Process -> OptSlot] /\ fds \in [Process -> OptSlot]
  /\ frame \in [Process -> Frame]
  /\ running \in BOOLEAN /\ stopped \in BOOLEAN
  /\ leaked \in [Slot -> Nat] /\ doubled \in [Slot -> Nat]

(* Every variable has its type. *)
FsTypeOK == DiskTypes /\ MemoryTypes

(* Where a call goes on when it has taken an inode off the list. *)
Where(f) == IF f.pc = "unlist" THEN f.next ELSE f.pc

Making == {"scan", "flip", "save", "makeinode", "add", "release", "saverelease",
           "adddot", "addparent", "closemade", "closeagain", "closedir"}

Naming == {"scan", "flip", "save", "makeinode", "add", "lookup"}

(* While inode_open() puts the inode it has made on the list. *)
Inserting == {"link", "setsector", "setcount"}

(* The name and the references a call has, by where it is. *)
Shape(f) ==
  /\ IF f.pc = "unlist" THEN f.closing \in Slot /\ f.next \in PC \ Inserting
                        ELSE f.closing = Nil
  /\ IF f.pc \in Inserting THEN f.making \in Slot ELSE f.making = Nil
  /\ Where(f) \in Naming => f.name \in EntryName
  /\ Where(f) = "outside" => f.dirs = << >> /\ f.inode = Nil
  /\ Where(f) \in Making =>
       /\ f.call = "mkdir" /\ \E d \in Slot : f.dirs = <<d>>
       /\ IF Where(f) \in {"adddot", "addparent", "closemade"} THEN f.inode \in Slot
                                                               ELSE f.inode = Nil
  /\ Where(f) = "closeagain" => f.again \in Slot
  /\ Where(f) \in {"lookup", "insert", "closelookup"} \cup Inserting =>
       \E d \in Slot : f.dirs = IF f.call = "mkdir" THEN <<d, d>> ELSE <<d>>
  /\ Where(f) \in {"lookup", "insert"} \cup Inserting => f.inode = Nil
  /\ Where(f) \in {"insert"} \cup Inserting => f.pick # 0
  /\ Where(f) = "opened" =>
       IF f.call = "mkdir" THEN f.inode = Nil ELSE f.inode \in Slot /\ f.dirs = << >>
  /\ Where(f) = "setpwd" => f.inode \in Slot /\ f.dirs = << >>

(* Nobody will close it for the last time. *)
Kept(lk, s) == s = 1 \/ lk[s] > 0

AllKept(lk, dirs) == \A i \in DOMAIN dirs : Kept(lk, dirs[i])

(* Before main starts a program nothing runs; afterwards each process has  *)
(* a working directory, except between the two halves of chdir.            *)
Started ==
  \A p \in Process :
    /\ ~running => frame[p].pc = "outside" /\ pwd[p] = Nil
    /\ running => (pwd[p] \in Slot <=> Where(frame[p]) # "setpwd")

(* The directories in use for paths are kept. *)
PathsKept ==
  \A p \in Process :
    /\ pwd[p] \in Slot => Kept(leaked, pwd[p])
    /\ AllKept(leaked, frame[p].dirs)

Counted ==
  \A s \in Slot :
    IF s \in open_inodes
    THEN inode[s].cnt = References(s) - doubled[s]
    ELSE References(s) = 0 /\ doubled[s] = 0

OneEach ==
  \A s, t \in open_inodes :
    inode[s].sector = inode[t].sector /\ inode[s].sector # 0 => s = t

(* Who is about to take an inode off the list, or has just put it there.   *)
Closers ==
  /\ \A s \in open_inodes : inode[s].cnt <= 0 =>
       \E p \in Process : s \in {frame[p].closing, frame[p].making}
  /\ \A p \in Process : frame[p].closing \in Slot =>
       /\ frame[p].closing \in open_inodes
       /\ inode[frame[p].closing].cnt > 0 => Kept(leaked, frame[p].closing)
  /\ \A p, q \in Process : frame[p].closing \in Slot /\ frame[p].closing = frame[q].closing
       => p = q \/ Kept(leaked, frame[p].closing)

HeapFree ==
  /\ \A i \in DOMAIN heap : heap[i] \notin open_inodes
  /\ \A i, j \in DOMAIN heap : heap[i] = heap[j] => i = j

(* What a call that makes an inode knows of its slot s. *)
Makes(p, s) ==
  /\ References(s) = 0
  /\ s \in open_inodes <=> frame[p].pc # "link"
  /\ frame[p].pc = "setcount" => inode[s].sector = frame[p].pick
  /\ \A i \in DOMAIN heap : heap[i] # s
  /\ \A q \in Process : frame[q].closing # s /\ (frame[q].making = s => q = p)

Unmade ==
  /\ \A s \in Slot \ open_inodes : inode[s] = NoInode
  /\ \A s \in open_inodes : inode[s].sector = 0 =>
       \E p \in Process : frame[p].making = s /\ frame[p].pc = "setsector"
  /\ \A p \in Process : frame[p].making \in Slot => Makes(p, frame[p].making)

RefInv ==
  /\ \A p \in Process : Shape(frame[p])
  /\ Started
  /\ PathsKept
  /\ Counted
  /\ OneEach
  /\ Closers
  /\ HeapFree
  /\ Unmade

FsInv == FsTypeOK /\ (~stopped => RefInv)

-----------------------------------------------------------------------------
(* Counting references.                                                    *)

Is(x, s) == IF x = s THEN 1 ELSE 0

Members(F, s) == {q \in Process : F[q] = s}

Dirs(f, s) == {i \in DOMAIN f.dirs : f.dirs[i] = s}

Uses(f, s) == Is(f.inode, s) + Cardinality(Dirs(f, s))

DirPairs(fr, P, s) == UNION {{p} \X Dirs(fr[p], s) : p \in P}

(* References(), of given functions. *)
Refs(pw, fd, fr, lk, s) ==
  Cardinality(Members(pw, s)) + Cardinality(Members(fd, s))
  + Cardinality(Members([p \in Process |-> fr[p].inode], s)) + Cardinality(DirPairs(fr, Process, s))
  + lk[s] + (IF s = 1 THEN 1 ELSE 0)

LEMMA RefsIs == \A s : References(s) = Refs(pwd, fds, frame, leaked, s)
  BY DEF References, Refs, DirPairs, Dirs, Members

(* G differs from F for p only. *)
OnlyAt(F, G, p) == \A q \in Process \ {p} : G[q] = F[q]

(* One process's value changes. *)
LEMMA MembersChange ==
  ASSUME NEW F, NEW G, NEW p \in Process, NEW s,
         OnlyAt(F, G, p)
  PROVE  /\ Cardinality(Members(F, s)) \in Nat
         /\ Cardinality(Members(G, s)) \in Nat
         /\ Cardinality(Members(G, s))
            = Cardinality(Members(F, s)) + Is(G[p], s) - Is(F[p], s)
<1> DEFINE A == Members(F, s)
           B == Members(G, s)
           R == {q \in Process \ {p} : F[q] = s}
<1>0. \A q \in Process \ {p} : G[q] = F[q]
  BY DEF OnlyAt
<1>1. IsFiniteSet(A) /\ IsFiniteSet(B) /\ IsFiniteSet(R)
  BY FS_Subset, FileSystemAssumption DEF Members
<1>2. p \notin R /\ A = (IF F[p] = s THEN R \cup {p} ELSE R)
               /\ B = (IF G[p] = s THEN R \cup {p} ELSE R)
  BY <1>0 DEF Members
<1>3. Cardinality(R) \in Nat /\ Cardinality(R \cup {p}) = Cardinality(R) + 1
  BY <1>1, <1>2, FS_CardinalityType, FS_AddElement
<1> HIDE DEF A, B, R
<1>4. Cardinality(A) = Cardinality(R) + Is(F[p], s) /\ Cardinality(B) = Cardinality(R) + Is(G[p], s)
  BY <1>2, <1>3 DEF Is
<1>5. Cardinality(A) \in Nat /\ Cardinality(B) \in Nat /\ Cardinality(B) = Cardinality(A) + Is(G[p], s) - Is(F[p], s)
  BY <1>3, <1>4 DEF Is
<1> QED
  BY <1>5 DEF A, B

LEMMA DirsFinite ==
  ASSUME NEW f, NEW s, f.dirs \in Seq(Slot)
  PROVE  IsFiniteSet(Dirs(f, s)) /\ Cardinality(Dirs(f, s)) \in Nat
<1>1. DOMAIN f.dirs = 1 .. Len(f.dirs) /\ Len(f.dirs) \in Nat
  OBVIOUS
<1>2. IsFiniteSet(1 .. Len(f.dirs))
  BY <1>1, FS_Interval
<1>3. Dirs(f, s) \subseteq 1 .. Len(f.dirs)
  BY <1>1 DEF Dirs
<1> QED
  BY <1>2, <1>3, FS_Subset, FS_CardinalityType

LEMMA PairsChange ==
  ASSUME NEW F, NEW G, NEW p \in Process, NEW s,
         \A q \in Process : F[q].dirs \in Seq(Slot) /\ G[q].dirs \in Seq(Slot),
         OnlyAt(F, G, p)
  PROVE  /\ Cardinality(DirPairs(F, Process, s)) \in Nat
         /\ Cardinality(DirPairs(G, Process, s)) \in Nat
         /\ Cardinality(DirPairs(G, Process, s))
            = Cardinality(DirPairs(F, Process, s))
              + Cardinality(Dirs(G[p], s)) - Cardinality(Dirs(F[p], s))
<1> DEFINE Others == Process \ {p}
           R == DirPairs(F, Others, s)
<1>1. IsFiniteSet(R)
  <2>1. IsFiniteSet(Others)
    BY FS_Subset, FileSystemAssumption
  <2> DEFINE T == {{q} \X Dirs(F[q], s) : q \in Others}
  <2>2. IsFiniteSet(T)
    <3> DEFINE f == [q \in Others |-> {q} \X Dirs(F[q], s)]
    <3>1. f \in Surjection(Others, T)
      BY DEF Surjection
    <3> QED
      BY ONLY <2>1, <3>1, FS_Surjection
  <2>3. \A X \in T : IsFiniteSet(X)
    <3>1. ASSUME NEW q \in Others PROVE IsFiniteSet({q} \X Dirs(F[q], s))
      BY DirsFinite, FS_Singleton, FS_Product
    <3> QED
      BY <3>1
  <2>4. R = UNION T
    BY DEF DirPairs
  <2> QED
    BY <2>2, <2>3, <2>4, FS_UNION
<1>2. ASSUME NEW H, \A q \in Process : H[q].dirs \in Seq(Slot),
             \A q \in Others : H[q] = F[q]
      PROVE  /\ Cardinality(DirPairs(H, Process, s)) = Cardinality(R) + Cardinality(Dirs(H[p], s))
             /\ Cardinality(Dirs(H[p], s)) \in Nat
  <2> DEFINE D == {p} \X Dirs(H[p], s)
  <2>1. IsFiniteSet(Dirs(H[p], s)) /\ Cardinality(Dirs(H[p], s)) \in Nat
    BY <1>2, DirsFinite
  <2>2. IsFiniteSet(D) /\ Cardinality(D) = Cardinality(Dirs(H[p], s))
    <3>1. IsFiniteSet({p}) /\ Cardinality({p}) = 1
      BY FS_Singleton
    <3>2. IsFiniteSet(D) /\ Cardinality(D) = Cardinality({p}) * Cardinality(Dirs(H[p], s))
      BY ONLY <2>1, <3>1, FS_Product
    <3> QED
      BY ONLY <2>1, <3>1, <3>2
  <2>3. DirPairs(H, Process, s) = R \cup D
    BY <1>2 DEF DirPairs
  <2>4. R \cap D = {}
    BY DEF DirPairs
  <2>5. Cardinality(R \cup D) = Cardinality(R) + Cardinality(D) - Cardinality(R \cap D)
    BY ONLY <1>1, <2>2, FS_Union
  <2>6. Cardinality(R) \in Nat /\ Cardinality(R \cap D) = 0
    BY ONLY <1>1, <2>4, FS_EmptySet, FS_CardinalityType
  <2> QED
    BY ONLY <2>1, <2>2, <2>3, <2>5, <2>6
<1>3. Cardinality(R) \in Nat
  BY <1>1, FS_CardinalityType
<1>4. /\ Cardinality(DirPairs(F, Process, s)) = Cardinality(R) + Cardinality(Dirs(F[p], s))
      /\ Cardinality(Dirs(F[p], s)) \in Nat
  BY <1>2
<1>6. \A q \in Others : G[q] = F[q]
  BY DEF OnlyAt
<1>5. /\ Cardinality(DirPairs(G, Process, s)) = Cardinality(R) + Cardinality(Dirs(G[p], s))
      /\ Cardinality(Dirs(G[p], s)) \in Nat
  BY <1>2, <1>6
<1> HIDE DEF R, Others
<1> QED
  BY <1>3, <1>4, <1>5

(* What a step of p does to the number of references to s. *)
LEMMA RefsChange ==
  ASSUME NEW fr \in [Process -> Frame], NEW gr \in [Process -> Frame], NEW p \in Process,
         OnlyAt(fr, gr, p),
         NEW pw, NEW qw, OnlyAt(pw, qw, p),
         NEW fd, NEW gd, OnlyAt(fd, gd, p),
         NEW s \in Slot, NEW lk \in [Slot -> Nat], NEW mk \in [Slot -> Nat]
  PROVE  /\ Refs(pw, fd, fr, lk, s) \in Nat
         /\ Refs(qw, gd, gr, mk, s)
            = Refs(pw, fd, fr, lk, s) + Uses(gr[p], s) - Uses(fr[p], s)
              + Is(qw[p], s) - Is(pw[p], s) + Is(gd[p], s) - Is(fd[p], s) + mk[s] - lk[s]
<1> DEFINE I == [q \in Process |-> fr[q].inode]
           J == [q \in Process |-> gr[q].inode]
<1>1. /\ OnlyAt(I, J, p)
      /\ I[p] = fr[p].inode /\ J[p] = gr[p].inode
  BY DEF OnlyAt
<1>0. /\ Refs(pw, fd, fr, lk, s)
         = Cardinality(Members(pw, s)) + Cardinality(Members(fd, s)) + Cardinality(Members(I, s))
           + Cardinality(DirPairs(fr, Process, s)) + lk[s] + (IF s = 1 THEN 1 ELSE 0)
      /\ Refs(qw, gd, gr, mk, s)
         = Cardinality(Members(qw, s)) + Cardinality(Members(gd, s)) + Cardinality(Members(J, s))
           + Cardinality(DirPairs(gr, Process, s)) + mk[s] + (IF s = 1 THEN 1 ELSE 0)
  BY DEF Refs
<1> HIDE DEF I, J
<1>2. /\ Cardinality(Members(I, s)) \in Nat
      /\ Cardinality(Members(J, s))
         = Cardinality(Members(I, s)) + Is(gr[p].inode, s) - Is(fr[p].inode, s)
  BY ONLY <1>1, p \in Process, MembersChange
<1>3. /\ Cardinality(Members(pw, s)) \in Nat
      /\ Cardinality(Members(qw, s))
         = Cardinality(Members(pw, s)) + Is(qw[p], s) - Is(pw[p], s)
  BY MembersChange
<1>4. /\ Cardinality(Members(fd, s)) \in Nat
      /\ Cardinality(Members(gd, s))
         = Cardinality(Members(fd, s)) + Is(gd[p], s) - Is(fd[p], s)
  BY MembersChange
<1>5. \A q \in Process : fr[q].dirs \in Seq(Slot) /\ gr[q].dirs \in Seq(Slot)
  BY DEF Frame
<1>6. /\ Cardinality(DirPairs(fr, Process, s)) \in Nat
      /\ Cardinality(DirPairs(gr, Process, s))
         = Cardinality(DirPairs(fr, Process, s))
           + Cardinality(Dirs(gr[p], s)) - Cardinality(Dirs(fr[p], s))
  BY <1>5, PairsChange
<1>7. Cardinality(Dirs(gr[p], s)) \in Nat /\ Cardinality(Dirs(fr[p], s)) \in Nat
  BY <1>5, DirsFinite
<1>8. lk[s] \in Nat /\ mk[s] \in Nat /\ \A x : Is(x, s) \in Nat
  BY DEF Is
<1> QED
  BY ONLY <1>0, <1>2, <1>3, <1>4, <1>6, <1>7, <1>8 DEF Uses

(* p alone moves. *)
Moved(p, g, v, w) ==
  /\ frame' = [frame EXCEPT ![p] = g] /\ pwd' = [pwd EXCEPT ![p] = v]
  /\ fds' = [fds EXCEPT ![p] = w] /\ leaked' \in [Slot -> Nat]

(* References() in the next state. *)
LEMMA RefsStep ==
  ASSUME FsTypeOK, NEW p \in Process, NEW g \in Frame, NEW v, NEW w,
         Moved(p, g, v, w), NEW s \in Slot
  PROVE  /\ References(s) \in Nat /\ References(s)' \in Nat
         /\ References(s)' = References(s) + Uses(g, s) - Uses(frame[p], s)
              + Is(v, s) - Is(pwd[p], s) + Is(w, s) - Is(fds[p], s) + leaked'[s] - leaked[s]
<1>1. References(s)' = Refs(pwd', fds', frame', leaked', s)
  BY DEF References, Refs, DirPairs, Dirs, Members
<1>2. References(s) = Refs(pwd, fds, frame, leaked, s)
  BY DEF References, Refs, DirPairs, Dirs, Members
<1>3. /\ frame \in [Process -> Frame] /\ frame' \in [Process -> Frame]
      /\ OnlyAt(frame, frame', p) /\ frame'[p] = g
      /\ OnlyAt(pwd, pwd', p) /\ pwd'[p] = v
      /\ OnlyAt(fds, fds', p) /\ fds'[p] = w
      /\ leaked \in [Slot -> Nat]
  BY DEF FsTypeOK, MemoryTypes, OnlyAt, Moved
<1>4. /\ Refs(pwd, fds, frame, leaked, s) \in Nat
      /\ Refs(pwd', fds', frame', leaked', s)
         = Refs(pwd, fds, frame, leaked, s) + Uses(frame'[p], s) - Uses(frame[p], s)
           + Is(pwd'[p], s) - Is(pwd[p], s) + Is(fds'[p], s) - Is(fds[p], s)
           + leaked'[s] - leaked[s]
  <2>1. p \in Process /\ s \in Slot /\ leaked' \in [Slot -> Nat]
    BY DEF Moved
  <2> QED
    BY ONLY <1>3, <2>1, RefsChange
<1>5. Refs(pwd', fds', frame', leaked', s) \in Nat
  <2>1. p \in Process /\ s \in Slot /\ leaked' \in [Slot -> Nat]
    BY DEF Moved
  <2>2. OnlyAt(frame', frame, p) /\ OnlyAt(pwd', pwd, p) /\ OnlyAt(fds', fds, p)
    BY <1>3 DEF OnlyAt
  <2> QED
    BY ONLY <1>3, <2>1, <2>2, RefsChange
<1> QED
  BY ONLY <1>1, <1>2, <1>3, <1>4, <1>5

(* The references of the frames that occur. *)
LEMMA UsesOf ==
  ASSUME NEW f \in Frame, NEW s \in Slot
  PROVE  /\ Uses(f, s) \in Nat
         /\ f.dirs = << >> => Uses(f, s) = Is(f.inode, s)
         /\ \A d \in Slot : f.dirs = <<d>> => Uses(f, s) = Is(f.inode, s) + Is(d, s)
         /\ \A d \in Slot : f.dirs = <<d, d>> => Uses(f, s) = Is(f.inode, s) + Is(d, s) + Is(d, s)
<1>1. f.dirs \in Seq(Slot)
  BY DEF Frame
<1>2. Cardinality(Dirs(f, s)) \in Nat /\ \A x : Is(x, s) \in Nat
  BY <1>1, DirsFinite DEF Is
<1>3. Cardinality({}) = 0 /\ Cardinality({1}) = 1 /\ Cardinality({1, 2}) = 2
  <2>1. IsFiniteSet({1}) /\ Cardinality({1}) = 1
    BY FS_Singleton
  <2>2. Cardinality({1} \cup {2}) = 2
    BY ONLY <2>1, FS_AddElement
  <2>3. {1} \cup {2} = {1, 2}
    OBVIOUS
  <2> QED
    BY <2>1, <2>2, <2>3, FS_EmptySet
<1>4. f.dirs = << >> => Dirs(f, s) = {}
  BY DEF Dirs
<1>5. ASSUME NEW d \in Slot, f.dirs = <<d>> PROVE Dirs(f, s) = (IF d = s THEN {1} ELSE {})
  BY <1>5 DEF Dirs
<1>6. ASSUME NEW d \in Slot, f.dirs = <<d, d>> PROVE Dirs(f, s) = (IF d = s THEN {1, 2} ELSE {})
  BY <1>6 DEF Dirs
<1>7. Uses(f, s) = Is(f.inode, s) + Cardinality(Dirs(f, s))
  BY DEF Uses
<1>8. f.dirs = << >> => Uses(f, s) = Is(f.inode, s)
  <2>1. f.dirs = << >> => Cardinality(Dirs(f, s)) = 0
    BY <1>3, <1>4
  <2>2. Is(f.inode, s) \in Nat
    BY <1>2
  <2> QED
    BY <1>7, <2>1, <2>2
<1>9. ASSUME NEW d \in Slot, f.dirs = <<d>> PROVE Uses(f, s) = Is(f.inode, s) + Is(d, s)
  <2>1. Cardinality(Dirs(f, s)) = Is(d, s)
    BY <1>3, <1>5, <1>9 DEF Is
  <2> QED
    BY <1>7, <2>1
<1>10. ASSUME NEW d \in Slot, f.dirs = <<d, d>>
       PROVE Uses(f, s) = Is(f.inode, s) + Is(d, s) + Is(d, s)
  <2>1. Cardinality(Dirs(f, s)) = Is(d, s) + Is(d, s)
    BY <1>3, <1>6, <1>10 DEF Is
  <2> QED
    BY ONLY <1>2, <1>7, <2>1
<1> QED
  BY <1>2, <1>7, <1>8, <1>9, <1>10

LEMMA KeptIsReferred ==
  ASSUME FsTypeOK, NEW s \in Slot, Kept(leaked, s)
  PROVE  References(s) > 0
<1>1. References(s) = Refs(pwd, fds, frame, leaked, s)
  BY RefsIs
<1>2. leaked[s] \in Nat /\ (s # 1 => leaked[s] > 0)
  BY DEF FsTypeOK, MemoryTypes, Kept
<1>3. \A q \in Process : frame[q].dirs \in Seq(Slot)
  BY DEF FsTypeOK, MemoryTypes, Frame
<1> DEFINE I == [p \in Process |-> frame[p].inode]
<1>4. IsFiniteSet(Process)
  BY FileSystemAssumption
<1>5. /\ Cardinality(Members(pwd, s)) \in Nat /\ Cardinality(Members(fds, s)) \in Nat
      /\ Cardinality(Members(I, s)) \in Nat
  BY <1>4, FS_Subset, FS_CardinalityType DEF Members
<1>6. Cardinality(DirPairs(frame, Process, s)) \in Nat
  <2>1. CASE Process = {}
    <3>1. DirPairs(frame, Process, s) = {}
      BY <2>1 DEF DirPairs
    <3> QED
      BY <3>1, FS_EmptySet
  <2>2. ASSUME NEW p \in Process PROVE Cardinality(DirPairs(frame, Process, s)) \in Nat
    BY <1>3, PairsChange DEF OnlyAt
  <2> QED
    BY <2>1, <2>2
<1> HIDE DEF I
<1>7. References(s) = Cardinality(Members(pwd, s)) + Cardinality(Members(fds, s))
        + Cardinality(Members(I, s)) + Cardinality(DirPairs(frame, Process, s))
        + leaked[s] + (IF s = 1 THEN 1 ELSE 0)
  BY <1>1 DEF Refs, I
<1> QED
  BY ONLY <1>2, <1>5, <1>6, <1>7

-----------------------------------------------------------------------------
(* Steps of one process.                                                   *)

LEMMA KeptStays ==
  ASSUME NEW lk \in [Slot -> Nat], NEW mk \in [Slot -> Nat], \A s \in Slot : lk[s] <= mk[s]
  PROVE  \A s \in Slot : Kept(lk, s) => Kept(mk, s)
<1> SUFFICES ASSUME NEW s \in Slot, Kept(lk, s) PROVE Kept(mk, s)
  OBVIOUS
<1>1. lk[s] \in Nat /\ mk[s] \in Nat /\ lk[s] <= mk[s]
  OBVIOUS
<1> QED
  BY <1>1 DEF Kept

(* p goes on as g with working directory v: its new frame has to be right,  *)
(* those of the others are as they were.                                   *)
LEMMA FrameStep ==
  ASSUME FsTypeOK, RefInv, running, running' = running,
         NEW p \in Process, NEW g \in Frame, Shape(g), frame' = [frame EXCEPT ![p] = g],
         NEW v \in OptSlot, pwd' = [pwd EXCEPT ![p] = v], v \in Slot <=> Where(g) # "setpwd",
         leaked' \in [Slot -> Nat], \A s \in Slot : leaked[s] <= leaked'[s],
         v \in Slot => Kept(leaked', v),
         AllKept(leaked', g.dirs)
  PROVE  (\A q \in Process : Shape(frame[q]))' /\ Started' /\ PathsKept'
<1>1. frame' \in [Process -> Frame] /\ pwd' \in [Process -> OptSlot] /\ running'
  BY DEF FsTypeOK, MemoryTypes
<1>2. \A q \in Process : frame'[q] = (IF q = p THEN g ELSE frame[q])
                         /\ pwd'[q] = (IF q = p THEN v ELSE pwd[q])
  BY DEF FsTypeOK, MemoryTypes
<1>3. \A q \in Process : Shape(frame'[q])
  BY <1>2 DEF RefInv
<1>4. Started'
  BY <1>1, <1>2 DEF RefInv, Started
<1>5. \A s \in Slot : Kept(leaked, s) => Kept(leaked', s)
  BY KeptStays DEF FsTypeOK, MemoryTypes
<1>6. ASSUME NEW q \in Process
      PROVE  /\ pwd'[q] \in Slot => Kept(leaked', pwd'[q])
             /\ AllKept(leaked', frame'[q].dirs)
  <2>1. CASE q = p
    BY <1>2, <2>1
  <2>2. CASE q # p
    <3>1. pwd'[q] = pwd[q] /\ frame'[q] = frame[q]
      BY <1>2, <2>2
    <3>2. PICK d : d = frame[q].dirs /\ d \in Seq(Slot)
      BY DEF FsTypeOK, MemoryTypes, Frame
    <3>3. /\ pwd[q] \in Slot => Kept(leaked, pwd[q])
          /\ AllKept(leaked, d)
      BY <3>2 DEF RefInv, PathsKept
    <3>4. \A i \in DOMAIN d : d[i] \in Slot
      BY <3>2
    <3>5. AllKept(leaked', d)
      BY <1>5, <3>3, <3>4 DEF AllKept
    <3> QED
      BY <1>5, <3>1, <3>2, <3>3, <3>5
  <2> QED
    BY <2>1, <2>2
<1> QED
  BY <1>3, <1>4, <1>6 DEF PathsKept

(* open_cnt goes up. *)
Raised(s) == inode' = [inode EXCEPT ![s].cnt = @ + 1]

LEMMA ReopenRaises ==
  ASSUME FsTypeOK, NEW p, NEW s \in Slot, Reopen(p, s)
  PROVE  /\ Raised(s) /\ stopped' \in BOOLEAN /\ (~stopped' => inode[s].cnt > 0)
         /\ inode' \in [Slot -> [sector : FsSector, cnt : Int]]
<1>1. inode \in [Slot -> [sector : FsSector, cnt : Int]] /\ stopped \in BOOLEAN
  BY DEF FsTypeOK, MemoryTypes
<1>2. inode' = [inode EXCEPT ![s].cnt = inode[s].cnt + 1]
  BY DEF Reopen
<1>3. inode' \in [Slot -> [sector : FsSector, cnt : Int]]
  BY ONLY <1>1, <1>2, s \in Slot
<1>4. stopped' \in BOOLEAN /\ (~stopped' => inode[s].cnt > 0)
  BY <1>1 DEF Reopen, Counts
<1> QED
  BY <1>2, <1>3, <1>4 DEF Raised

(* p does not close an inode for the last time. *)
LEMMA ClosersSame ==
  ASSUME FsTypeOK, RefInv, NEW p \in Process, NEW g \in Frame, g.closing = Nil,
         frame[p].closing = Nil, g.making = frame[p].making,
         frame' = [frame EXCEPT ![p] = g], UNCHANGED <<open_inodes, heap>>,
         leaked' \in [Slot -> Nat], \A s \in Slot : leaked[s] <= leaked'[s],
         \/ UNCHANGED inode
         \/ \E s \in open_inodes : Raised(s) /\ inode[s].cnt > 0
  PROVE  OneEach' /\ Closers' /\ HeapFree'
<1>1. \A q \in Process : /\ frame'[q].closing = frame[q].closing
                         /\ frame'[q].making = frame[q].making
  BY DEF FsTypeOK, MemoryTypes
<1>2. \A s \in Slot : Kept(leaked, s) => Kept(leaked', s)
  BY KeptStays DEF FsTypeOK, MemoryTypes
<1>3. \A s \in open_inodes :
        /\ inode'[s].sector = inode[s].sector
        /\ inode[s].cnt \in Int /\ inode'[s].cnt \in Int
        /\ inode'[s].cnt >= inode[s].cnt
        /\ inode'[s].cnt > 0 => inode[s].cnt > 0
  <2>1. open_inodes \subseteq Slot /\ inode \in [Slot -> [sector : FsSector, cnt : Int]]
    BY DEF FsTypeOK, MemoryTypes
  <2>2. CASE UNCHANGED inode
    BY <2>1, <2>2
  <2>3. ASSUME NEW s \in open_inodes, Raised(s), inode[s].cnt > 0,
               NEW t \in open_inodes
        PROVE  /\ inode'[t].sector = inode[t].sector
               /\ inode[t].cnt \in Int /\ inode'[t].cnt \in Int
               /\ inode'[t].cnt >= inode[t].cnt
               /\ inode'[t].cnt > 0 => inode[t].cnt > 0
    <3>1. inode' = [inode EXCEPT ![s].cnt = inode[s].cnt + 1]
      BY <2>3 DEF Raised
    <3>2. CASE t = s
      BY ONLY <2>1, <2>3, <3>1, <3>2
    <3>3. CASE t # s
      BY ONLY <2>1, <2>3, <3>1, <3>3
    <3> QED
      BY <3>2, <3>3
  <2> QED
    BY <2>2, <2>3
<1>4. OneEach' /\ HeapFree'
  BY <1>3 DEF RefInv, OneEach, HeapFree
<1>5. ASSUME NEW s \in open_inodes', inode'[s].cnt <= 0
      PROVE  \E q \in Process : s \in {frame'[q].closing, frame'[q].making}
  <2>1. s \in open_inodes /\ inode[s].cnt <= 0
    <3>1. s \in open_inodes /\ inode'[s].cnt \in Int /\ inode[s].cnt \in Int
          /\ inode'[s].cnt >= inode[s].cnt
      BY <1>3, <1>5
    <3> QED
      BY ONLY <1>5, <3>1
  <2>2. PICK q \in Process : s \in {frame[q].closing, frame[q].making}
    BY <2>1 DEF RefInv, Closers
  <2> QED
    BY <1>1, <2>2
<1>6. ASSUME NEW q \in Process, frame'[q].closing \in Slot
      PROVE  /\ frame'[q].closing \in open_inodes'
             /\ inode'[frame'[q].closing].cnt > 0 => Kept(leaked', frame'[q].closing)
             /\ \A r \in Process : frame'[q].closing = frame'[r].closing
                  => q = r \/ Kept(leaked', frame'[q].closing)
  <2>1. PICK s \in Slot : s = frame[q].closing /\ s = frame'[q].closing
    BY <1>1, <1>6
  <2>2. s \in open_inodes /\ (inode[s].cnt > 0 => Kept(leaked, s))
    BY <2>1 DEF RefInv, Closers
  <2>3. \A r \in Process : frame[r].closing = s => q = r \/ Kept(leaked, s)
    BY <2>1 DEF RefInv, Closers
  <2> QED
    BY <1>1, <1>2, <1>3, <2>1, <2>2, <2>3
<1> QED
  BY <1>4, <1>5, <1>6 DEF Closers

(* A call that makes no inode leaves those that are being made alone. *)
LEMMA UnmadeSame ==
  ASSUME FsTypeOK, RefInv, NEW p \in Process, NEW g \in Frame, g.making = Nil,
         frame[p].making = Nil, frame' = [frame EXCEPT ![p] = g],
         UNCHANGED <<open_inodes, heap>>,
         \A s \in Slot : inode'[s].sector = inode[s].sector,
         \A s \in Slot \ open_inodes : inode'[s] = inode[s],
         g.closing \in Slot => g.closing \in open_inodes /\ inode[g.closing].cnt > 0,
         \A q \in Process : frame[q].making \in Slot => References(frame[q].making)' = 0
  PROVE  Unmade'
<1>1. /\ frame'[p] = g
      /\ \A q \in Process \ {p} : frame'[q] = frame[q]
      /\ \A q \in Process : frame'[q].making = frame[q].making
  BY DEF FsTypeOK, MemoryTypes
<1>2. Nil \notin Slot /\ open_inodes \subseteq Slot
  BY FileSystemAssumption DEF FsTypeOK, MemoryTypes
<1>3. \A s \in Slot \ open_inodes' : inode'[s] = NoInode
  BY DEF RefInv, Unmade
<1>4. ASSUME NEW s \in open_inodes', inode'[s].sector = 0
      PROVE  \E q \in Process : frame'[q].making = s /\ frame'[q].pc = "setsector"
  <2>1. s \in open_inodes /\ s \in Slot /\ inode[s].sector = 0
    BY <1>2, <1>4
  <2>2. PICK q \in Process : frame[q].making = s /\ frame[q].pc = "setsector"
    BY <2>1 DEF RefInv, Unmade
  <2>3. q # p
    BY <1>2, <2>1, <2>2
  <2> QED
    BY <1>1, <2>2, <2>3
<1>5. ASSUME NEW q \in Process, frame'[q].making \in Slot
      PROVE  Makes(q, frame[q].making)'
  <2>1. PICK s \in Slot : s = frame[q].making /\ s = frame'[q].making
    BY <1>1, <1>5
  <2>2. q # p /\ frame'[q] = frame[q]
    BY <1>1, <1>2, <2>1
  <2>3. Makes(q, s)
    BY <2>1 DEF RefInv, Unmade
  <2>4. References(s)' = 0
    BY <2>1
  <2>5. g.closing # s
    <3>1. ASSUME g.closing = s PROVE FALSE
      <4>1. s \in open_inodes /\ inode[s].cnt > 0
        BY <3>1
      <4>2. inode[s].cnt = 0 - doubled[s] /\ doubled[s] \in Nat
        BY <2>3, <4>1 DEF Makes, RefInv, Counted, FsTypeOK, MemoryTypes
      <4> QED
        BY ONLY <4>1, <4>2
    <3> QED
      BY <3>1
  <2>6. \A r \in Process : frame'[r].closing # s /\ (frame'[r].making = s => r = q)
    BY <1>1, <2>3, <2>5 DEF Makes
  <2>7. /\ s \in open_inodes' <=> frame'[q].pc # "link"
        /\ frame'[q].pc = "setcount" => inode'[s].sector = frame'[q].pick
        /\ \A i \in DOMAIN heap' : heap'[i] # s
    BY <2>2, <2>3 DEF Makes
  <2>8. Makes(q, s)'
    BY <2>4, <2>6, <2>7 DEF Makes
  <2> QED
    BY <2>1, <2>8
<1> QED
  BY <1>3, <1>4, <1>5 DEF Unmade

(* p closes s, which is open, and goes on as after says. *)
LEMMA CloseFrame ==
  ASSUME FsTypeOK, NEW p \in Process, NEW s \in Slot, s \in open_inodes,
         NEW after \in Frame, Shape(after), after.pc \in PC, after.making = Nil,
         Close(p, s, after)
  PROVE  /\ inode' = [inode EXCEPT ![s].cnt = @ - 1] /\ stopped' \in BOOLEAN
         /\ \E g \in Frame :
              /\ frame' = [frame EXCEPT ![p] = g] /\ Shape(g) /\ Where(g) = after.pc
              /\ g.dirs = after.dirs /\ g.inode = after.inode /\ g.making = Nil
              /\ g.closing = IF inode[s].cnt = 1 THEN s ELSE Nil
<1>1. after.pc # "unlist" /\ after.closing = Nil /\ after.pc \notin Inserting
  BY FileSystemAssumption DEF PC, Shape
<1>2. inode' = [inode EXCEPT ![s].cnt = @ - 1] /\ stopped' \in BOOLEAN
  BY DEF Close, Counts, FsTypeOK, MemoryTypes
<1>3. CASE inode[s].cnt # 1
  <2>1. frame' = [frame EXCEPT ![p] = after]
    BY <1>3 DEF Close, Resume
  <2> QED
    BY <1>1, <1>2, <1>3, <2>1 DEF Where
<1>4. CASE inode[s].cnt = 1
  <2> DEFINE g == [after EXCEPT !.pc = "unlist", !.closing = s, !.next = after.pc]
  <2>1. frame' = [frame EXCEPT ![p] = g]
    BY <1>4 DEF Close, Resume
  <2>2. g \in Frame
    <3>1. s \in OptSlot /\ after.pc \in PC \cup {Nil} /\ "unlist" \in PC \cup {"unlist"}
      BY DEF OptSlot
    <3> QED
      BY <3>1 DEF Frame
  <2>3. /\ g.pc = "unlist" /\ g.closing = s /\ g.next = after.pc /\ g.dirs = after.dirs
        /\ g.inode = after.inode /\ g.call = after.call /\ g.again = after.again
        /\ g.name = after.name /\ g.making = after.making /\ g.pick = after.pick
    BY DEF Frame
  <2> HIDE DEF g
  <2>4. Where(g) = after.pc /\ Where(after) = after.pc
    BY <1>1, <2>3 DEF Where
  <2>5. Shape(g)
    BY <1>1, <2>3, <2>4 DEF Shape, Inserting
  <2> QED
    BY <1>2, <1>4, <2>1, <2>2, <2>3, <2>4, <2>5
<1> QED
  BY <1>3, <1>4

LEMMA ClosersClose ==
  ASSUME FsTypeOK, RefInv, NEW p \in Process, NEW s \in Slot, s \in open_inodes,
         NEW g \in Frame, frame' = [frame EXCEPT ![p] = g],
         g.closing = IF inode[s].cnt = 1 THEN s ELSE Nil, frame[p].closing = Nil,
         g.making = frame[p].making, inode' = [inode EXCEPT ![s].cnt = @ - 1],
         UNCHANGED <<open_inodes, heap>>,
         leaked' \in [Slot -> Nat], \A t \in Slot : leaked[t] <= leaked'[t]
  PROVE  OneEach' /\ Closers' /\ HeapFree'
<1>1. \A q \in Process : /\ frame'[q].closing = IF q = p THEN g.closing ELSE frame[q].closing
                         /\ frame'[q].making = frame[q].making
  BY DEF FsTypeOK, MemoryTypes
<1>2. \A t \in Slot : Kept(leaked, t) => Kept(leaked', t)
  BY KeptStays DEF FsTypeOK, MemoryTypes
<1>3. \A t \in Slot :
        /\ inode'[t].sector = inode[t].sector
        /\ inode[t].cnt \in Int
        /\ inode'[t].cnt = IF t = s THEN inode[t].cnt - 1 ELSE inode[t].cnt
  BY DEF FsTypeOK, MemoryTypes
<1>4. open_inodes \subseteq Slot /\ Nil \notin Slot
  BY FileSystemAssumption DEF FsTypeOK, MemoryTypes
<1>5. OneEach' /\ HeapFree'
  BY <1>3, <1>4 DEF RefInv, OneEach, HeapFree
<1>6. ASSUME NEW t \in open_inodes', inode'[t].cnt <= 0
      PROVE  \E q \in Process : t \in {frame'[q].closing, frame'[q].making}
  <2>1. t \in open_inodes /\ t \in Slot
    BY <1>4
  <2>2. CASE t = s /\ inode[t].cnt = 1
    BY <1>1, <2>2
  <2>3. CASE inode[t].cnt <= 0
    <3>1. PICK q \in Process : t \in {frame[q].closing, frame[q].making}
      BY <2>1, <2>3 DEF RefInv, Closers
    <3> QED
      BY <1>1, <1>4, <2>1, <3>1
  <2> QED
    BY <1>3, <1>6, <2>1, <2>2, <2>3
<1>7. ASSUME NEW q \in Process, frame'[q].closing \in Slot
      PROVE  /\ frame'[q].closing \in open_inodes'
             /\ inode'[frame'[q].closing].cnt > 0 => Kept(leaked', frame'[q].closing)
             /\ \A r \in Process : frame'[q].closing = frame'[r].closing
                  => q = r \/ Kept(leaked', frame'[q].closing)
  <2>1. PICK t \in Slot : t = frame'[q].closing
    BY <1>7
  <2>2. CASE q = p
    <3>1. t = s /\ inode[s].cnt = 1
      BY <1>1, <1>4, <2>1, <2>2
    <3>2. ASSUME NEW r \in Process, r # p, frame[r].closing = s PROVE Kept(leaked, s)
      BY <3>1, <3>2 DEF RefInv, Closers
    <3> QED
      BY <1>1, <1>2, <1>3, <2>1, <2>2, <3>1, <3>2
  <2>3. CASE q # p
    <3>1. t = frame[q].closing
      BY <1>1, <2>1, <2>3
    <3>2. t \in open_inodes /\ (inode[t].cnt > 0 => Kept(leaked, t))
      BY <3>1 DEF RefInv, Closers
    <3>3. \A r \in Process : frame[r].closing = t => q = r \/ Kept(leaked, t)
      BY <3>1 DEF RefInv, Closers
    <3>4. frame'[p].closing = t => Kept(leaked, t)
      BY <1>1, <1>4, <3>2
    <3> QED
      BY <1>1, <1>2, <1>3, <2>1, <3>2, <3>3, <3>4
  <2> QED
    BY <2>2, <2>3
<1> QED
  BY <1>5, <1>6, <1>7 DEF Closers

(* p goes on as g, with working directory v and open file w. *)
Goes(p, g, v, w) ==
  /\ g \in Frame /\ Shape(g) /\ v \in OptSlot /\ w \in OptSlot
  /\ frame' = [frame EXCEPT ![p] = g]
  /\ pwd' = [pwd EXCEPT ![p] = v]
  /\ fds' = [fds EXCEPT ![p] = w]
  /\ running /\ UNCHANGED <<open_inodes, heap, running>>
  /\ frame[p].closing = Nil /\ frame[p].making = Nil /\ g.making = Nil
  /\ (v \in Slot <=> Where(g) # "setpwd")
  /\ v \in Slot => Kept(leaked', v)
  /\ AllKept(leaked', g.dirs)
  /\ leaked' \in [Slot -> Nat] /\ doubled' \in [Slot -> Nat]
  /\ \A s \in Slot : leaked[s] <= leaked'[s]

(* The references to s that this adds. *)
Change(p, g, v, w, s) ==
  Uses(g, s) - Uses(frame[p], s) + Is(v, s) - Is(pwd[p], s) + Is(w, s) - Is(fds[p], s)
  + leaked'[s] - leaked[s]

LEMMA ChangeInt ==
  ASSUME FsTypeOK, NEW p \in Process, NEW g, NEW v, NEW w, Goes(p, g, v, w), NEW s \in Slot
  PROVE  /\ Change(p, g, v, w, s) \in Int /\ References(s) \in Nat /\ References(s)' \in Nat
         /\ References(s)' = References(s) + Change(p, g, v, w, s)
<1>1. frame[p] \in Frame /\ g \in Frame
  BY DEF FsTypeOK, MemoryTypes, Goes
<1>2. Uses(g, s) \in Nat /\ Uses(frame[p], s) \in Nat
  BY <1>1, UsesOf
<1>3. leaked[s] \in Nat /\ leaked'[s] \in Nat /\ \A x : Is(x, s) \in Nat
  BY DEF FsTypeOK, MemoryTypes, Goes, Is
<1>4. /\ References(s) \in Nat /\ References(s)' \in Nat
      /\ References(s)' = References(s) + Uses(g, s) - Uses(frame[p], s)
           + Is(v, s) - Is(pwd[p], s) + Is(w, s) - Is(fds[p], s) + leaked'[s] - leaked[s]
  <2>1. Moved(p, g, v, w)
    BY DEF Goes, Moved
  <2> QED
    BY <1>1, <2>1, RefsStep
<1> QED
  BY ONLY <1>2, <1>3, <1>4 DEF Change

LEMMA CountStep ==
  ASSUME FsTypeOK, Counted, NEW p \in Process, NEW g, NEW v, NEW w, Goes(p, g, v, w),
         \A s \in Slot :
           IF s \in open_inodes
           THEN inode'[s].cnt = inode[s].cnt + Change(p, g, v, w, s) - (doubled'[s] - doubled[s])
           ELSE Change(p, g, v, w, s) = 0 /\ doubled'[s] = doubled[s]
  PROVE  Counted'
<1>1. ASSUME NEW s \in Slot
      PROVE  IF s \in open_inodes'
             THEN inode'[s].cnt = References(s)' - doubled'[s]
             ELSE References(s)' = 0 /\ doubled'[s] = 0
  <2>1. PICK c \in Int : c = Change(p, g, v, w, s)
    BY ChangeInt
  <2>2. References(s) \in Nat /\ References(s)' = References(s) + c
    BY <2>1, ChangeInt
  <2>3. doubled[s] \in Nat /\ doubled'[s] \in Nat /\ inode[s].cnt \in Int
    BY DEF FsTypeOK, MemoryTypes, Goes
  <2>4. open_inodes' = open_inodes
    BY DEF Goes
  <2>5. CASE s \in open_inodes
    <3>1. inode[s].cnt = References(s) - doubled[s]
      BY <2>5 DEF Counted
    <3>2. inode'[s].cnt = inode[s].cnt + c - (doubled'[s] - doubled[s])
      BY <2>1, <2>5
    <3> QED
      BY ONLY <2>2, <2>3, <2>4, <2>5, <3>1, <3>2
  <2>6. CASE s \notin open_inodes
    <3>1. References(s) = 0 /\ doubled[s] = 0
      BY <2>6 DEF Counted
    <3>2. c = 0 /\ doubled'[s] = doubled[s]
      BY <2>1, <2>6
    <3> QED
      BY ONLY <2>2, <2>4, <2>6, <3>1, <3>2
  <2> QED
    BY <2>5, <2>6
<1> QED
  BY <1>1 DEF Counted

LEMMA GoesFrame ==
  ASSUME FsTypeOK, RefInv, NEW p \in Process, NEW g, NEW v, NEW w, Goes(p, g, v, w)
  PROVE  (\A q \in Process : Shape(frame[q]))' /\ Started' /\ PathsKept'
<1>1. /\ g \in Frame /\ Shape(g) /\ v \in OptSlot
      /\ frame' = [frame EXCEPT ![p] = g]
      /\ pwd' = [pwd EXCEPT ![p] = v]
      /\ running /\ running' = running
      /\ (v \in Slot <=> Where(g) # "setpwd")
      /\ v \in Slot => Kept(leaked', v)
      /\ AllKept(leaked', g.dirs)
      /\ leaked' \in [Slot -> Nat]
      /\ \A s \in Slot : leaked[s] <= leaked'[s]
  BY DEF Goes
<1> QED
  BY <1>1, FrameStep

(* The inodes that are being made, by their references. *)
LEMMA UnmadeStep ==
  ASSUME FsTypeOK, RefInv, NEW p \in Process, NEW g, NEW v, NEW w, Goes(p, g, v, w),
         g.closing \in Slot => g.closing \in open_inodes /\ inode[g.closing].cnt > 0,
         \A s \in Slot : inode'[s].sector = inode[s].sector,
         \A s \in Slot \ open_inodes : inode'[s] = inode[s],
         \A s \in Slot : (s \in open_inodes /\ inode[s].cnt > 0) \/ Change(p, g, v, w, s) <= 0
  PROVE  Unmade'
<1>2. /\ g \in Frame /\ g.making = Nil /\ frame[p].making = Nil
      /\ frame' = [frame EXCEPT ![p] = g] /\ UNCHANGED <<open_inodes, heap>>
  BY DEF Goes
<1>4. \A q \in Process : frame'[q].making = frame[q].making
  BY <1>2 DEF FsTypeOK, MemoryTypes
<1>1. ASSUME NEW q \in Process, frame[q].making \in Slot
      PROVE  References(frame[q].making)' = 0
  <2>1. PICK s \in Slot : s = frame[q].making /\ s = frame'[q].making
    BY <1>1, <1>4
  <2>2. References(s) = 0
    BY <2>1 DEF RefInv, Unmade, Makes
  <2>3. PICK c \in Int : c = Change(p, g, v, w, s)
    BY ChangeInt
  <2>4. References(s)' \in Nat /\ References(s)' = References(s) + c
    BY <2>3, ChangeInt
  <2>5. ~(s \in open_inodes /\ inode[s].cnt > 0)
    <3>1. ASSUME s \in open_inodes, inode[s].cnt > 0 PROVE FALSE
      <4>1. inode[s].cnt = 0 - doubled[s] /\ doubled[s] \in Nat
        BY <2>2, <3>1 DEF RefInv, Counted, FsTypeOK, MemoryTypes
      <4> QED
        BY ONLY <3>1, <4>1
    <3> QED
      BY <3>1
  <2>6. c <= 0
    BY <2>3, <2>5
  <2>7. References(s)' = 0
    BY ONLY <2>2, <2>3, <2>4, <2>6
  <2> QED
    BY <2>1, <2>7
<1>3. \A q \in Process : frame[q].making \in Slot => References(frame[q].making)' = 0
  BY <1>1
<1> QED
  BY <1>2, <1>3, UnmadeSame

(* A step that neither opens nor closes an inode. *)
LEMMA MoveStep ==
  ASSUME FsTypeOK, RefInv, NEW p \in Process, NEW g, NEW v, NEW w, Goes(p, g, v, w),
         g.closing = Nil, UNCHANGED <<inode, doubled>>,
         \A s \in Slot : Change(p, g, v, w, s) = 0
  PROVE  RefInv'
<1>1. (\A q \in Process : Shape(frame[q]))' /\ Started' /\ PathsKept'
  BY GoesFrame
<1>2. OneEach' /\ Closers' /\ HeapFree'
  <2>1. /\ g \in Frame /\ frame[p].closing = Nil /\ frame' = [frame EXCEPT ![p] = g]
        /\ UNCHANGED <<open_inodes, heap>> /\ leaked' \in [Slot -> Nat]
        /\ g.making = frame[p].making
        /\ \A s \in Slot : leaked[s] <= leaked'[s]
    BY DEF Goes
  <2> QED
    BY <2>1, ClosersSame
<1>3. \A s \in Slot : /\ inode'[s].cnt = inode[s].cnt /\ inode[s].cnt \in Int
                      /\ doubled'[s] = doubled[s] /\ doubled[s] \in Nat
  BY DEF FsTypeOK, MemoryTypes
<1>4. \A s \in Slot :
        IF s \in open_inodes
        THEN inode'[s].cnt = inode[s].cnt + Change(p, g, v, w, s) - (doubled'[s] - doubled[s])
        ELSE Change(p, g, v, w, s) = 0 /\ doubled'[s] = doubled[s]
  BY <1>3
<1>5. Counted'
  BY <1>4, CountStep DEF RefInv
<1>6. Unmade'
  <2>1. g.closing \notin Slot /\ \A s \in Slot : Change(p, g, v, w, s) <= 0
    BY FileSystemAssumption
  <2> QED
    BY <2>1, UnmadeStep
<1> QED
  BY <1>1, <1>2, <1>5, <1>6 DEF RefInv

(* A step that refers to an open inode once more. *)
LEMMA ReopenStep ==
  ASSUME FsTypeOK, RefInv, NEW p \in Process, NEW g, NEW v, NEW w, Goes(p, g, v, w),
         g.closing = Nil, NEW s \in open_inodes, Raised(s),
         inode[s].cnt > 0, UNCHANGED doubled,
         \A t \in Slot : Change(p, g, v, w, t) = Is(s, t)
  PROVE  RefInv'
<1>1. (\A q \in Process : Shape(frame[q]))' /\ Started' /\ PathsKept'
  BY GoesFrame
<1>2. OneEach' /\ Closers' /\ HeapFree'
  <2>1. /\ g \in Frame /\ frame[p].closing = Nil /\ frame' = [frame EXCEPT ![p] = g]
        /\ UNCHANGED <<open_inodes, heap>> /\ leaked' \in [Slot -> Nat]
        /\ g.making = frame[p].making
        /\ \A t \in Slot : leaked[t] <= leaked'[t]
    BY DEF Goes
  <2> QED
    BY <2>1, ClosersSame
<1>3. \A t \in Slot : /\ inode'[t].cnt = inode[t].cnt + Is(s, t) /\ inode[t].cnt \in Int
                      /\ doubled'[t] = doubled[t] /\ doubled[t] \in Nat
                      /\ Is(s, t) \in Nat
  BY DEF FsTypeOK, MemoryTypes, Raised, Is
<1>4. \A t \in Slot :
        IF t \in open_inodes
        THEN inode'[t].cnt = inode[t].cnt + Change(p, g, v, w, t) - (doubled'[t] - doubled[t])
        ELSE Change(p, g, v, w, t) = 0 /\ doubled'[t] = doubled[t]
  BY <1>3 DEF Is
<1>5. Counted'
  BY <1>4, CountStep DEF RefInv
<1>6. Unmade'
  <2>1. g.closing \notin Slot
    BY FileSystemAssumption
  <2>2. /\ \A t \in Slot : inode'[t].sector = inode[t].sector
        /\ \A t \in Slot \ open_inodes : inode'[t] = inode[t]
    BY DEF FsTypeOK, MemoryTypes, Raised
  <2>3. \A t \in Slot : (t \in open_inodes /\ inode[t].cnt > 0) \/ Change(p, g, v, w, t) <= 0
    BY DEF Is
  <2> QED
    BY <2>1, <2>2, <2>3, UnmadeStep
<1> QED
  BY <1>1, <1>2, <1>5, <1>6 DEF RefInv

(* s is closed once, and a reference to it given up or counted as closed    *)
(* twice.                                                                  *)
ClosedOnce(p, g, v, w, s) ==
  /\ inode' = [inode EXCEPT ![s].cnt = @ - 1]
  /\ g.closing = IF inode[s].cnt = 1 THEN s ELSE Nil
  /\ \A t \in Slot : Change(p, g, v, w, t) - (doubled'[t] - doubled[t]) = 0 - Is(s, t)
  /\ \A t \in Slot \ open_inodes : doubled'[t] = doubled[t]
  /\ \A t \in Slot : doubled'[t] <= doubled[t] + Is(s, t)

(* A step that closes an open inode. *)
LEMMA CloseStep ==
  ASSUME FsTypeOK, RefInv, NEW p \in Process, NEW g, NEW v, NEW w, Goes(p, g, v, w),
         NEW s \in open_inodes, ClosedOnce(p, g, v, w, s)
  PROVE  RefInv'
<1>0. /\ inode' = [inode EXCEPT ![s].cnt = @ - 1]
      /\ g.closing = IF inode[s].cnt = 1 THEN s ELSE Nil
      /\ \A t \in Slot : Change(p, g, v, w, t) - (doubled'[t] - doubled[t]) = 0 - Is(s, t)
      /\ \A t \in Slot \ open_inodes : doubled'[t] = doubled[t]
      /\ \A t \in Slot : doubled'[t] <= doubled[t] + Is(s, t)
  BY DEF ClosedOnce
<1>1. (\A q \in Process : Shape(frame[q]))' /\ Started' /\ PathsKept'
  BY GoesFrame
<1>2. OneEach' /\ Closers' /\ HeapFree'
  <2>1. /\ g \in Frame /\ frame[p].closing = Nil /\ frame' = [frame EXCEPT ![p] = g]
        /\ UNCHANGED <<open_inodes, heap>> /\ leaked' \in [Slot -> Nat]
        /\ g.making = frame[p].making
        /\ \A t \in Slot : leaked[t] <= leaked'[t]
    BY DEF Goes
  <2>2. s \in Slot
    BY DEF FsTypeOK, MemoryTypes
  <2> QED
    BY <1>0, <2>1, <2>2, ClosersClose
<1>3. ASSUME NEW t \in Slot
      PROVE  IF t \in open_inodes
             THEN inode'[t].cnt = inode[t].cnt + Change(p, g, v, w, t) - (doubled'[t] - doubled[t])
             ELSE Change(p, g, v, w, t) = 0 /\ doubled'[t] = doubled[t]
  <2>1. PICK c \in Int : c = Change(p, g, v, w, t)
    BY ChangeInt
  <2>2. /\ inode'[t].cnt = inode[t].cnt - Is(s, t) /\ inode[t].cnt \in Int
        /\ doubled'[t] \in Nat /\ doubled[t] \in Nat
        /\ Is(s, t) \in Nat /\ (t \notin open_inodes => Is(s, t) = 0)
    BY <1>0, SMTT(30) DEF FsTypeOK, MemoryTypes, Goes, Is
  <2>3. c - (doubled'[t] - doubled[t]) = 0 - Is(s, t)
    BY <1>0, <2>1
  <2>4. t \notin open_inodes => doubled'[t] = doubled[t]
    BY <1>0
  <2> QED
    BY ONLY <2>1, <2>2, <2>3, <2>4
<1>4. Counted'
  BY <1>3, CountStep DEF RefInv
<1>5. Unmade'
  <2>1. g.closing \in Slot => g.closing \in open_inodes /\ inode[g.closing].cnt > 0
    <3>1. g.closing \in Slot => g.closing = s /\ inode[s].cnt = 1
      BY <1>0, FileSystemAssumption
    <3> QED
      BY <3>1
  <2>2. /\ \A t \in Slot : inode'[t].sector = inode[t].sector
        /\ \A t \in Slot \ open_inodes : inode'[t] = inode[t]
    BY <1>0 DEF FsTypeOK, MemoryTypes
  <2>3. ASSUME NEW t \in Slot PROVE Change(p, g, v, w, t) <= 0
    <3>1. PICK c \in Int : c = Change(p, g, v, w, t)
      BY ChangeInt
    <3>2. c - (doubled'[t] - doubled[t]) = 0 - Is(s, t) /\ doubled'[t] <= doubled[t] + Is(s, t)
      BY <1>0, <3>1
    <3>3. doubled'[t] \in Nat /\ doubled[t] \in Nat /\ Is(s, t) \in Nat
      BY DEF FsTypeOK, MemoryTypes, Goes, Is
    <3> QED
      BY ONLY <3>1, <3>2, <3>3
  <2> QED
    BY <2>1, <2>2, <2>3, UnmadeStep
<1> QED
  BY <1>1, <1>2, <1>4, <1>5 DEF RefInv

-----------------------------------------------------------------------------
(* The steps of a call.                                                    *)

LEMMA GoesTypes ==
  ASSUME FsTypeOK, NEW p \in Process, NEW g, NEW v, NEW w, Goes(p, g, v, w),
         inode' \in [Slot -> [sector : FsSector, cnt : Int]],
         stopped' \in BOOLEAN, DiskTypes'
  PROVE  FsTypeOK'
<1>1. frame' \in [Process -> Frame] /\ pwd' \in [Process -> OptSlot] /\ fds' \in [Process -> OptSlot]
  BY DEF FsTypeOK, MemoryTypes, Goes
<1>2. /\ open_inodes' \subseteq Slot /\ heap' \in Seq(Slot) /\ running' \in BOOLEAN
      /\ leaked' \in [Slot -> Nat] /\ doubled' \in [Slot -> Nat]
  BY DEF FsTypeOK, MemoryTypes, Goes
<1> QED
  BY <1>1, <1>2 DEF FsTypeOK, MemoryTypes

LEMMA DiskSame ==
  ASSUME FsTypeOK, UNCHANGED <<free_map, diskVars, lostVars>>
  PROVE  DiskTypes'
  BY DEF FsTypeOK, DiskTypes, diskVars, lostVars

(* What is known of a process that is in a call. *)
LEMMA InCall ==
  ASSUME FsTypeOK, RefInv, NEW p \in Process, frame[p].pc \notin {"outside", "unlist"}
  PROVE  /\ frame[p] \in Frame /\ Shape(frame[p]) /\ frame[p].closing = Nil
         /\ frame[p].pc \notin Inserting => frame[p].making = Nil
         /\ Where(frame[p]) = frame[p].pc
         /\ running
         /\ pwd[p] \in OptSlot /\ fds[p] \in OptSlot
         /\ (frame[p].pc # "setpwd" <=> pwd[p] \in Slot)
         /\ pwd[p] \in Slot => Kept(leaked, pwd[p])
         /\ AllKept(leaked, frame[p].dirs)
<1>1. frame[p] \in Frame /\ Shape(frame[p]) /\ pwd[p] \in OptSlot /\ fds[p] \in OptSlot
      /\ running \in BOOLEAN
  BY DEF FsTypeOK, MemoryTypes, RefInv
<1>2. /\ frame[p].closing = Nil /\ Where(frame[p]) = frame[p].pc
      /\ frame[p].pc \notin Inserting => frame[p].making = Nil
  BY <1>1 DEF Shape, Where
<1>3. running /\ (frame[p].pc # "setpwd" <=> pwd[p] \in Slot)
  BY <1>1, <1>2 DEF RefInv, Started
<1> QED
  BY <1>1, <1>2, <1>3 DEF RefInv, PathsKept

(* p goes on with the references it has. *)
LEMMA QuietStep ==
  ASSUME FsTypeOK, RefInv, NEW p \in Process,
         frame[p].pc \notin {"outside", "unlist", "setpwd"} \cup Inserting,
         NEW g \in Frame, Shape(g), g.closing = Nil, g.making = Nil, Where(g) # "setpwd",
         g.dirs = frame[p].dirs, g.inode = frame[p].inode,
         Resume(p, g), UNCHANGED <<memoryVars, holdVars, running>>,
         stopped' \in BOOLEAN, DiskTypes'
  PROVE  FsTypeOK' /\ RefInv'
<1>1. Goes(p, g, pwd[p], fds[p])
  BY InCall DEF Goes, Resume, memoryVars, holdVars, FsTypeOK, MemoryTypes
<1>2. UNCHANGED <<inode, doubled>>
  BY DEF memoryVars, holdVars
<1>3. ASSUME NEW s \in Slot PROVE Change(p, g, pwd[p], fds[p], s) = 0
  <2>1. Uses(g, s) = Uses(frame[p], s)
    BY DEF Uses, Dirs
  <2>2. frame[p] \in Frame /\ leaked[s] \in Nat /\ leaked' = leaked
    BY DEF FsTypeOK, MemoryTypes, holdVars
  <2>3. Uses(frame[p], s) \in Nat /\ \A x : Is(x, s) \in Nat
    BY <2>2, UsesOf DEF Is
  <2> QED
    BY ONLY <2>1, <2>2, <2>3 DEF Change
<1>4. RefInv'
  <2>1. PICK v, w : v = pwd[p] /\ w = fds[p]
    OBVIOUS
  <2> QED
    BY <1>1, <1>2, <1>3, <2>1, MoveStep
<1>5. FsTypeOK'
  <2>1. PICK v, w : v = pwd[p] /\ w = fds[p]
    OBVIOUS
  <2>2. inode' \in [Slot -> [sector : FsSector, cnt : Int]]
    BY <1>2 DEF FsTypeOK, MemoryTypes
  <2> QED
    BY <1>1, <2>1, <2>2, GoesTypes
<1> QED
  BY <1>4, <1>5

WithInode == {"adddot", "addparent", "closemade"}

LEMMA ShapeMaking ==
  ASSUME NEW f \in Frame, NEW g \in Frame, Shape(f), f.pc \in Making,
         g.pc \in Making \ {"closeagain"}, f.pc \in WithInode <=> g.pc \in WithInode,
         g.pc \in Naming => f.pc \in Naming, g.name = f.name,
         g.call = f.call, g.dirs = f.dirs, g.inode = f.inode, g.closing = f.closing,
         g.making = f.making
  PROVE  Shape(g)
<1>1. Where(f) = f.pc /\ Where(g) = g.pc
  BY DEF Where, Making
<1>2. f.closing = Nil /\ f.making = Nil /\ g.pc \notin Inserting
  BY DEF Shape, Making, Naming, Inserting
<1> QED
  BY <1>1, <1>2 DEF Shape, Making, Naming, WithInode, Inserting

(* A set of numbers has a least element, and Lowest() is it.               *)
LEMMA LowestIsLeast ==
  ASSUME NEW S \in SUBSET Nat, S # {}
  PROVE  Lowest(S) \in S /\ \A j \in S : Lowest(S) <= j
<1> DEFINE Below(x) == {j \in S : j < x}
           D == {Below(x) : x \in S}
<1>1. D \subseteq FiniteSubsetsOf(S)
  <2> SUFFICES ASSUME NEW x \in S PROVE IsFiniteSet(Below(x))
    BY DEF FiniteSubsetsOf
  <2> QED
    BY Below(x) \in SUBSET Nat, x \in Nat, \A s \in Below(x) : s <= x,
       FS_BoundedSetOfNaturals
<1>2. PICK T \in D : \A U \in D : ~ (<<U, T>> \in StrictSubsetOrdering(S))
  <2>1. D # {} OBVIOUS
  <2> QED BY ONLY <1>1, <2>1, FS_StrictSubsetOrderingWellFounded, WFMin
<1>3. PICK x \in S : T = Below(x)
  BY <1>2
<1>4. ASSUME NEW y \in S, y < x
      PROVE  FALSE
  <2>2. ASSUME NEW j \in S, j < y PROVE j < x
    BY <1>4, <2>2, x \in Nat, y \in Nat, j \in Nat
  <2>3. Below(y) \subseteq Below(x)
    BY <2>2
  <2>4. ~(y < y)
    BY y \in Nat
  <2>5. y \in Below(x) /\ ~(y \in Below(y))
    BY <1>4, <2>4
  <2>6. <<Below(y), T>> \in StrictSubsetOrdering(S)
    BY <2>3, <2>5, <1>3 DEF StrictSubsetOrdering
  <2> QED BY <2>6, <1>2
<1>5. \A y \in S : x <= y
  BY <1>4
<1> QED
  BY <1>2, <1>3, <1>5 DEF Lowest

LEMMA LowestUnused ==
  Unused # {} => Lowest(Unused) \in FsSector /\ Lowest(Unused) \notin free_map
<1>1. Unused \in SUBSET Nat
  BY FileSystemAssumption DEF Unused, FsSector
<1> QED
  BY <1>1, LowestIsLeast DEF Unused

(* A step of mkdir that changes neither its directory nor its inode. *)
LEMMA MakingStep ==
  ASSUME FsTypeOK, RefInv, NEW p \in Process, frame[p].pc \in Making, NEW g \in Frame,
         g.pc \in Making \ {"closeagain"}, frame[p].pc \in WithInode <=> g.pc \in WithInode,
         g.pc \in Naming => frame[p].pc \in Naming, g.name = frame[p].name,
         g.call = frame[p].call, g.dirs = frame[p].dirs, g.inode = frame[p].inode,
         g.closing = frame[p].closing, g.making = frame[p].making,
         Resume(p, g), UNCHANGED <<memoryVars, holdVars, running>>,
         stopped' \in BOOLEAN, DiskTypes'
  PROVE  FsTypeOK' /\ RefInv'
<1>1. frame[p].pc \notin {"outside", "unlist", "setpwd"} \cup Inserting
  BY DEF Making, Inserting
<1>2. frame[p] \in Frame /\ Shape(frame[p]) /\ frame[p].closing = Nil /\ frame[p].making = Nil
  BY <1>1, InCall
<1>3. Shape(g)
  <2>1. PICK f \in Frame : f = frame[p]
    BY <1>2
  <2> QED
    BY <1>2, <2>1, ShapeMaking
<1>4. Where(g) # "setpwd"
  BY DEF Where, Making
<1> QED
  BY <1>1, <1>2, <1>3, <1>4, QuietStep

LEMMA ScanFreeMapStep ==
  ASSUME FsTypeOK, RefInv, NEW p \in Process, ScanFreeMap(p)
  PROVE  FsTypeOK' /\ RefInv'
<1>1. frame[p] \in Frame /\ frame[p].pc = "scan"
  BY DEF ScanFreeMap, At, FsTypeOK, MemoryTypes
<1> DEFINE g == IF Unused # {}
                THEN [frame[p] EXCEPT !.pc = "flip", !.pick = Lowest(Unused)]
                ELSE [frame[p] EXCEPT !.pc = IF frame[p].sector = 0 THEN "closedir"
                                                                    ELSE "makeinode"]
<1>2. Resume(p, g) /\ UNCHANGED <<memoryVars, holdVars, running, stopped>> /\ DiskTypes'
  BY DiskSame DEF ScanFreeMap
<1>3. g \in Frame /\ g.pc \in {"flip", "closedir", "makeinode"}
  <2>1. {"flip", "closedir", "makeinode"} \subseteq PC \cup {"unlist"}
    BY DEF PC
  <2>2. CASE Unused # {}
    BY <1>1, <2>1, <2>2, LowestUnused DEF Frame
  <2>3. CASE Unused = {}
    BY <1>1, <2>1, <2>3 DEF Frame
  <2> QED
    BY <2>2, <2>3
<1>4. g.name = frame[p].name /\ g.call = frame[p].call /\ g.dirs = frame[p].dirs /\ g.inode = frame[p].inode
      /\ g.closing = frame[p].closing /\ g.making = frame[p].making
  BY <1>1 DEF Frame
<1>5. stopped' \in BOOLEAN
  BY <1>2 DEF FsTypeOK, MemoryTypes
<1> HIDE DEF g
<1> PICK h : h = g
  OBVIOUS
<1> QED
  BY <1>1, <1>2, <1>3, <1>4, <1>5, MakingStep DEF Making, WithInode, Naming

LEMMA FlipBitStep ==
  ASSUME FsTypeOK, RefInv, NEW p \in Process, FlipBit(p)
  PROVE  FsTypeOK' /\ RefInv'
<1>1. frame[p] \in Frame /\ frame[p].pc = "flip"
  BY DEF FlipBit, At, FsTypeOK, MemoryTypes
<1> DEFINE g == [frame[p] EXCEPT !.pc = "save"]
<1>2. g \in Frame /\ g.pc = "save"
      /\ g.name = frame[p].name /\ g.call = frame[p].call /\ g.dirs = frame[p].dirs /\ g.inode = frame[p].inode
      /\ g.closing = frame[p].closing /\ g.making = frame[p].making
  BY <1>1 DEF Frame, PC
<1>3. Resume(p, g)
  BY DEF FlipBit, Goto, Resume, FsTypeOK, MemoryTypes
<1>4. UNCHANGED <<memoryVars, holdVars, running>> /\ stopped' \in BOOLEAN
  BY DEF FlipBit
<1>5. DiskTypes'
  BY <1>1 DEF FlipBit, DiskTypes, FsTypeOK, diskVars, lostVars, Frame
<1> HIDE DEF g
<1> QED
  BY <1>1, <1>2, <1>3, <1>4, <1>5, MakingStep DEF Making, WithInode, Naming

LEMMA ZeroSector == 0 \in FsSector /\ RootSector \in FsSector /\ 3 \in FsSector
  BY FileSystemAssumption DEF FsSector, RootSector

LEMMA AddTypes ==
  ASSUME FsTypeOK, NEW s, NEW n, NEW x \in FsSector, Add(s, n, x),
         UNCHANGED <<free_map, node, diskMap, lostVars>>
  PROVE  DiskTypes'
<1> PICK b : b = node[inode[s].sector].block
  OBVIOUS
<1>1. entries' = [entries EXCEPT ![b][n] = IF entries[b][n] = 0 THEN x ELSE entries[b][n]]
  BY DEF Add
<1>2. entries \in [FsSector -> [EntryName -> FsSector]]
  BY DEF FsTypeOK, DiskTypes
<1>3. entries' \in [FsSector -> [EntryName -> FsSector]]
  <2>1. ASSUME NEW c \in FsSector PROVE entries'[c] \in [EntryName -> FsSector]
    BY <1>1, <1>2
  <2>2. entries' = [c \in FsSector |-> entries'[c]]
    BY <1>1, <1>2
  <2> QED
    BY <2>1, <2>2
<1> QED
  BY <1>3 DEF FsTypeOK, DiskTypes, lostVars

LEMMA LoadByteStep ==
  ASSUME FsTypeOK, RefInv, NEW p \in Process, LoadByte(p)
  PROVE  FsTypeOK' /\ RefInv'
<1>1. frame[p] \in Frame /\ frame[p].pc \in {"save", "saverelease"}
  BY DEF LoadByte, Saving, FsTypeOK, MemoryTypes
<1> DEFINE g == [frame[p] EXCEPT !.loaded = free_map \cap Byte(frame[p].at)]
<1>2. g \in Frame /\ g.pc = frame[p].pc
      /\ g.name = frame[p].name /\ g.call = frame[p].call /\ g.dirs = frame[p].dirs /\ g.inode = frame[p].inode
      /\ g.closing = frame[p].closing /\ g.making = frame[p].making
  <2>1. free_map \cap Byte(frame[p].at) \in SUBSET FsSector
    BY DEF FsTypeOK, DiskTypes
  <2> QED
    BY <1>1, <2>1 DEF Frame, PC
<1>3. Resume(p, g) /\ UNCHANGED <<memoryVars, holdVars, running, stopped>> /\ DiskTypes'
  BY DiskSame DEF LoadByte
<1>4. stopped' \in BOOLEAN
  BY <1>3 DEF FsTypeOK, MemoryTypes
<1> HIDE DEF g
<1> QED
  BY <1>1, <1>2, <1>3, <1>4, MakingStep DEF Making, WithInode, Naming

(* The frame after a byte is stored. *)
LEMMA StoredFrame ==
  ASSUME NEW f \in Frame, f.pc \in {"save", "saverelease"}
  PROVE  /\ [f EXCEPT !.at = @ + ByteBits, !.loaded = Nil] \in Frame
         /\ Saved(f) \in Frame /\ Saved(f).pc \in {"scan", "makeinode", "closedir"}
         /\ f.pc = "saverelease" => Saved(f).pc = "closedir"
         /\ \A g \in {[f EXCEPT !.at = @ + ByteBits, !.loaded = Nil], Saved(f)} :
              /\ g.name = f.name /\ g.call = f.call /\ g.dirs = f.dirs /\ g.inode = f.inode
              /\ g.closing = f.closing /\ g.making = f.making
         /\ [f EXCEPT !.at = @ + ByteBits, !.loaded = Nil].pc = f.pc
<1>1. f.at + ByteBits \in Nat /\ f.pick \in FsSector /\ 0 \in Nat
  BY FileSystemAssumption DEF Frame
<1> DEFINE h == [f EXCEPT !.at = @ + ByteBits, !.loaded = Nil]
           g == [f EXCEPT !.at = 0, !.loaded = Nil, !.pick = 0]
<1>2. /\ h \in Frame /\ h.pc = f.pc /\ h.name = f.name /\ h.call = f.call /\ h.dirs = f.dirs
      /\ h.inode = f.inode /\ h.closing = f.closing /\ h.making = f.making
  BY <1>1 DEF Frame
<1>3. /\ g \in Frame /\ g.pc = f.pc /\ g.name = f.name /\ g.call = f.call /\ g.dirs = f.dirs
      /\ g.inode = f.inode /\ g.closing = f.closing /\ g.making = f.making
  BY <1>1, ZeroSector DEF Frame
<1>4. Saved(f) \in {[g EXCEPT !.pc = "closedir"], [g EXCEPT !.pc = "scan", !.sector = f.pick],
                    [g EXCEPT !.pc = "makeinode", !.block = f.pick]}
      /\ (f.pc = "saverelease" => Saved(f) = [g EXCEPT !.pc = "closedir"])
  BY DEF Saved
<1> HIDE DEF g, h
<1>5. ASSUME NEW k \in {[g EXCEPT !.pc = "closedir"], [g EXCEPT !.pc = "scan", !.sector = f.pick],
                        [g EXCEPT !.pc = "makeinode", !.block = f.pick]}
      PROVE  /\ k \in Frame /\ k.pc \in {"scan", "makeinode", "closedir"}
             /\ k.name = f.name /\ k.call = f.call /\ k.dirs = f.dirs /\ k.inode = f.inode
             /\ k.closing = f.closing /\ k.making = f.making
  <2>1. {"scan", "makeinode", "closedir"} \subseteq PC \cup {"unlist"}
    BY DEF PC
  <2>2. CASE k = [g EXCEPT !.pc = "closedir"]
    BY <1>3, <2>1, <2>2 DEF Frame
  <2>3. CASE k = [g EXCEPT !.pc = "scan", !.sector = f.pick]
    BY <1>1, <1>3, <2>1, <2>3 DEF Frame
  <2>4. CASE k = [g EXCEPT !.pc = "makeinode", !.block = f.pick]
    BY <1>1, <1>3, <2>1, <2>4 DEF Frame
  <2> QED
    BY <1>5, <2>2, <2>3, <2>4
<1>6. h = [f EXCEPT !.at = @ + ByteBits, !.loaded = Nil]
  BY DEF h
<1>7. [g EXCEPT !.pc = "closedir"].pc = "closedir"
  BY <1>3 DEF Frame
<1> QED
  BY <1>2, <1>4, <1>5, <1>6, <1>7

LEMMA StoreByteStep ==
  ASSUME FsTypeOK, RefInv, NEW p \in Process, StoreByte(p)
  PROVE  FsTypeOK' /\ RefInv'
<1>1. frame[p] \in Frame /\ frame[p].pc \in {"save", "saverelease"} /\ frame[p].loaded # Nil
  BY DEF StoreByte, Saving, FsTypeOK, MemoryTypes
<1> PICK f : f = frame[p]
  OBVIOUS
<1> DEFINE g == IF f.at + ByteBits < FsSectors
                THEN [f EXCEPT !.at = @ + ByteBits, !.loaded = Nil] ELSE Saved(f)
<1>2. g \in Frame /\ g.pc \in {"save", "saverelease", "scan", "makeinode", "closedir"}
      /\ (g.pc \in Naming => f.pc \in Naming)
      /\ g.name = f.name /\ g.call = f.call /\ g.dirs = f.dirs /\ g.inode = f.inode
      /\ g.closing = f.closing /\ g.making = f.making
  <2>1. f \in Frame /\ f.pc \in {"save", "saverelease"}
    BY <1>1
  <2> DEFINE h == [f EXCEPT !.at = @ + ByteBits, !.loaded = Nil]
  <2>2. g = h \/ g = Saved(f)
    OBVIOUS
  <2>3. /\ h \in Frame /\ Saved(f) \in Frame
        /\ Saved(f).pc \in {"scan", "makeinode", "closedir"} /\ h.pc = f.pc
        /\ f.pc = "saverelease" => Saved(f).pc = "closedir"
        /\ \A k \in {h, Saved(f)} :
             /\ k.name = f.name /\ k.call = f.call /\ k.dirs = f.dirs /\ k.inode = f.inode
             /\ k.closing = f.closing /\ k.making = f.making
    BY <2>1, StoredFrame
  <2> HIDE DEF g, h
  <2>4. CASE g = h
    BY <2>1, <2>3, <2>4 DEF Naming
  <2>5. CASE g = Saved(f)
    BY <2>1, <2>3, <2>5 DEF Naming
  <2> QED
    BY <2>2, <2>4, <2>5
<1>3. Resume(p, g)
  BY DEF StoreByte
<1>4. UNCHANGED <<memoryVars, holdVars, running>> /\ stopped' \in BOOLEAN
  BY DEF StoreByte, FsTypeOK, MemoryTypes
<1>5. DiskTypes'
  <2>1. /\ diskMap' = (diskMap \ Byte(f.at)) \cup f.loaded
        /\ stale' \subseteq Wrong(diskMap') /\ UNCHANGED <<free_map, node, entries, lost>>
    BY DEF StoreByte
  <2>2. f.loaded \subseteq FsSector
    BY <1>1 DEF Frame
  <2>3. diskMap' \subseteq FsSector
    BY <2>1, <2>2 DEF FsTypeOK, DiskTypes
  <2>4. stale' \subseteq FsSector
    BY <2>1, <2>3 DEF Wrong, FsTypeOK, DiskTypes
  <2> QED
    BY <2>1, <2>3, <2>4 DEF FsTypeOK, DiskTypes
<1> HIDE DEF g
<1> PICK h : h = g
  OBVIOUS
<1> QED
  BY <1>1, <1>2, <1>3, <1>4, <1>5, MakingStep DEF Making, WithInode

LEMMA ReleaseSectorStep ==
  ASSUME FsTypeOK, RefInv, NEW p \in Process, ReleaseSector(p)
  PROVE  FsTypeOK' /\ RefInv'
<1>1. frame[p] \in Frame /\ frame[p].pc = "release"
  BY DEF ReleaseSector, At, FsTypeOK, MemoryTypes
<1> DEFINE g == [frame[p] EXCEPT !.pc = "saverelease", !.sector = 0, !.block = 0]
<1>2. g \in Frame /\ g.pc \in {"saverelease"}
      /\ g.name = frame[p].name /\ g.call = frame[p].call /\ g.dirs = frame[p].dirs /\ g.inode = frame[p].inode
      /\ g.closing = frame[p].closing /\ g.making = frame[p].making
  BY <1>1, ZeroSector DEF Frame, PC
<1>3. Resume(p, g)
  BY DEF ReleaseSector, Goto, Resume, FsTypeOK, MemoryTypes
<1>4. UNCHANGED <<memoryVars, holdVars, running>> /\ stopped' \in BOOLEAN
  BY DEF ReleaseSector, FsTypeOK, MemoryTypes
<1>5. DiskTypes'
  <2>1. /\ free_map' = free_map \ {frame[p].sector}
        /\ node' = [node EXCEPT ![frame[p].sector] = NoNode]
        /\ lost' = lost \cup ({frame[p].block} \ {0})
        /\ UNCHANGED <<diskMap, entries, stale>>
    BY DEF ReleaseSector
  <2>2. NoNode \in [type : {"none", "file", "dir"}, block : FsSector]
    BY ZeroSector DEF NoNode
  <2>3. frame[p].block \in FsSector
    BY <1>1 DEF Frame
  <2> QED
    BY <2>1, <2>2, <2>3 DEF DiskTypes, FsTypeOK
<1> HIDE DEF g
<1> PICK h : h = g
  OBVIOUS
<1> QED
  BY <1>1, <1>2, <1>3, <1>4, <1>5, MakingStep DEF Making, WithInode, Naming

LEMMA MakeInodeStep ==
  ASSUME FsTypeOK, RefInv, NEW p \in Process, MakeInode(p)
  PROVE  FsTypeOK' /\ RefInv'
<1>1. frame[p] \in Frame /\ frame[p].pc = "makeinode"
  BY DEF MakeInode, At, FsTypeOK, MemoryTypes
<1> DEFINE g == [frame[p] EXCEPT !.pc = IF frame[p].block = 0 THEN "release" ELSE "add"]
<1>2. g \in Frame /\ g.pc \in {"release", "add"}
      /\ g.name = frame[p].name /\ g.call = frame[p].call /\ g.dirs = frame[p].dirs /\ g.inode = frame[p].inode
      /\ g.closing = frame[p].closing /\ g.making = frame[p].making
  BY <1>1 DEF Frame, PC
<1>3. Resume(p, g)
  BY DEF MakeInode, Goto, Resume, FsTypeOK, MemoryTypes
<1>4. UNCHANGED <<memoryVars, holdVars, running>> /\ stopped' \in BOOLEAN
  BY DEF MakeInode, FsTypeOK, MemoryTypes
<1>5. DiskTypes'
  <2>1. /\ node' = [node EXCEPT ![frame[p].sector] = [type |-> "dir", block |-> frame[p].block]]
        /\ entries' = [entries EXCEPT ![frame[p].block] = IF frame[p].block = 0 THEN @ ELSE NoEntries]
        /\ UNCHANGED <<free_map, diskMap, lost, stale>>
    BY DEF MakeInode, lostVars
  <2>2. [type |-> "dir", block |-> frame[p].block] \in [type : {"none", "file", "dir"}, block : FsSector]
    BY <1>1 DEF Frame
  <2>3. NoEntries \in [EntryName -> FsSector]
    BY ZeroSector DEF NoEntries
  <2> QED
    BY <2>1, <2>2, <2>3 DEF DiskTypes, FsTypeOK
<1> HIDE DEF g
<1> PICK h : h = g
  OBVIOUS
<1> QED
  BY <1>1, <1>2, <1>3, <1>4, <1>5, MakingStep DEF Making, WithInode, Naming

LEMMA AddDotStep ==
  ASSUME FsTypeOK, RefInv, NEW p \in Process, AddDot(p)
  PROVE  FsTypeOK' /\ RefInv'
<1>1. frame[p] \in Frame /\ frame[p].pc = "adddot"
  BY DEF AddDot, At, FsTypeOK, MemoryTypes
<1> DEFINE g == [frame[p] EXCEPT !.pc = "addparent"]
<1>2. g \in Frame /\ g.pc \in {"addparent"}
      /\ g.name = frame[p].name /\ g.call = frame[p].call /\ g.dirs = frame[p].dirs /\ g.inode = frame[p].inode
      /\ g.closing = frame[p].closing /\ g.making = frame[p].making
  BY <1>1 DEF Frame, PC
<1>3. Resume(p, g)
  BY DEF AddDot, Goto, Resume, FsTypeOK, MemoryTypes
<1>4. UNCHANGED <<memoryVars, holdVars, running>> /\ stopped' \in BOOLEAN
  BY DEF AddDot, FsTypeOK, MemoryTypes
<1>5. DiskTypes'
  <2>1. frame[p].sector \in FsSector
    BY <1>1 DEF Frame
  <2>2. PICK s, n, x : s = frame[p].inode /\ n = "." /\ x = frame[p].sector
    OBVIOUS
  <2> QED
    BY <2>1, <2>2, AddTypes DEF AddDot
<1> HIDE DEF g
<1> PICK h : h = g
  OBVIOUS
<1> QED
  BY <1>1, <1>2, <1>3, <1>4, <1>5, MakingStep DEF Making, WithInode, Naming

LEMMA AddParentStep ==
  ASSUME FsTypeOK, RefInv, NEW p \in Process, AddParent(p)
  PROVE  FsTypeOK' /\ RefInv'
<1>1. frame[p] \in Frame /\ frame[p].pc = "addparent"
  BY DEF AddParent, At, FsTypeOK, MemoryTypes
<1> DEFINE g == [frame[p] EXCEPT !.pc = "closemade"]
<1>2. g \in Frame /\ g.pc \in {"closemade"}
      /\ g.name = frame[p].name /\ g.call = frame[p].call /\ g.dirs = frame[p].dirs /\ g.inode = frame[p].inode
      /\ g.closing = frame[p].closing /\ g.making = frame[p].making
  BY <1>1 DEF Frame, PC
<1>3. Resume(p, g)
  BY DEF AddParent, Goto, Resume, FsTypeOK, MemoryTypes
<1>4. UNCHANGED <<memoryVars, holdVars, running>> /\ stopped' \in BOOLEAN
  BY DEF AddParent, FsTypeOK, MemoryTypes
<1>5. DiskTypes'
  <2>1. Shape(frame[p]) /\ Where(frame[p]) = "addparent"
    BY <1>1, InCall
  <2>2. frame[p].dirs[1] \in Slot
    BY <2>1 DEF Shape, Making, Naming
  <2>3. inode[frame[p].dirs[1]].sector \in FsSector
    BY <2>2 DEF FsTypeOK, MemoryTypes
  <2>4. PICK s, n, x : s = frame[p].inode /\ n = ".." /\ x = inode[frame[p].dirs[1]].sector
    OBVIOUS
  <2> QED
    BY <2>3, <2>4, AddTypes DEF AddParent
<1> HIDE DEF g
<1> PICK h : h = g
  OBVIOUS
<1> QED
  BY <1>1, <1>2, <1>3, <1>4, <1>5, MakingStep DEF Making, WithInode, Naming

-----------------------------------------------------------------------------
(* Closing.                                                                *)

(* An inode with a reference is open. *)
LEMMA KeptOpen ==
  ASSUME FsTypeOK, RefInv, NEW s \in Slot, Kept(leaked, s)
  PROVE  s \in open_inodes
  BY KeptIsReferred DEF RefInv, Counted

LEMMA InodeIsReferred ==
  ASSUME FsTypeOK, RefInv, NEW p \in Process, frame[p].inode \in Slot
  PROVE  References(frame[p].inode) > 0
<1>1. PICK s \in Slot : s = frame[p].inode
  OBVIOUS
<1> DEFINE I == [q \in Process |-> frame[q].inode]
<1>2. IsFiniteSet(Process)
  BY FileSystemAssumption
<1>3. /\ Cardinality(Members(pwd, s)) \in Nat /\ Cardinality(Members(fds, s)) \in Nat
      /\ Cardinality(Members(I, s)) \in Nat /\ IsFiniteSet(Members(I, s))
  BY <1>2, FS_Subset, FS_CardinalityType DEF Members
<1>4. Members(I, s) # {}
  BY <1>1 DEF Members
<1>5. Cardinality(Members(I, s)) # 0
  BY <1>3, <1>4, FS_EmptySet
<1>6. \A q \in Process : frame[q].dirs \in Seq(Slot)
  BY DEF FsTypeOK, MemoryTypes, Frame
<1>7. Cardinality(DirPairs(frame, Process, s)) \in Nat
  BY <1>6, PairsChange DEF OnlyAt
<1>8. leaked[s] \in Nat
  BY DEF FsTypeOK, MemoryTypes
<1>9. References(s) = Refs(pwd, fds, frame, leaked, s)
  BY RefsIs
<1>10. References(s) = Cardinality(Members(pwd, s)) + Cardinality(Members(fds, s))
         + Cardinality(Members(I, s)) + Cardinality(DirPairs(frame, Process, s))
         + leaked[s] + (IF s = 1 THEN 1 ELSE 0)
  BY <1>9 DEF Refs
<1> HIDE DEF I
<1>11. References(s) > 0
  <2>1. PICK a \in Nat, b \in Nat, c \in Nat, d \in Nat, e \in Nat :
          /\ a = Cardinality(Members(pwd, s)) /\ b = Cardinality(Members(fds, s))
          /\ c = Cardinality(Members(I, s)) /\ d = Cardinality(DirPairs(frame, Process, s))
          /\ e = leaked[s]
    BY <1>3, <1>7, <1>8
  <2>2. c > 0
    BY <1>5, <2>1
  <2>3. References(s) = a + b + c + d + e + (IF s = 1 THEN 1 ELSE 0)
    BY <1>10, <2>1
  <2> QED
    BY ONLY <2>2, <2>3, a \in Nat, b \in Nat, c \in Nat, d \in Nat, e \in Nat
<1> QED
  BY <1>1, <1>11

LEMMA InodeOpen ==
  ASSUME FsTypeOK, RefInv, NEW p \in Process, frame[p].inode \in Slot
  PROVE  frame[p].inode \in open_inodes
  BY InodeIsReferred DEF RefInv, Counted

(* p closes s and goes on as after, with working directory v. *)
Closing(p, s, after, v) ==
  /\ Close(p, s, after)
  /\ pwd' = [pwd EXCEPT ![p] = v]
  /\ UNCHANGED <<open_inodes, heap, fds, leaked, running>>
  /\ doubled' \in [Slot -> Nat]
  /\ \A t \in Slot \ open_inodes : doubled'[t] = doubled[t]
  /\ \A t \in Slot : doubled'[t] <= doubled[t] + Is(s, t)
  /\ \A t \in Slot : Uses(after, t) + Is(v, t) + Is(s, t) + doubled[t]
                      = Uses(frame[p], t) + Is(pwd[p], t) + doubled'[t]

LEMMA CloseCall ==
  ASSUME FsTypeOK, RefInv, NEW p \in Process, frame[p].pc \notin {"outside", "unlist"} \cup Inserting,
         NEW s \in open_inodes, NEW after \in Frame, Shape(after), after.pc \in PC,
         after.making = Nil,
         NEW v \in OptSlot, v \in Slot <=> after.pc # "setpwd",
         v \in Slot => Kept(leaked, v), AllKept(leaked, after.dirs),
         Closing(p, s, after, v), DiskTypes'
  PROVE  FsTypeOK' /\ RefInv'
<1>0. /\ Close(p, s, after)
      /\ pwd' = [pwd EXCEPT ![p] = v]
      /\ UNCHANGED <<open_inodes, heap, fds, leaked, running>>
      /\ doubled' \in [Slot -> Nat]
      /\ \A t \in Slot \ open_inodes : doubled'[t] = doubled[t]
      /\ \A t \in Slot : doubled'[t] <= doubled[t] + Is(s, t)
      /\ \A t \in Slot : Uses(after, t) + Is(v, t) + Is(s, t) + doubled[t]
                          = Uses(frame[p], t) + Is(pwd[p], t) + doubled'[t]
  BY DEF Closing
<1>1. s \in Slot
  BY DEF FsTypeOK, MemoryTypes
<1>2. inode' = [inode EXCEPT ![s].cnt = @ - 1] /\ stopped' \in BOOLEAN
  BY <1>0, <1>1, CloseFrame
<1>3. PICK g \in Frame :
        /\ frame' = [frame EXCEPT ![p] = g] /\ Shape(g) /\ Where(g) = after.pc
        /\ g.dirs = after.dirs /\ g.inode = after.inode /\ g.making = Nil
        /\ g.closing = IF inode[s].cnt = 1 THEN s ELSE Nil
  BY <1>0, <1>1, CloseFrame
<1>4. PICK w : w = fds[p]
  OBVIOUS
<1>5. Goes(p, g, v, w)
  BY <1>0, <1>3, <1>4, InCall DEF Goes, FsTypeOK, MemoryTypes
<1>6. ASSUME NEW t \in Slot
      PROVE  Change(p, g, v, w, t) - (doubled'[t] - doubled[t]) = 0 - Is(s, t)
  <2>1. Uses(g, t) = Uses(after, t)
    BY <1>3 DEF Uses, Dirs
  <2>2. frame[p] \in Frame /\ leaked[t] \in Nat /\ leaked' = leaked
        /\ doubled[t] \in Nat /\ doubled'[t] \in Nat
    BY <1>0 DEF FsTypeOK, MemoryTypes
  <2>3. Uses(frame[p], t) \in Nat /\ Uses(after, t) \in Nat /\ \A x : Is(x, t) \in Nat
    BY <2>2, UsesOf DEF Is
  <2>4. Uses(after, t) + Is(v, t) + Is(s, t) + doubled[t]
        = Uses(frame[p], t) + Is(pwd[p], t) + doubled'[t]
    BY <1>0
  <2> QED
    BY ONLY <1>4, <2>1, <2>2, <2>3, <2>4 DEF Change
<1>7. RefInv'
  <2>1. ClosedOnce(p, g, v, w, s)
    BY <1>0, <1>2, <1>3, <1>6 DEF ClosedOnce
  <2> QED
    BY <1>5, <2>1, CloseStep
<1>8. inode' \in [Slot -> [sector : FsSector, cnt : Int]]
  <2>1. inode \in [Slot -> [sector : FsSector, cnt : Int]]
    BY DEF FsTypeOK, MemoryTypes
  <2> QED
    BY ONLY <1>1, <1>2, <2>1
<1> QED
  BY <1>2, <1>5, <1>7, <1>8, GoesTypes

LEMMA NilIs == \A s \in Slot : Is(Nil, s) = 0
  BY FileSystemAssumption DEF Is

LEMMA OutsideShape ==
  /\ Outside \in Frame /\ Shape(Outside) /\ Outside.pc = "outside" /\ Outside.closing = Nil
  /\ Outside.making = Nil
  /\ \A lk : AllKept(lk, Outside.dirs)
  /\ \A s \in Slot : Uses(Outside, s) = 0
<1>1. Outside \in Frame /\ Outside.making = Nil
  BY ZeroSector DEF Outside, Frame, PC, OptSlot
<1>2. /\ Outside.pc = "outside" /\ Outside.dirs = << >> /\ Outside.inode = Nil
      /\ Outside.closing = Nil /\ Outside.call = "none"
  BY DEF Outside
<1>3. Where(Outside) = "outside"
  BY <1>2 DEF Where
<1>4. Shape(Outside)
  BY <1>1, <1>2, <1>3 DEF Shape, Making, Naming, Inserting
<1>5. \A lk : AllKept(lk, Outside.dirs)
  BY <1>2 DEF AllKept
<1>6. \A s \in Slot : Uses(Outside, s) = 0
  BY <1>1, <1>2, UsesOf, NilIs
<1> QED
  BY <1>1, <1>2, <1>4, <1>5, <1>6

(* A close that changes nothing else than the frame. *)
LEMMA CloseAndGo ==
  ASSUME FsTypeOK, RefInv, NEW p \in Process, frame[p].pc \notin {"outside", "unlist", "setpwd"} \cup Inserting,
         NEW s \in open_inodes, NEW after \in Frame, Shape(after), after.pc \in PC,
         after.pc # "setpwd", after.making = Nil, AllKept(leaked, after.dirs), Close(p, s, after),
         \A t \in Slot : Uses(frame[p], t) = Uses(after, t) + Is(s, t),
         UNCHANGED <<free_map, diskVars, open_inodes, heap, holdVars, running, lostVars>>
  PROVE  FsTypeOK' /\ RefInv'
<1>1. ASSUME NEW t \in Slot
      PROVE  Uses(after, t) + Is(pwd[p], t) + Is(s, t) + doubled[t]
             = Uses(frame[p], t) + Is(pwd[p], t) + doubled'[t]
  <2>1. doubled[t] \in Nat /\ doubled' = doubled /\ \A x : Is(x, t) \in Nat
    BY DEF FsTypeOK, MemoryTypes, holdVars, Is
  <2>2. Uses(frame[p], t) = Uses(after, t) + Is(s, t) /\ Uses(after, t) \in Nat
    BY UsesOf
  <2> QED
    BY ONLY <2>1, <2>2
<1>2. PICK v : v = pwd[p]
  OBVIOUS
<1>3. v \in Slot /\ Kept(leaked, v)
  BY <1>2, InCall
<1>4. /\ v \in OptSlot /\ pwd' = [pwd EXCEPT ![p] = v] /\ v \in Slot
      /\ doubled' \in [Slot -> Nat] /\ doubled' = doubled
      /\ UNCHANGED <<open_inodes, heap, fds, leaked, running>>
  BY <1>2, <1>3 DEF FsTypeOK, MemoryTypes, holdVars, OptSlot
<1>5. DiskTypes'
  BY DiskSame
<1>6. Closing(p, s, after, v)
  <2>1. \A t \in Slot : doubled'[t] <= doubled[t] + Is(s, t)
    BY <1>4 DEF FsTypeOK, MemoryTypes, Is
  <2> QED
    BY <1>1, <1>2, <1>4, <2>1 DEF Closing
<1> QED
  BY <1>3, <1>4, <1>5, <1>6, CloseCall

LEMMA CloseMadeStep ==
  ASSUME FsTypeOK, RefInv, NEW p \in Process, CloseMade(p)
  PROVE  FsTypeOK' /\ RefInv'
<1>1. frame[p] \in Frame /\ frame[p].pc = "closemade"
  BY DEF CloseMade, At, FsTypeOK, MemoryTypes
<1>2. Shape(frame[p]) /\ Where(frame[p]) = "closemade"
      /\ AllKept(leaked, frame[p].dirs) /\ frame[p].closing = Nil /\ frame[p].making = Nil
  BY <1>1, InCall DEF Inserting
<1>3. PICK s \in Slot : s = frame[p].inode
  BY <1>2 DEF Shape, Making, Naming
<1>4. s \in open_inodes
  BY <1>3, InodeOpen
<1> DEFINE g == [frame[p] EXCEPT !.pc = "closeagain", !.inode = Nil, !.again = s]
<1>5. Close(p, s, g)
      /\ UNCHANGED <<free_map, diskVars, open_inodes, heap, holdVars, running, lostVars>>
  BY <1>3 DEF CloseMade
<1>6. /\ g \in Frame /\ g.pc = "closeagain" /\ g.inode = Nil /\ g.again = s
      /\ g.call = frame[p].call /\ g.dirs = frame[p].dirs /\ g.closing = frame[p].closing
      /\ g.making = frame[p].making
  <2>1. s \in OptSlot /\ Nil \in OptSlot /\ "closeagain" \in PC \cup {"unlist"}
    BY DEF OptSlot, PC
  <2> QED
    BY <1>1, <2>1 DEF Frame
<1> HIDE DEF g
<1>7. Where(g) = "closeagain" /\ g.pc \in PC /\ g.pc # "setpwd" /\ g.pc \notin Inserting
  BY <1>6 DEF Where, PC, Inserting
<1>8. Shape(g)
  BY <1>2, <1>6, <1>7 DEF Shape, Making, Naming, Inserting
<1>9. ASSUME NEW t \in Slot
      PROVE  Uses(frame[p], t) = Uses(g, t) + Is(s, t)
  <2>1. Dirs(g, t) = Dirs(frame[p], t)
    BY <1>6 DEF Dirs
  <2>2. Cardinality(Dirs(g, t)) \in Nat /\ Is(s, t) \in Nat
    BY <1>6, DirsFinite DEF Frame, Is
  <2>3. Uses(g, t) = Cardinality(Dirs(g, t)) /\ Uses(frame[p], t) = Is(s, t) + Cardinality(Dirs(g, t))
    BY <1>3, <1>6, <2>1, <2>2, NilIs DEF Uses
  <2> QED
    BY ONLY <2>2, <2>3
<1> QED
  BY <1>1, <1>2, <1>4, <1>5, <1>6, <1>7, <1>8, <1>9, CloseAndGo DEF Inserting

LEMMA CloseDirStep ==
  ASSUME FsTypeOK, RefInv, NEW p \in Process, CloseDir(p)
  PROVE  FsTypeOK' /\ RefInv'
<1>1. frame[p] \in Frame /\ frame[p].pc = "closedir"
  BY DEF CloseDir, At, FsTypeOK, MemoryTypes
<1>2. Shape(frame[p]) /\ Where(frame[p]) = "closedir" /\ AllKept(leaked, frame[p].dirs)
  BY <1>1, InCall
<1>3. PICK d \in Slot : frame[p].dirs = <<d>> /\ frame[p].inode = Nil
  BY <1>2 DEF Shape, Making, Naming
<1>4. Kept(leaked, d)
  BY <1>2, <1>3 DEF AllKept
<1>5. Close(p, d, Outside)
      /\ UNCHANGED <<free_map, diskVars, open_inodes, heap, holdVars, running, lostVars>>
  BY <1>3 DEF CloseDir
<1>6. ASSUME NEW t \in Slot PROVE Uses(frame[p], t) = Uses(Outside, t) + Is(d, t)
  <2>1. Uses(frame[p], t) = Is(frame[p].inode, t) + Is(d, t)
    BY <1>1, <1>3, UsesOf
  <2>2. Is(frame[p].inode, t) = 0 /\ Uses(Outside, t) = 0
    BY <1>3, NilIs, OutsideShape
  <2> QED
    BY <2>1, <2>2
<1> PICK g : g = Outside
  OBVIOUS
<1> QED
  BY <1>1, <1>4, <1>5, <1>6, KeptOpen, OutsideShape, CloseAndGo DEF PC, Inserting

LEMMA CloseFileStep ==
  ASSUME FsTypeOK, RefInv, NEW p \in Process, CloseFile(p)
  PROVE  FsTypeOK' /\ RefInv'
<1>1. frame[p] \in Frame /\ frame[p].pc = "opened" /\ frame[p].call = "open"
  BY DEF CloseFile, Opened, At, FsTypeOK, MemoryTypes
<1>2. Shape(frame[p]) /\ Where(frame[p]) = "opened"
  BY <1>1, InCall
<1>3. PICK s \in Slot : s = frame[p].inode /\ frame[p].dirs = << >>
  BY <1>1, <1>2 DEF Shape
<1>4. s \in open_inodes
  BY <1>3, InodeOpen
<1>5. Close(p, s, Outside)
      /\ UNCHANGED <<free_map, diskVars, open_inodes, heap, holdVars, running, lostVars>>
  BY <1>3 DEF CloseFile
<1>6. ASSUME NEW t \in Slot PROVE Uses(frame[p], t) = Uses(Outside, t) + Is(s, t)
  <2>1. Uses(frame[p], t) = Is(s, t) /\ Uses(Outside, t) = 0
    BY <1>1, <1>3, UsesOf, OutsideShape
  <2> QED
    BY <2>1 DEF Is
<1> QED
  BY <1>1, <1>4, <1>5, <1>6, OutsideShape, CloseAndGo DEF PC, Inserting

LEMMA DropLast ==
  ASSUME NEW d \in Slot
  PROVE  SubSeq(<<d, d>>, 1, 1) = <<d>> /\ SubSeq(<<d>>, 1, 0) = << >>
<1>1. <<d, d>> \in Seq(Slot) /\ <<d>> \in Seq(Slot) /\ Len(<<d, d>>) = 2 /\ Len(<<d>>) = 1
  OBVIOUS
<1>2. SubSeq(<<d>>, 1, 0) = << >>
  BY <1>1, SubSeqEmpty
<1>3. SubSeq(<<d, d>>, 1, 1) = <<d>>
  <2> DEFINE x == SubSeq(<<d, d>>, 1, 1)
  <2>1. x \in Seq(Slot) /\ Len(x) = 1 /\ x[1] = d
    BY <1>1, SubSeqProperties
  <2> HIDE DEF x
  <2>2. x = <<d>>
    BY <1>1, <2>1, SeqEqual
  <2> QED
    BY <2>2 DEF x
<1> QED
  BY <1>2, <1>3

LEMMA CloseLookupStep ==
  ASSUME FsTypeOK, RefInv, NEW p \in Process, CloseLookup(p)
  PROVE  FsTypeOK' /\ RefInv'
<1>1. frame[p] \in Frame /\ frame[p].pc = "closelookup"
  BY DEF CloseLookup, At, FsTypeOK, MemoryTypes
<1>2. Shape(frame[p]) /\ Where(frame[p]) = "closelookup" /\ AllKept(leaked, frame[p].dirs)
      /\ frame[p].closing = Nil /\ frame[p].making = Nil
  BY <1>1, InCall DEF Inserting
<1>3. PICK d \in Slot : frame[p].dirs = IF frame[p].call = "mkdir" THEN <<d, d>> ELSE <<d>>
  BY <1>2 DEF Shape
<1>4. DirOf(p) = d /\ Kept(leaked, d) /\ d \in open_inodes
  <2>1. DirOf(p) = d /\ Kept(leaked, d)
    BY <1>2, <1>3 DEF DirOf, AllKept
  <2> QED
    BY <2>1, KeptOpen
<1> DEFINE f == [frame[p] EXCEPT !.dirs = SubSeq(@, 1, Len(@) - 1),
              !.pc = IF frame[p].call = "mkdir" /\ frame[p].inode # Nil THEN "adddot"
                                                                       ELSE "opened"]
           g == IF f.inode = Nil /\ f.call # "mkdir" THEN Outside ELSE f
<1>5. Close(p, d, g)
      /\ UNCHANGED <<free_map, diskVars, open_inodes, heap, holdVars, running, lostVars>>
  BY <1>4 DEF CloseLookup
<1>6. /\ f.pc = (IF frame[p].call = "mkdir" /\ frame[p].inode # Nil THEN "adddot" ELSE "opened")
      /\ f.dirs = SubSeq(frame[p].dirs, 1, Len(frame[p].dirs) - 1)
      /\ f.call = frame[p].call /\ f.inode = frame[p].inode /\ f.closing = frame[p].closing
      /\ f.making = frame[p].making
  BY <1>1 DEF Frame
<1>7. f.dirs = IF frame[p].call = "mkdir" THEN <<d>> ELSE << >>
  <2>1. SubSeq(<<d, d>>, 1, 1) = <<d>> /\ SubSeq(<<d>>, 1, 0) = << >>
    BY DropLast
  <2>2. Len(<<d, d>>) - 1 = 1 /\ Len(<<d>>) - 1 = 0
    OBVIOUS
  <2> QED
    BY <1>3, <1>6, <2>1, <2>2
<1>8. f \in Frame
  <2>1. f.dirs \in Seq(Slot)
    <3>1. <<d>> \in Seq(Slot) /\ << >> \in Seq(Slot)
      OBVIOUS
    <3>2. f.dirs = <<d>> \/ f.dirs = << >>
      BY <1>7
    <3> HIDE DEF f
    <3> QED
      BY <3>1, <3>2
  <2>2. f = [frame[p] EXCEPT !.dirs = f.dirs, !.pc = f.pc]
    BY <1>6
  <2> HIDE DEF f
  <2>3. f.pc \in PC \cup {"unlist"}
    BY <1>6 DEF PC
  <2> QED
    BY <1>1, <2>1, <2>2, <2>3 DEF Frame
<1> HIDE DEF f
<1>9. frame[p].inode \in OptSlot
  BY <1>1 DEF Frame
<1>10. Where(f) = f.pc /\ f.pc \in {"adddot", "opened"}
  BY <1>6 DEF Where
<1>11. CASE f.inode = Nil /\ f.call # "mkdir"
  <2>1. g = Outside
    BY <1>11
  <2>2. ASSUME NEW t \in Slot PROVE Uses(frame[p], t) = Uses(Outside, t) + Is(d, t)
    <3>1. Uses(frame[p], t) = Is(frame[p].inode, t) + Is(d, t)
      BY <1>1, <1>3, <1>6, <1>11, UsesOf
    <3>2. Is(frame[p].inode, t) = 0 /\ Uses(Outside, t) = 0
      BY <1>6, <1>11, NilIs, OutsideShape
    <3> QED
      BY <3>1, <3>2
  <2>3. Close(p, d, Outside)
    BY <1>5, <2>1
  <2> QED
    BY <1>1, <1>4, <1>5, <2>2, <2>3, OutsideShape, CloseAndGo DEF PC, Inserting
<1>12. CASE ~(f.inode = Nil /\ f.call # "mkdir")
  <2>1. Close(p, d, f)
    BY <1>5, <1>12
  <2>2. Shape(f)
    BY <1>2, <1>6, <1>7, <1>9, <1>10, <1>12 DEF Shape, Making, Naming, OptSlot, Inserting
  <2>3. AllKept(leaked, f.dirs)
    BY <1>4, <1>7 DEF AllKept
  <2>4. ASSUME NEW t \in Slot PROVE Uses(frame[p], t) = Uses(f, t) + Is(d, t)
    <3>1. /\ frame[p].call = "mkdir" => /\ Uses(frame[p], t) = Is(f.inode, t) + Is(d, t) + Is(d, t)
                                        /\ Uses(f, t) = Is(f.inode, t) + Is(d, t)
          /\ frame[p].call # "mkdir" => /\ Uses(frame[p], t) = Is(f.inode, t) + Is(d, t)
                                        /\ Uses(f, t) = Is(f.inode, t)
      BY <1>1, <1>3, <1>6, <1>7, <1>8, UsesOf
    <3>2. Is(f.inode, t) \in Nat /\ Is(d, t) \in Nat
      BY DEF Is
    <3> QED
      BY ONLY <3>1, <3>2
  <2> QED
    BY <1>1, <1>2, <1>4, <1>5, <1>6, <1>8, <1>10, <2>1, <2>2, <2>3, <2>4, CloseAndGo DEF PC, Inserting
<1> QED
  BY <1>11, <1>12

LEMMA CloseAgainStep ==
  ASSUME FsTypeOK, RefInv, NEW p \in Process, CloseAgain(p)
  PROVE  FsTypeOK' /\ RefInv'
<1>1. frame[p] \in Frame /\ frame[p].pc = "closeagain"
  BY DEF CloseAgain, At, FsTypeOK, MemoryTypes
<1>2. Shape(frame[p]) /\ Where(frame[p]) = "closeagain"
      /\ AllKept(leaked, frame[p].dirs) /\ frame[p].closing = Nil /\ frame[p].making = Nil
      /\ pwd[p] \in Slot /\ Kept(leaked, pwd[p])
  BY <1>1, InCall DEF Inserting
<1>3. PICK s \in Slot : s = frame[p].again
  BY <1>2 DEF Shape
<1> DEFINE g == [frame[p] EXCEPT !.pc = "closedir", !.again = Nil, !.sector = 0, !.block = 0]
<1>4. /\ Close(p, s, g)
      /\ doubled' = (IF s \in open_inodes THEN [doubled EXCEPT ![s] = @ + 1] ELSE doubled)
      /\ UNCHANGED <<free_map, diskVars, open_inodes, heap, pwd, fds, leaked, running, lostVars>>
  BY <1>3 DEF CloseAgain
<1>5. /\ g \in Frame /\ g.pc = "closedir" /\ g.inode = frame[p].inode
      /\ g.call = frame[p].call /\ g.dirs = frame[p].dirs /\ g.closing = frame[p].closing
      /\ g.making = frame[p].making
  <2>1. Nil \in OptSlot /\ "closedir" \in PC \cup {"unlist"}
    BY DEF OptSlot, PC
  <2> QED
    BY <1>1, <2>1, ZeroSector DEF Frame
<1> HIDE DEF g
<1>6. Where(g) = "closedir" /\ g.pc \in PC /\ g.pc # "setpwd" /\ g.pc \notin Inserting
  BY <1>5 DEF Where, PC, Inserting
<1>7. Shape(g)
  BY <1>2, <1>5, <1>6 DEF Shape, Making, Naming, Inserting
<1>8. DiskTypes'
  BY <1>4, DiskSame
<1>9. CASE s \notin open_inodes
  <2>1. Resume(p, g) /\ UNCHANGED <<memoryVars, holdVars, running>> /\ stopped' \in BOOLEAN
    BY <1>4, <1>9 DEF Close, memoryVars, holdVars, FsTypeOK, MemoryTypes
  <2> QED
    BY <1>1, <1>2, <1>5, <1>6, <1>7, <1>8, <2>1, QuietStep DEF Inserting
<1>10. CASE s \in open_inodes
  <2>1. doubled' \in [Slot -> Nat] /\ \A t \in Slot : doubled'[t] = doubled[t] + Is(s, t)
    BY <1>4, <1>10 DEF FsTypeOK, MemoryTypes, Is
  <2>2. ASSUME NEW t \in Slot
        PROVE  Uses(g, t) + Is(pwd[p], t) + Is(s, t) + doubled[t]
               = Uses(frame[p], t) + Is(pwd[p], t) + doubled'[t]
    <3>1. Uses(g, t) = Uses(frame[p], t) /\ Uses(g, t) \in Nat
      BY <1>5, UsesOf DEF Uses, Dirs
    <3>2. doubled[t] \in Nat /\ \A x : Is(x, t) \in Nat
      BY DEF FsTypeOK, MemoryTypes, Is
    <3>3. doubled'[t] = doubled[t] + Is(s, t)
      BY <2>1
    <3> QED
      BY ONLY <3>1, <3>2, <3>3
  <2>3. \A t \in Slot \ open_inodes : doubled'[t] = doubled[t]
    <3> SUFFICES ASSUME NEW t \in Slot \ open_inodes PROVE doubled'[t] = doubled[t]
      OBVIOUS
    <3> QED
      BY <1>4, <1>10 DEF FsTypeOK, MemoryTypes
  <2>4. PICK v : v = pwd[p]
    OBVIOUS
  <2>5. /\ v \in OptSlot /\ v \in Slot /\ Kept(leaked, v) /\ pwd' = [pwd EXCEPT ![p] = v]
        /\ AllKept(leaked, g.dirs) /\ UNCHANGED <<open_inodes, heap, fds, leaked, running>>
    BY <1>2, <1>4, <1>5, <2>4 DEF FsTypeOK, MemoryTypes, OptSlot
  <2>7. \A t \in Slot : doubled'[t] <= doubled[t] + Is(s, t)
    BY <2>1 DEF FsTypeOK, MemoryTypes, Is
  <2>6. Closing(p, s, g, v)
    BY <1>4, <2>1, <2>2, <2>3, <2>4, <2>5, <2>7 DEF Closing
  <2> QED
    BY <1>1, <1>2, <1>5, <1>6, <1>7, <1>8, <1>10, <2>5, <2>6, CloseCall DEF Inserting
<1> QED
  BY <1>9, <1>10

(* sys_chdir() and sys_open() end with a reference nobody gives up.        *)
LEMMA LeavePwdStep ==
  ASSUME FsTypeOK, RefInv, NEW p \in Process, LeavePwd(p)
  PROVE  FsTypeOK' /\ RefInv'
<1>1. frame[p] \in Frame /\ frame[p].pc = "opened" /\ frame[p].call = "chdir"
  BY DEF LeavePwd, Opened, At, FsTypeOK, MemoryTypes
<1>2. Shape(frame[p]) /\ Where(frame[p]) = "opened" /\ frame[p].closing = Nil /\ frame[p].making = Nil
      /\ pwd[p] \in Slot /\ Kept(leaked, pwd[p]) /\ running /\ fds[p] \in OptSlot
  BY <1>1, InCall DEF Inserting
<1>3. PICK s \in Slot : s = frame[p].inode /\ frame[p].dirs = << >>
  BY <1>1, <1>2 DEF Shape
<1>4. UNCHANGED <<free_map, diskVars, open_inodes, heap, fds, doubled, running, lostVars>>
  BY DEF LeavePwd
<1>5. DiskTypes' /\ doubled' \in [Slot -> Nat]
  BY <1>4, DiskSame DEF FsTypeOK, MemoryTypes
<1>6. CASE node[inode[s].sector].type = "dir"
  <2> DEFINE g == [frame[p] EXCEPT !.pc = "setpwd"]
  <2>1. PICK o \in Slot : o = pwd[p]
    BY <1>2
  <2>2. pwd' = [pwd EXCEPT ![p] = Nil] /\ Close(p, o, g) /\ UNCHANGED leaked
    BY <1>3, <1>6, <2>1 DEF LeavePwd
  <2>3. /\ g \in Frame /\ g.pc = "setpwd" /\ g.inode = frame[p].inode
        /\ g.dirs = frame[p].dirs /\ g.closing = frame[p].closing /\ g.making = frame[p].making
    BY <1>1 DEF Frame, PC
  <2> HIDE DEF g
  <2>4. Where(g) = "setpwd" /\ g.pc \in PC /\ g.pc \notin Inserting
    BY <2>3 DEF Where, PC, Inserting
  <2>5. Shape(g)
    BY <1>2, <1>3, <2>3, <2>4 DEF Shape, Making, Naming, Inserting
  <2>6. o \in open_inodes
    BY <1>2, <2>1, KeptOpen
  <2>7. AllKept(leaked, g.dirs)
    BY <1>3, <2>3 DEF AllKept
  <2>8. ASSUME NEW t \in Slot
        PROVE  Uses(g, t) + Is(Nil, t) + Is(o, t) + doubled[t]
               = Uses(frame[p], t) + Is(pwd[p], t) + doubled'[t]
    <3>1. Uses(g, t) = Uses(frame[p], t) /\ Uses(g, t) \in Nat
      BY <2>3, UsesOf DEF Uses, Dirs
    <3>2. doubled[t] \in Nat /\ doubled'[t] = doubled[t] /\ Is(o, t) \in Nat /\ Is(pwd[p], t) = Is(o, t)
          /\ Is(Nil, t) = 0
      BY <1>4, <2>1, NilIs DEF FsTypeOK, MemoryTypes, Is
    <3> QED
      BY ONLY <3>1, <3>2
  <2>9. Nil \in OptSlot /\ Nil \notin Slot
    BY FileSystemAssumption DEF OptSlot
  <2>10. PICK v : v = Nil
    OBVIOUS
  <2>12. \A t \in Slot : doubled'[t] <= doubled[t] + Is(o, t)
    BY <1>4 DEF FsTypeOK, MemoryTypes, Is
  <2>11. Closing(p, o, g, v)
    BY <1>4, <1>5, <2>2, <2>8, <2>10, <2>12 DEF Closing
  <2> QED
    BY <1>1, <1>2, <1>5, <2>3, <2>4, <2>5, <2>6, <2>7, <2>9, <2>10, <2>11, CloseCall DEF Inserting
<1>7. CASE node[inode[s].sector].type # "dir"
  <2>1. /\ leaked' = [leaked EXCEPT ![s] = @ + 1] /\ frame' = [frame EXCEPT ![p] = Outside]
        /\ UNCHANGED <<pwd, inode>> /\ stopped' \in BOOLEAN
    BY <1>3, <1>7 DEF LeavePwd, Return, Resume, FsTypeOK, MemoryTypes
  <2>2. PICK v, w, g : v = pwd[p] /\ w = fds[p] /\ g = Outside
    OBVIOUS
  <2>3. leaked' \in [Slot -> Nat] /\ \A t \in Slot : leaked'[t] = leaked[t] + Is(s, t)
    BY <2>1 DEF FsTypeOK, MemoryTypes, Is
  <2>4. \A t \in Slot : leaked[t] \in Nat /\ Is(s, t) \in Nat
    BY DEF FsTypeOK, MemoryTypes, Is
  <2>5. \A t \in Slot : leaked[t] <= leaked'[t]
    BY <2>3, <2>4
  <2>6. v \in Slot /\ Kept(leaked', v) /\ v \in OptSlot
    BY <1>2, <2>2, <2>3, <2>5, KeptStays DEF FsTypeOK, MemoryTypes, OptSlot
  <2>7. Where(g) # "setpwd" /\ g \in Frame /\ Shape(g) /\ g.closing = Nil /\ g.making = Nil /\ AllKept(leaked', g.dirs)
    BY <2>2, OutsideShape DEF Where
  <2>8. Goes(p, g, v, w)
    BY <1>2, <1>4, <1>5, <2>1, <2>2, <2>3, <2>5, <2>6, <2>7 DEF Goes, FsTypeOK, MemoryTypes
  <2>9. ASSUME NEW t \in Slot PROVE Change(p, g, v, w, t) = 0
    <3>1. Uses(frame[p], t) = Is(s, t) /\ Uses(g, t) = 0
      BY <1>1, <1>3, <2>2, UsesOf, OutsideShape
    <3>2. leaked'[t] = leaked[t] + Is(s, t) /\ leaked[t] \in Nat /\ \A x : Is(x, t) \in Nat
      BY <2>3, <2>4 DEF Is
    <3> QED
      BY ONLY <2>2, <3>1, <3>2 DEF Change
  <2>10. RefInv'
    BY <1>4, <2>1, <2>7, <2>8, <2>9, MoveStep
  <2>11. inode' \in [Slot -> [sector : FsSector, cnt : Int]]
    BY <2>1 DEF FsTypeOK, MemoryTypes
  <2> QED
    BY <1>5, <2>1, <2>8, <2>10, <2>11, GoesTypes
<1> QED
  BY <1>6, <1>7

LEMMA KeepFileStep ==
  ASSUME FsTypeOK, RefInv, NEW p \in Process, KeepFile(p)
  PROVE  FsTypeOK' /\ RefInv'
<1>1. frame[p] \in Frame /\ frame[p].pc = "opened" /\ frame[p].call = "open"
  BY DEF KeepFile, Opened, At, FsTypeOK, MemoryTypes
<1>2. Shape(frame[p]) /\ Where(frame[p]) = "opened" /\ frame[p].closing = Nil /\ frame[p].making = Nil
      /\ pwd[p] \in Slot /\ Kept(leaked, pwd[p]) /\ running
  BY <1>1, InCall DEF Inserting
<1>3. PICK s \in Slot : s = frame[p].inode /\ frame[p].dirs = << >>
  BY <1>1, <1>2 DEF Shape
<1>4. /\ UNCHANGED <<free_map, diskVars, inode, open_inodes, heap, pwd, leaked, doubled, running,
                     lostVars, stopped>>
      /\ fds[p] = Nil /\ fds' = [fds EXCEPT ![p] = s]
      /\ frame' = [frame EXCEPT ![p] = Outside]
  BY <1>3 DEF KeepFile, memoryVars, Return, Resume
<1>5. DiskTypes' /\ stopped' \in BOOLEAN /\ inode' \in [Slot -> [sector : FsSector, cnt : Int]]
  BY <1>4, DiskSame DEF FsTypeOK, MemoryTypes
<1>6. PICK v, g : v = pwd[p] /\ g = Outside
  OBVIOUS
<1>7. Where(g) # "setpwd" /\ g \in Frame /\ Shape(g) /\ g.closing = Nil /\ g.making = Nil /\ AllKept(leaked, g.dirs)
  BY <1>6, OutsideShape DEF Where
<1>8. Goes(p, g, v, s)
  BY <1>2, <1>4, <1>6, <1>7 DEF Goes, FsTypeOK, MemoryTypes, OptSlot
<1>9. ASSUME NEW t \in Slot PROVE Change(p, g, v, s, t) = 0
  <2>1. Uses(frame[p], t) = Is(s, t) /\ Uses(g, t) = 0
    BY <1>1, <1>3, <1>6, UsesOf, OutsideShape
  <2>2. leaked'[t] = leaked[t] /\ leaked[t] \in Nat /\ Is(fds[p], t) = 0 /\ \A x : Is(x, t) \in Nat
    BY <1>4, NilIs DEF Is, FsTypeOK, MemoryTypes
  <2> QED
    BY ONLY <1>6, <2>1, <2>2 DEF Change
<1>10. RefInv'
  BY <1>4, <1>7, <1>8, <1>9, MoveStep
<1> QED
  BY <1>5, <1>8, <1>10, GoesTypes

-----------------------------------------------------------------------------
(* Opening.                                                                *)

(* s is referred to once more, by p or for good. *)
Reopening(p, s, g, v, w) ==
  /\ Goes(p, g, v, w) /\ g.closing = Nil /\ Reopen(p, s) /\ UNCHANGED doubled
  /\ \A t \in Slot : Change(p, g, v, w, t) = Is(s, t)

LEMMA ReopenCall ==
  ASSUME FsTypeOK, RefInv, NEW p \in Process, NEW s \in open_inodes,
         NEW g, NEW v, NEW w, Reopening(p, s, g, v, w), DiskTypes'
  PROVE  FsTypeOK' /\ (~stopped' => RefInv')
<1>1. /\ Goes(p, g, v, w) /\ g.closing = Nil /\ Reopen(p, s) /\ UNCHANGED doubled
      /\ \A t \in Slot : Change(p, g, v, w, t) = Is(s, t)
  BY DEF Reopening
<1>2. /\ Raised(s) /\ stopped' \in BOOLEAN /\ (~stopped' => inode[s].cnt > 0)
      /\ inode' \in [Slot -> [sector : FsSector, cnt : Int]]
  BY <1>1, ReopenRaises DEF FsTypeOK, MemoryTypes
<1>3. ASSUME ~stopped' PROVE RefInv'
  BY <1>1, <1>2, <1>3, ReopenStep
<1>4. FsTypeOK'
  BY <1>1, <1>2, GoesTypes
<1> QED
  BY <1>3, <1>4

LEMMA SetPwdStep ==
  ASSUME FsTypeOK, RefInv, NEW p \in Process, SetPwd(p)
  PROVE  FsTypeOK' /\ (~stopped' => RefInv')
<1>1. frame[p] \in Frame /\ frame[p].pc = "setpwd"
  BY DEF SetPwd, At, FsTypeOK, MemoryTypes
<1>2. Shape(frame[p]) /\ Where(frame[p]) = "setpwd" /\ frame[p].closing = Nil /\ frame[p].making = Nil
      /\ pwd[p] \notin Slot /\ pwd[p] \in OptSlot /\ running /\ fds[p] \in OptSlot
  BY <1>1, InCall DEF Inserting
<1>3. PICK s \in Slot : s = frame[p].inode /\ frame[p].dirs = << >>
  BY <1>2 DEF Shape
<1>4. s \in open_inodes
  BY <1>3, InodeOpen
<1>5. /\ Reopen(p, s) /\ pwd' = [pwd EXCEPT ![p] = s] /\ leaked' = [leaked EXCEPT ![s] = @ + 1]
      /\ frame' = [frame EXCEPT ![p] = Outside]
      /\ UNCHANGED <<free_map, diskVars, open_inodes, heap, fds, doubled, running, lostVars>>
  BY <1>3 DEF SetPwd, Return, Resume
<1>6. DiskTypes' /\ doubled' \in [Slot -> Nat]
  BY <1>5, DiskSame DEF FsTypeOK, MemoryTypes
<1>7. leaked' \in [Slot -> Nat] /\ \A t \in Slot : leaked'[t] = leaked[t] + Is(s, t)
  BY <1>5 DEF FsTypeOK, MemoryTypes, Is
<1>8. \A t \in Slot : leaked[t] \in Nat /\ Is(s, t) \in Nat
  BY DEF FsTypeOK, MemoryTypes, Is
<1>9. Kept(leaked', s) /\ \A t \in Slot : leaked[t] <= leaked'[t]
  BY <1>7, <1>8 DEF Kept, Is
<1>10. PICK w, g : w = fds[p] /\ g = Outside
  OBVIOUS
<1>11. Where(g) # "setpwd" /\ g \in Frame /\ Shape(g) /\ g.closing = Nil /\ g.making = Nil /\ AllKept(leaked', g.dirs)
  BY <1>10, OutsideShape DEF Where
<1>12. Goes(p, g, s, w)
  BY <1>2, <1>5, <1>6, <1>7, <1>9, <1>10, <1>11 DEF Goes, FsTypeOK, MemoryTypes, OptSlot
<1>13. ASSUME NEW t \in Slot PROVE Change(p, g, s, w, t) = Is(s, t)
  <2>1. Uses(frame[p], t) = Is(s, t) /\ Uses(g, t) = 0
    BY <1>1, <1>3, <1>10, UsesOf, OutsideShape
  <2>2. Is(pwd[p], t) = 0
    BY <1>2 DEF Is
  <2>3. leaked'[t] = leaked[t] + Is(s, t) /\ leaked[t] \in Nat /\ \A x : Is(x, t) \in Nat
    BY <1>7, <1>8 DEF Is
  <2> QED
    BY ONLY <1>10, <2>1, <2>2, <2>3 DEF Change
<1>14. Reopening(p, s, g, s, w)
  BY <1>5, <1>11, <1>12, <1>13 DEF Reopening
<1> QED
  BY <1>4, <1>6, <1>14, ReopenCall

(* A directory that is kept is opened, once or once more.                  *)
LEMMA OpenDirectory ==
  ASSUME FsTypeOK, RefInv, NEW p \in Process, running, frame[p].pc \notin {"unlist"} \cup Inserting,
         pwd[p] \in Slot, NEW s \in Slot, Kept(leaked, s), NEW g \in Frame, Shape(g),
         g.closing = Nil, g.making = Nil, Where(g) # "setpwd", AllKept(leaked, g.dirs),
         \A t \in Slot : Uses(g, t) = Uses(frame[p], t) + Is(s, t),
         Resume(p, g), Reopen(p, s),
         UNCHANGED <<open_inodes, heap, holdVars, running>>, DiskTypes'
  PROVE  FsTypeOK' /\ (~stopped' => RefInv')
<1>1. frame[p] \in Frame /\ frame[p].closing = Nil /\ frame[p].making = Nil /\ Kept(leaked, pwd[p]) /\ fds[p] \in OptSlot
  BY DEF FsTypeOK, MemoryTypes, RefInv, Shape, PathsKept
<1>2. PICK v, w : v = pwd[p] /\ w = fds[p]
  OBVIOUS
<1>3. Goes(p, g, v, w)
  BY <1>1, <1>2 DEF Goes, Resume, holdVars, FsTypeOK, MemoryTypes, OptSlot
<1>4. ASSUME NEW t \in Slot PROVE Change(p, g, v, w, t) = Is(s, t)
  <2>1. Uses(g, t) = Uses(frame[p], t) + Is(s, t) /\ Uses(frame[p], t) \in Nat
    BY <1>1, UsesOf
  <2>2. leaked'[t] = leaked[t] /\ leaked[t] \in Nat /\ \A x : Is(x, t) \in Nat
    BY DEF Is, holdVars, FsTypeOK, MemoryTypes
  <2> QED
    BY ONLY <1>2, <2>1, <2>2 DEF Change
<1>5. Reopening(p, s, g, v, w)
  BY <1>3, <1>4 DEF Reopening, holdVars
<1>6. s \in open_inodes
  BY KeptOpen
<1> QED
  BY <1>5, <1>6, ReopenCall

LEMMA AddNameStep ==
  ASSUME FsTypeOK, RefInv, NEW p \in Process, AddName(p)
  PROVE  FsTypeOK' /\ (~stopped' => RefInv')
<1>1. frame[p] \in Frame /\ frame[p].pc = "add"
  BY DEF AddName, At, FsTypeOK, MemoryTypes
<1>2. Shape(frame[p]) /\ Where(frame[p]) = "add" /\ frame[p].closing = Nil /\ frame[p].making = Nil
      /\ AllKept(leaked, frame[p].dirs) /\ running /\ pwd[p] \in Slot
  BY <1>1, InCall DEF Inserting
<1>3. PICK d \in Slot : frame[p].dirs = <<d>>
  BY <1>2 DEF Shape, Making
<1>4. frame[p].inode = Nil /\ frame[p].call = "mkdir" /\ frame[p].name \in EntryName
      /\ frame[p].sector \in FsSector
  BY <1>1, <1>2 DEF Shape, Making, Naming, Frame
<1>5. Add(d, frame[p].name, frame[p].sector)
      /\ UNCHANGED <<free_map, node, diskMap, open_inodes, heap, holdVars, running, lostVars>>
  BY <1>3 DEF AddName
<1>6. DiskTypes'
  <2> PICK n, x : n = frame[p].name /\ x = frame[p].sector
    OBVIOUS
  <2> QED
    BY <1>4, <1>5, AddTypes
<1>7. CASE Entry(inode[d].sector, frame[p].name) # 0
  <2> DEFINE g == [frame[p] EXCEPT !.pc = "release"]
  <2>1. g \in Frame /\ g.pc = "release" /\ g.name = frame[p].name
        /\ g.call = frame[p].call /\ g.dirs = frame[p].dirs /\ g.inode = frame[p].inode
        /\ g.closing = frame[p].closing /\ g.making = frame[p].making
    BY <1>1 DEF Frame, PC
  <2>2. Resume(p, g) /\ UNCHANGED <<inode, stopped>>
    BY <1>3, <1>7 DEF AddName, Goto, Resume, FsTypeOK, MemoryTypes
  <2>3. UNCHANGED <<memoryVars, holdVars, running>> /\ stopped' \in BOOLEAN
    BY <1>5, <2>2 DEF memoryVars, FsTypeOK, MemoryTypes
  <2> HIDE DEF g
  <2> QED
    BY <1>1, <1>6, <2>1, <2>2, <2>3, MakingStep DEF Making, WithInode, Naming
<1>8. CASE ~(Entry(inode[d].sector, frame[p].name) # 0)
  <2> DEFINE g == [frame[p] EXCEPT !.pc = "lookup", !.dirs = <<d, d>>]
  <2>1. Reopen(p, d) /\ Resume(p, g)
    BY <1>3, <1>8 DEF AddName
  <2>2. /\ g \in Frame /\ g.pc = "lookup" /\ g.dirs = <<d, d>> /\ g.name = frame[p].name
        /\ g.call = frame[p].call /\ g.inode = frame[p].inode /\ g.closing = frame[p].closing
        /\ g.making = frame[p].making
    <3>1. <<d, d>> \in Seq(Slot)
      OBVIOUS
    <3> QED
      BY <1>1, <3>1 DEF Frame, PC
  <2> HIDE DEF g
  <2>3. Where(g) = "lookup"
    BY <2>2 DEF Where
  <2>4. Shape(g)
    BY <1>2, <1>4, <2>2, <2>3 DEF Shape, Making, Naming, Inserting
  <2>5. Kept(leaked, d) /\ AllKept(leaked, g.dirs)
    BY <1>2, <1>3, <2>2 DEF AllKept
  <2>6. ASSUME NEW t \in Slot PROVE Uses(g, t) = Uses(frame[p], t) + Is(d, t)
    <3>1. /\ Uses(g, t) = Is(Nil, t) + Is(d, t) + Is(d, t)
          /\ Uses(frame[p], t) = Is(Nil, t) + Is(d, t)
      BY <1>1, <1>3, <1>4, <2>2, UsesOf
    <3> QED
      BY <3>1
  <2> QED
    BY <1>1, <1>2, <1>5, <1>6, <2>1, <2>2, <2>3, <2>4, <2>5, <2>6, OpenDirectory DEF Inserting
<1> QED
  BY <1>7, <1>8

LEMMA BeginStep ==
  ASSUME FsTypeOK, RefInv, NEW p \in Process, NEW call \in {"mkdir", "open", "chdir"},
         NEW name \in EntryName, NEW absolute \in BOOLEAN, Begin(p, call, name, absolute)
  PROVE  FsTypeOK' /\ (~stopped' => RefInv')
<1>1. frame[p] \in Frame /\ frame[p].pc = "outside" /\ running
  BY DEF Begin, At, FsTypeOK, MemoryTypes
<1>2. Shape(frame[p]) /\ Where(frame[p]) = "outside"
  BY <1>1 DEF RefInv, Where
<1>3. pwd[p] \in Slot /\ Kept(leaked, pwd[p])
  BY <1>1, <1>2 DEF RefInv, Started, PathsKept
<1>4. PICK s \in Slot : s = (IF absolute THEN 1 ELSE pwd[p]) /\ Kept(leaked, s)
  BY <1>3, FileSystemAssumption DEF Slot, Kept
<1> DEFINE g == [Outside EXCEPT !.pc = IF call = "mkdir" THEN "scan" ELSE "lookup",
                       !.call = call, !.name = name, !.dirs = <<s>>]
<1>5. Reopen(p, s) /\ Resume(p, g)
      /\ UNCHANGED <<free_map, diskVars, open_inodes, heap, holdVars, running, lostVars>>
  BY <1>4 DEF Begin
<1>6. /\ g \in Frame /\ g.pc = (IF call = "mkdir" THEN "scan" ELSE "lookup") /\ g.name = name
      /\ g.dirs = <<s>> /\ g.call = call /\ g.inode = Nil /\ g.closing = Nil
      /\ g.making = Nil
  <2>1. <<s>> \in Seq(Slot)
    OBVIOUS
  <2>2. Outside \in Frame /\ Outside.inode = Nil /\ Outside.closing = Nil /\ Outside.making = Nil
    BY OutsideShape DEF Outside
  <2>3. /\ (IF call = "mkdir" THEN "scan" ELSE "lookup") \in PC \cup {"unlist"}
        /\ name \in EntryName \cup {Nil} /\ call \in {"none", "mkdir", "open", "chdir"}
    BY DEF PC
  <2> QED
    BY <2>1, <2>2, <2>3 DEF Frame
<1> HIDE DEF g
<1>7. Where(g) = g.pc
  BY <1>6 DEF Where
<1>8. Shape(g)
  BY <1>6, <1>7 DEF Shape, Making, Naming, Inserting
<1>9. AllKept(leaked, g.dirs)
  BY <1>4, <1>6 DEF AllKept
<1>10. ASSUME NEW t \in Slot PROVE Uses(g, t) = Uses(frame[p], t) + Is(s, t)
  <2>1. Uses(g, t) = Is(Nil, t) + Is(s, t) /\ Uses(frame[p], t) = Is(Nil, t)
    BY <1>1, <1>2, <1>6, UsesOf DEF Shape
  <2> QED
    BY <2>1
<1>11. DiskTypes'
  BY <1>5, DiskSame
<1> QED
  BY <1>1, <1>3, <1>4, <1>5, <1>6, <1>7, <1>8, <1>9, <1>10, <1>11, OpenDirectory DEF Inserting

LEMMA LookupStep ==
  ASSUME FsTypeOK, RefInv, NEW p \in Process, Lookup(p)
  PROVE  FsTypeOK' /\ (~stopped' => RefInv')
<1>1. frame[p] \in Frame /\ frame[p].pc = "lookup"
  BY DEF Lookup, At, FsTypeOK, MemoryTypes
<1>2. Shape(frame[p]) /\ Where(frame[p]) = "lookup" /\ frame[p].closing = Nil /\ frame[p].making = Nil
      /\ AllKept(leaked, frame[p].dirs) /\ running /\ pwd[p] \in Slot /\ Kept(leaked, pwd[p])
      /\ fds[p] \in OptSlot
  BY <1>1, InCall DEF Inserting
<1>3. PICK d \in Slot : frame[p].dirs = IF frame[p].call = "mkdir" THEN <<d, d>> ELSE <<d>>
  BY <1>2 DEF Shape
<1>4. frame[p].inode = Nil /\ frame[p].name \in EntryName
  BY <1>2 DEF Shape, Naming
<1>5. DirOf(p) = d
  BY <1>3 DEF DirOf
<1>6. PICK x \in FsSector : x = Entry(inode[DirOf(p)].sector, frame[p].name)
  <2>1. inode[d].sector \in FsSector
    BY DEF FsTypeOK, MemoryTypes
  <2>2. node[inode[d].sector].block \in FsSector
    BY <2>1 DEF FsTypeOK, DiskTypes
  <2> QED
    BY <1>4, <1>5, <2>2 DEF Entry, FsTypeOK, DiskTypes
<1>7. UNCHANGED <<free_map, diskVars, open_inodes, heap, holdVars, running, lostVars>> /\ DiskTypes'
  <2>1. UNCHANGED <<free_map, diskVars, open_inodes, heap, holdVars, running, lostVars>>
    BY DEF Lookup
  <2> QED
    BY <2>1, DiskSame
<1> DEFINE f == [frame[p] EXCEPT !.name = Nil, !.pc = "closelookup"]
           h == [f EXCEPT !.pc = "insert", !.pick = x]
<1>8. ASSUME NEW g \in Frame, g.pc \in {"closelookup", "insert"},
             g.dirs = frame[p].dirs, g.call = frame[p].call, g.closing = Nil,
             g.making = Nil, g.pc = "insert" => g.pick # 0, g.inode \in OptSlot,
             g.pc = "insert" => g.inode = Nil
      PROVE  Where(g) = g.pc /\ Shape(g) /\ AllKept(leaked, g.dirs)
  <2>1. Where(g) = g.pc
    BY <1>8 DEF Where
  <2> QED
    BY <1>2, <1>3, <1>8, <2>1 DEF Shape, Making, Naming, Inserting
<1>9. ASSUME NEW g \in Frame, g.pc \in {"closelookup", "insert"},
             g.dirs = frame[p].dirs, g.call = frame[p].call, g.closing = Nil,
             g.making = Nil, g.pc = "insert" => g.pick # 0,
             g.inode = frame[p].inode, Resume(p, g), UNCHANGED <<inode, stopped>>
      PROVE  FsTypeOK' /\ RefInv'
  <2>1. UNCHANGED <<memoryVars, holdVars, running>> /\ stopped' \in BOOLEAN
    BY <1>7, <1>9 DEF memoryVars, FsTypeOK, MemoryTypes
  <2>2. Where(g) = g.pc /\ Shape(g)
    BY <1>4, <1>8, <1>9 DEF OptSlot
  <2> QED
    BY <1>1, <1>7, <1>9, <2>1, <2>2, QuietStep DEF Inserting
<1>10. /\ f \in Frame /\ f.pc = "closelookup" /\ f.dirs = frame[p].dirs /\ f.call = frame[p].call
       /\ f.closing = Nil /\ f.inode = frame[p].inode /\ f.making = Nil
  BY <1>1, <1>2, ZenonT(40) DEF Frame, PC
<1>11. /\ h \in Frame /\ h.pc = "insert" /\ h.dirs = frame[p].dirs /\ h.call = frame[p].call
       /\ h.closing = Nil /\ h.inode = frame[p].inode /\ h.making = Nil /\ h.pick = x
  BY <1>1, <1>2, ZenonT(40) DEF Frame, PC
<1>12. CASE Resume(p, f) /\ UNCHANGED <<inode, stopped>>
  <2> PICK g : g = f
    OBVIOUS
  <2> HIDE DEF f
  <2> QED
    BY <1>9, <1>10, <1>12
<1>13. CASE x # 0 /\ Resume(p, h) /\ UNCHANGED <<inode, stopped>>
  <2> PICK g : g = h
    OBVIOUS
  <2> HIDE DEF h
  <2> QED
    BY <1>9, <1>11, <1>13
<1>14. ASSUME NEW s \in open_inodes, Reopen(p, s), Resume(p, [f EXCEPT !.inode = s])
       PROVE  FsTypeOK' /\ (~stopped' => RefInv')
  <2> DEFINE g == [f EXCEPT !.inode = s]
  <2>1. s \in Slot
    BY DEF FsTypeOK, MemoryTypes
  <2>2. /\ g \in Frame /\ g.pc = "closelookup" /\ g.dirs = frame[p].dirs
        /\ g.call = frame[p].call /\ g.closing = Nil /\ g.making = Nil /\ g.inode = s
    <3> HIDE DEF f, h
    <3> QED
      BY <1>10, <2>1 DEF Frame, OptSlot
  <2>3. frame' = [frame EXCEPT ![p] = g]
    BY <1>14 DEF Resume
  <2> HIDE DEF g, f, h
  <2>4. Where(g) # "setpwd" /\ Shape(g) /\ AllKept(leaked, g.dirs)
    BY <1>8, <2>1, <2>2 DEF OptSlot
  <2>5. PICK v, w : v = pwd[p] /\ w = fds[p]
    OBVIOUS
  <2>6. Goes(p, g, v, w)
    BY <1>2, <1>7, <2>2, <2>3, <2>4, <2>5 DEF Goes, holdVars, FsTypeOK, MemoryTypes, OptSlot
  <2>7. ASSUME NEW t \in Slot PROVE Change(p, g, v, w, t) = Is(s, t)
    <3>0. Dirs(g, t) = Dirs(frame[p], t)
      BY <2>2 DEF Dirs
    <3>4. g.dirs \in Seq(Slot)
      BY <2>2 DEF Frame
    <3>1. Cardinality(Dirs(g, t)) \in Nat
      BY <3>4, DirsFinite
    <3>2. Uses(g, t) = Is(s, t) + Cardinality(Dirs(g, t))
          /\ Uses(frame[p], t) = Is(Nil, t) + Cardinality(Dirs(g, t)) /\ Is(Nil, t) = 0
      BY <1>4, <2>2, <3>0, <3>1, NilIs DEF Uses
    <3>3. leaked'[t] = leaked[t] /\ leaked[t] \in Nat /\ \A y : Is(y, t) \in Nat
      BY <1>7 DEF Is, holdVars, FsTypeOK, MemoryTypes
    <3> QED
      BY ONLY <2>5, <3>1, <3>2, <3>3 DEF Change
  <2>8. Reopening(p, s, g, v, w)
    BY <1>7, <1>14, <2>2, <2>6, <2>7 DEF Reopening, holdVars
  <2> QED
    BY <1>7, <2>8, ReopenCall
<1>15. \/ Resume(p, f) /\ UNCHANGED <<inode, stopped>>
       \/ x # 0 /\ Resume(p, h) /\ UNCHANGED <<inode, stopped>>
       \/ \E s \in open_inodes : Reopen(p, s) /\ Resume(p, [f EXCEPT !.inode = s])
  BY <1>6 DEF Lookup
<1> QED
  BY <1>12, <1>13, <1>14, <1>15

(* Lists of struct inodes. *)
LEMMA HeapTail ==
  ASSUME NEW h \in Seq(Slot), h # << >>, NEW O, \A i \in DOMAIN h : h[i] \notin O,
         \A i, j \in DOMAIN h : h[i] = h[j] => i = j
  PROVE  /\ Head(h) \in Slot /\ Head(h) \notin O /\ Tail(h) \in Seq(Slot)
         /\ \A i \in DOMAIN Tail(h) : Tail(h)[i] \notin O \cup {Head(h)}
         /\ \A i, j \in DOMAIN Tail(h) : Tail(h)[i] = Tail(h)[j] => i = j
<1>1. /\ Len(h) \in Nat /\ Len(h) > 0 /\ DOMAIN h = 1 .. Len(h) /\ Head(h) = h[1]
      /\ Tail(h) \in Seq(Slot) /\ Head(h) \in Slot
  OBVIOUS
<1>2. /\ DOMAIN Tail(h) = 1 .. Len(h) - 1
      /\ \A i \in 1 .. Len(h) - 1 : Tail(h)[i] = h[i + 1]
  OBVIOUS
<1>3. \A i \in 1 .. Len(h) - 1 : i \in Nat /\ i > 0 /\ i + 1 \in 1 .. Len(h)
  BY ONLY <1>1
<1>4. 1 \in DOMAIN h
  BY ONLY <1>1
<1>5. ASSUME NEW i \in DOMAIN Tail(h)
      PROVE  Tail(h)[i] \notin O \cup {Head(h)}
             /\ \A j \in DOMAIN Tail(h) : Tail(h)[i] = Tail(h)[j] => i = j
  <2>1. i + 1 \in DOMAIN h /\ Tail(h)[i] = h[i + 1] /\ i \in Nat /\ i > 0 /\ i + 1 # 1
    BY ONLY <1>1, <1>2, <1>3, <1>5
  <2>2. h[i + 1] \notin O /\ h[i + 1] # h[1]
    BY <1>4, <2>1
  <2>3. ASSUME NEW j \in DOMAIN Tail(h), Tail(h)[i] = Tail(h)[j] PROVE i = j
    <3>1. j + 1 \in DOMAIN h /\ Tail(h)[j] = h[j + 1] /\ j \in Nat
      BY ONLY <1>1, <1>2, <1>3, <2>3
    <3>2. i + 1 = j + 1
      BY <2>1, <2>3, <3>1
    <3> QED
      BY ONLY <2>1, <3>1, <3>2
  <2> QED
    BY <1>1, <2>1, <2>2, <2>3
<1> QED
  BY <1>1, <1>4, <1>5

LEMMA HeapPush ==
  ASSUME NEW h \in Seq(Slot), NEW O, NEW s \in O, s \in Slot,
         \A i \in DOMAIN h : h[i] \notin O,
         \A i, j \in DOMAIN h : h[i] = h[j] => i = j
  PROVE  /\ <<s>> \o h \in Seq(Slot)
         /\ \A i \in DOMAIN (<<s>> \o h) : (<<s>> \o h)[i] \notin O \ {s}
         /\ \A i, j \in DOMAIN (<<s>> \o h) : (<<s>> \o h)[i] = (<<s>> \o h)[j] => i = j
<1>1. /\ Len(h) \in Nat /\ DOMAIN h = 1 .. Len(h) /\ <<s>> \o h \in Seq(Slot)
      /\ DOMAIN (<<s>> \o h) = 1 .. Len(h) + 1
  OBVIOUS
<1>2. \A i \in 1 .. Len(h) + 1 : (<<s>> \o h)[i] = IF i = 1 THEN s ELSE h[i - 1]
  OBVIOUS
<1>3. \A i \in 1 .. Len(h) + 1 : i \in Int /\ (i # 1 => i - 1 \in 1 .. Len(h))
  BY ONLY <1>1
<1>4. ASSUME NEW i \in 1 .. Len(h) + 1
      PROVE  (<<s>> \o h)[i] \notin O \ {s}
             /\ \A j \in 1 .. Len(h) + 1 : (<<s>> \o h)[i] = (<<s>> \o h)[j] => i = j
  <2>1. (<<s>> \o h)[i] \notin O \ {s}
    BY <1>1, <1>2, <1>3
  <2>2. ASSUME NEW j \in 1 .. Len(h) + 1, (<<s>> \o h)[i] = (<<s>> \o h)[j] PROVE i = j
    <3>0. \A k \in 1 .. Len(h) + 1 : k # 1 => (<<s>> \o h)[k] \notin O
      BY <1>1, <1>2, <1>3
    <3>1. CASE i = 1 \/ j = 1
      <4>1. (<<s>> \o h)[i] = s \/ (<<s>> \o h)[j] = s
        BY <1>2, <3>1
      <4> QED
        BY ONLY <1>4, <2>2, <3>0, <3>1, <4>1, s \in O
    <3>2. CASE i # 1 /\ j # 1
      <4>1. /\ h[i - 1] = h[j - 1] /\ i - 1 \in DOMAIN h /\ j - 1 \in DOMAIN h
            /\ i \in Int /\ j \in Int
        BY <1>1, <1>2, <1>3, <2>2, <3>2
      <4>2. i - 1 = j - 1
        BY <4>1
      <4> QED
        BY ONLY <4>1, <4>2
    <3> QED
      BY <3>1, <3>2
  <2> QED
    BY <2>1, <2>2
<1> QED
  BY <1>1, <1>4

(* p goes on as g with the working directory and the file it has. *)
LEMMA RefsOf ==
  ASSUME FsTypeOK, NEW p \in Process, NEW g \in Frame, frame' = [frame EXCEPT ![p] = g],
         UNCHANGED <<pwd, fds, leaked>>, NEW s \in Slot
  PROVE  /\ References(s) \in Nat /\ References(s)' \in Nat
         /\ References(s)' = References(s) + Uses(g, s) - Uses(frame[p], s)
<1>1. PICK v, w : v = pwd[p] /\ w = fds[p]
  OBVIOUS
<1>2. Moved(p, g, v, w)
  BY <1>1 DEF Moved, FsTypeOK, MemoryTypes
<1>3. /\ References(s) \in Nat /\ References(s)' \in Nat
      /\ References(s)' = References(s) + Uses(g, s) - Uses(frame[p], s)
           + Is(v, s) - Is(pwd[p], s) + Is(w, s) - Is(fds[p], s) + leaked'[s] - leaked[s]
  BY <1>2, RefsStep
<1>4. frame[p] \in Frame /\ leaked' = leaked /\ leaked[s] \in Nat
  BY DEF FsTypeOK, MemoryTypes
<1>5. Uses(g, s) \in Nat /\ Uses(frame[p], s) \in Nat /\ \A x : Is(x, s) \in Nat
  BY <1>4, UsesOf DEF Is
<1> QED
  BY ONLY <1>1, <1>3, <1>4, <1>5

(* A call that is in the middle of inode_open() goes on as g. *)
LEMMA InsertFrame ==
  ASSUME FsTypeOK, RefInv, NEW p \in Process, frame[p].pc \in {"insert"} \cup Inserting,
         NEW g \in Frame, Shape(g), g.closing = Nil, Where(g) # "setpwd",
         g.dirs = frame[p].dirs, frame' = [frame EXCEPT ![p] = g],
         UNCHANGED <<pwd, fds, leaked, running>>
  PROVE  /\ (\A q \in Process : Shape(frame[q]))' /\ Started' /\ PathsKept'
         /\ \A s \in Slot : /\ References(s) \in Nat
                            /\ References(s)' = References(s) + Is(g.inode, s)
         /\ frame[p].closing = Nil
         /\ frame'[p] = g
         /\ \A q \in Process \ {p} : frame'[q] = frame[q]
         /\ \A q \in Process : frame'[q].closing = frame[q].closing
         /\ frame' \in [Process -> Frame]
<1>1. /\ frame[p] \in Frame /\ Shape(frame[p]) /\ Where(frame[p]) = frame[p].pc
      /\ frame[p].closing = Nil
      /\ AllKept(leaked, frame[p].dirs) /\ running /\ pwd[p] \in Slot /\ Kept(leaked, pwd[p])
  BY InCall DEF Inserting
<1>2. frame[p].inode = Nil
  BY <1>1 DEF Shape
<1>3. (\A q \in Process : Shape(frame[q]))' /\ Started' /\ PathsKept'
  <2>1. PICK v : v = pwd[p]
    OBVIOUS
  <2>2. /\ running' = running /\ v \in OptSlot /\ pwd' = [pwd EXCEPT ![p] = v]
        /\ v \in Slot <=> Where(g) # "setpwd"
        /\ leaked' \in [Slot -> Nat] /\ (v \in Slot => Kept(leaked', v))
        /\ AllKept(leaked', g.dirs)
    BY <1>1, <2>1 DEF FsTypeOK, MemoryTypes, OptSlot
  <2>3. \A t \in Slot : leaked[t] <= leaked'[t]
    BY DEF FsTypeOK, MemoryTypes
  <2> QED
    BY <1>1, <2>2, <2>3, FrameStep
<1>4. ASSUME NEW t \in Slot
      PROVE  References(t) \in Nat /\ References(t)' = References(t) + Is(g.inode, t)
  <2>1. References(t) \in Nat /\ References(t)' = References(t) + Uses(g, t) - Uses(frame[p], t)
    BY RefsOf
  <2>2. Uses(g, t) = Uses(frame[p], t) + Is(g.inode, t)
    <3>1. Dirs(g, t) = Dirs(frame[p], t)
      BY DEF Dirs
    <3>2. g.dirs \in Seq(Slot)
      BY DEF Frame
    <3>3. Cardinality(Dirs(g, t)) \in Nat
      BY <3>2, DirsFinite
    <3>4. Is(Nil, t) = 0 /\ Is(g.inode, t) \in Nat
      BY NilIs DEF Is
    <3> QED
      BY <1>2, <3>1, <3>3, <3>4 DEF Uses
  <2>3. Uses(frame[p], t) \in Nat /\ Is(g.inode, t) \in Nat
    BY <1>1, UsesOf DEF Is
  <2> QED
    BY ONLY <2>1, <2>2, <2>3
<1>5. /\ frame'[p] = g /\ \A q \in Process \ {p} : frame'[q] = frame[q]
      /\ frame' \in [Process -> Frame]
  BY DEF FsTypeOK, MemoryTypes
<1> QED
  BY <1>1, <1>3, <1>4, <1>5

LEMMA AllocateStep ==
  ASSUME FsTypeOK, RefInv, NEW p \in Process, Allocate(p)
  PROVE  FsTypeOK' /\ RefInv'
<1>1. frame[p] \in Frame /\ frame[p].pc = "insert"
  BY DEF Allocate, At, FsTypeOK, MemoryTypes
<1>2. Shape(frame[p]) /\ Where(frame[p]) = "insert" /\ frame[p].closing = Nil
      /\ frame[p].making = Nil
  BY <1>1, InCall DEF Inserting
<1>3. frame[p].inode = Nil /\ frame[p].pick # 0
  BY <1>2 DEF Shape
<1>4. /\ UNCHANGED <<inode, open_inodes, holdVars, running, stopped>> /\ DiskTypes'
      /\ stopped' \in BOOLEAN
  <2>1. UNCHANGED <<free_map, diskVars, inode, open_inodes, holdVars, running, lostVars, stopped>>
    BY DEF Allocate
  <2> QED
    BY <2>1, DiskSame DEF FsTypeOK, MemoryTypes
<1> DEFINE f == [frame[p] EXCEPT !.pc = "closelookup", !.pick = 0]
<1>5. CASE Resume(p, f) /\ UNCHANGED heap
  <2>1. /\ f \in Frame /\ f.pc = "closelookup" /\ f.dirs = frame[p].dirs /\ f.call = frame[p].call
        /\ f.closing = Nil /\ f.inode = frame[p].inode /\ f.making = Nil
    BY <1>1, <1>2, ZeroSector DEF Frame, PC
  <2> PICK g : g = f
    OBVIOUS
  <2> HIDE DEF f
  <2>2. Where(g) = "closelookup"
    BY <2>1 DEF Where
  <2>3. Shape(g)
    BY <1>2, <2>1, <2>2 DEF Shape, Making, Naming, Inserting
  <2> QED
    BY <1>1, <1>4, <1>5, <2>1, <2>2, <2>3, QuietStep DEF memoryVars, Inserting
<1>6. ASSUME NEW s, heap # << >>, s = Head(heap), heap' = Tail(heap),
             Resume(p, [frame[p] EXCEPT !.pc = "link", !.making = s])
      PROVE  FsTypeOK' /\ RefInv'
  <2>1. /\ s \in Slot /\ s \notin open_inodes /\ heap' \in Seq(Slot)
        /\ \A i \in DOMAIN heap' : heap'[i] \notin open_inodes \cup {s}
        /\ \A i, j \in DOMAIN heap' : heap'[i] = heap'[j] => i = j
    <3>1. /\ heap \in Seq(Slot) /\ \A i \in DOMAIN heap : heap[i] \notin open_inodes
          /\ \A i, j \in DOMAIN heap : heap[i] = heap[j] => i = j
      BY DEF FsTypeOK, MemoryTypes, RefInv, HeapFree
    <3> QED
      BY <1>6, <3>1, HeapTail
  <2>2. /\ \E i \in DOMAIN heap : heap[i] = s
        /\ \A i \in DOMAIN heap' : \E j \in DOMAIN heap : heap'[i] = heap[j]
    <3>1. PICK h \in Seq(Slot) : h = heap
      BY DEF FsTypeOK, MemoryTypes
    <3>2. h # << >> /\ s = Head(h) /\ heap' = Tail(h)
      BY <1>6, <3>1
    <3>3. 1 \in DOMAIN h /\ h[1] = s
      BY <3>2
    <3>4. /\ DOMAIN Tail(h) = 1 .. Len(h) - 1 /\ DOMAIN h = 1 .. Len(h) /\ Len(h) \in Nat
          /\ \A i \in 1 .. Len(h) - 1 : Tail(h)[i] = h[i + 1] /\ i + 1 \in 1 .. Len(h)
      BY <3>2
    <3> QED
      BY <3>1, <3>2, <3>3, <3>4
  <2> DEFINE g == [frame[p] EXCEPT !.pc = "link", !.making = s]
  <2>3. /\ g \in Frame /\ g.pc = "link" /\ g.dirs = frame[p].dirs /\ g.call = frame[p].call
        /\ g.closing = Nil /\ g.inode = Nil /\ g.making = s /\ g.pick = frame[p].pick
    <3>1. s \in OptSlot /\ "link" \in PC \cup {"unlist"}
      BY <2>1 DEF OptSlot, PC
    <3> QED
      BY <1>1, <1>2, <1>3, <3>1 DEF Frame
  <2>4. frame' = [frame EXCEPT ![p] = g]
    BY <1>6 DEF Resume
  <2> HIDE DEF g, f
  <2>5. Where(g) = "link"
    BY <2>3 DEF Where
  <2>6. Shape(g)
    BY <1>2, <1>3, <2>1, <2>3, <2>5 DEF Shape, Making, Naming, Inserting
  <2>7. UNCHANGED <<pwd, fds, leaked, running, doubled>>
    BY <1>4 DEF holdVars
  <2>8. /\ (\A q \in Process : Shape(frame[q]))' /\ Started' /\ PathsKept'
        /\ \A t \in Slot : /\ References(t) \in Nat
                           /\ References(t)' = References(t) + Is(Nil, t)
        /\ frame'[p] = g
        /\ \A q \in Process \ {p} : frame'[q] = frame[q]
        /\ \A q \in Process : frame'[q].closing = frame[q].closing
        /\ frame' \in [Process -> Frame]
    <3>1. /\ frame[p].pc \in {"insert"} \cup Inserting /\ g \in Frame /\ Shape(g)
          /\ g.closing = Nil /\ Where(g) # "setpwd" /\ g.dirs = frame[p].dirs
          /\ UNCHANGED <<pwd, fds, leaked, running>>
      BY <1>1, <2>3, <2>5, <2>6, <2>7
    <3>2. /\ (\A q \in Process : Shape(frame[q]))' /\ Started' /\ PathsKept'
          /\ \A t \in Slot : /\ References(t) \in Nat
                             /\ References(t)' = References(t) + Is(g.inode, t)
          /\ frame'[p] = g
          /\ \A q \in Process \ {p} : frame'[q] = frame[q]
          /\ \A q \in Process : frame'[q].closing = frame[q].closing
          /\ frame' \in [Process -> Frame]
      BY ONLY FsTypeOK, RefInv, p \in Process, <2>4, <3>1, InsertFrame, ZenonT(40)
    <3> QED
      BY <2>3, <3>2
  <2>9. \A t \in Slot : References(t)' = References(t)
    BY <2>8, NilIs
  <2>10. MemoryTypes'
    BY <1>4, <2>1, <2>7, <2>8 DEF FsTypeOK, MemoryTypes
  <2>11. Counted'
    BY <1>4, <2>7, <2>9 DEF RefInv, Counted
  <2>12. OneEach'
    BY <1>4 DEF RefInv, OneEach
  <2>13. HeapFree'
    BY <1>4, <2>1 DEF HeapFree
  <2>14. Nil \notin Slot /\ open_inodes \subseteq Slot
    BY FileSystemAssumption DEF FsTypeOK, MemoryTypes
  <2>15. \A q \in Process : frame[q].making \in Slot => frame'[q] = frame[q] /\ q # p
    BY <1>2, <2>8, <2>14
  <2>16. Closers'
    <3>1. ASSUME NEW t \in open_inodes', inode'[t].cnt <= 0
          PROVE  \E q \in Process : t \in {frame'[q].closing, frame'[q].making}
      <4>1. PICK q \in Process : t \in {frame[q].closing, frame[q].making}
        BY <1>4, <3>1 DEF RefInv, Closers
      <4> QED
        BY <1>4, <2>8, <2>14, <2>15, <4>1
    <3>2. ASSUME NEW q \in Process, frame'[q].closing \in Slot
          PROVE  /\ frame'[q].closing \in open_inodes'
                 /\ inode'[frame'[q].closing].cnt > 0 => Kept(leaked', frame'[q].closing)
                 /\ \A r \in Process : frame'[q].closing = frame'[r].closing
                      => q = r \/ Kept(leaked', frame'[q].closing)
      BY <1>4, <2>7, <2>8, <3>2 DEF RefInv, Closers
    <3> QED
      BY <3>1, <3>2 DEF Closers
  <2>17. Unmade'
    <3>1. \A t \in Slot \ open_inodes' : inode'[t] = NoInode
      BY <1>4 DEF RefInv, Unmade
    <3>2. ASSUME NEW t \in open_inodes', inode'[t].sector = 0
          PROVE  \E q \in Process : frame'[q].making = t /\ frame'[q].pc = "setsector"
      <4>1. PICK q \in Process : frame[q].making = t /\ frame[q].pc = "setsector"
        BY <1>4, <3>2 DEF RefInv, Unmade
      <4> QED
        BY <1>4, <2>14, <2>15, <4>1
    <3>3. ASSUME NEW q \in Process, frame'[q].making \in Slot
          PROVE  Makes(q, frame[q].making)'
      <4>1. CASE q = p
        <5>1. References(s)' = 0
          BY <2>1, <2>9 DEF RefInv, Counted
        <5>2. \A r \in Process : frame'[r].closing # s
          BY <2>1, <2>8 DEF RefInv, Closers
        <5>3. ASSUME NEW r \in Process, frame'[r].making = s, r # p PROVE FALSE
          <6>1. frame[r].making = s
            BY <2>8, <5>3
          <6>2. Makes(r, s)
            BY <2>1, <6>1 DEF RefInv, Unmade
          <6> QED
            BY <2>2, <6>2 DEF Makes
        <5>4. frame'[p].making = s /\ frame'[p].pc = "link" /\ s \notin open_inodes'
          BY <1>4, <2>1, <2>3, <2>8
        <5>5. Makes(p, s)'
          BY <2>1, <5>1, <5>2, <5>3, <5>4 DEF Makes
        <5> QED
          BY <4>1, <5>4, <5>5
      <4>2. CASE q # p
        <5>1. PICK m \in Slot : m = frame[q].making /\ frame'[q] = frame[q]
          BY <2>8, <3>3, <4>2
        <5>2. Makes(q, m)
          BY <5>1 DEF RefInv, Unmade
        <5>3. m # s
          BY <2>2, <5>2 DEF Makes
        <5>4. \A r \in Process : frame'[r].closing # m /\ (frame'[r].making = m => r = q)
          BY <2>3, <2>8, <5>2, <5>3 DEF Makes
        <5>5. \A i \in DOMAIN heap' : heap'[i] # m
          BY <2>2, <5>2 DEF Makes
        <5>6. References(m)' = 0
          BY <2>9, <5>2 DEF Makes
        <5>7. Makes(q, m)'
          BY <1>4, <5>1, <5>2, <5>4, <5>5, <5>6 DEF Makes
        <5> QED
          BY <5>1, <5>7
      <4> QED
        BY <4>1, <4>2
    <3> QED
      BY <3>1, <3>2, <3>3 DEF Unmade
  <2> QED
    BY <1>4, <2>8, <2>10, <2>11, <2>12, <2>13, <2>16, <2>17 DEF FsTypeOK, RefInv
<1>7. \/ Resume(p, f) /\ UNCHANGED heap
      \/ /\ heap # << >> /\ heap' = Tail(heap)
         /\ Resume(p, [frame[p] EXCEPT !.pc = "link", !.making = Head(heap)])
  BY DEF Allocate
<1>8. CASE /\ heap # << >> /\ heap' = Tail(heap)
           /\ Resume(p, [frame[p] EXCEPT !.pc = "link", !.making = Head(heap)])
  <2> HIDE DEF f
  <2> PICK s : s = Head(heap)
    OBVIOUS
  <2> QED
    BY <1>6, <1>8
<1> QED
  BY <1>5, <1>7, <1>8

(* What is known of a call whose new inode is in slot s. *)
LEMMA InInsert ==
  ASSUME FsTypeOK, RefInv, NEW p \in Process, frame[p].pc \in Inserting
  PROVE  /\ frame[p] \in Frame /\ Shape(frame[p]) /\ Where(frame[p]) = frame[p].pc
         /\ frame[p].closing = Nil /\ frame[p].inode = Nil /\ frame[p].pick # 0
         /\ frame[p].pick \in FsSector
         /\ \E s \in Slot : s = frame[p].making /\ Makes(p, s)
<1>1. frame[p] \in Frame /\ Shape(frame[p]) /\ Where(frame[p]) = frame[p].pc
      /\ frame[p].closing = Nil
  BY InCall DEF Inserting
<1>2. frame[p].making \in Slot /\ frame[p].inode = Nil /\ frame[p].pick # 0
  BY <1>1 DEF Shape
<1>3. Makes(p, frame[p].making)
  BY <1>2 DEF RefInv, Unmade
<1> QED
  BY <1>1, <1>2, <1>3 DEF Frame

LEMMA LinkStep ==
  ASSUME FsTypeOK, RefInv, NEW p \in Process, Link(p)
  PROVE  FsTypeOK' /\ RefInv'
<1>1. frame[p].pc = "link" /\ frame[p].pc \in Inserting
  BY DEF Link, At, Inserting
<1>2. /\ frame[p] \in Frame /\ Shape(frame[p]) /\ Where(frame[p]) = "link"
      /\ frame[p].closing = Nil /\ frame[p].inode = Nil /\ frame[p].pick # 0
  BY <1>1, InInsert
<1>3. PICK s \in Slot : s = frame[p].making /\ Makes(p, s)
  BY <1>1, InInsert
<1> DEFINE g == [frame[p] EXCEPT !.pc = "setsector"]
<1>4. /\ g \in Frame /\ g.pc = "setsector" /\ g.dirs = frame[p].dirs /\ g.call = frame[p].call
      /\ g.closing = Nil /\ g.inode = Nil /\ g.making = s /\ g.pick = frame[p].pick
  BY <1>2, <1>3 DEF Frame, PC
<1>5. frame' = [frame EXCEPT ![p] = g]
  BY <1>2 DEF Link, Goto, FsTypeOK, MemoryTypes
<1> HIDE DEF g
<1>6. /\ open_inodes' = open_inodes \cup {s}
      /\ UNCHANGED <<inode, heap, pwd, fds, leaked, doubled, running>>
      /\ stopped' \in BOOLEAN /\ DiskTypes'
  <2>1. UNCHANGED <<free_map, diskVars, lostVars>>
    BY DEF Link
  <2> QED
    BY <1>3, <2>1, DiskSame DEF Link, holdVars, FsTypeOK, MemoryTypes
<1>7. Where(g) = "setsector"
  BY <1>4 DEF Where
<1>8. Shape(g)
  BY <1>2, <1>4, <1>7 DEF Shape, Making, Naming, Inserting
<1>9. /\ (\A q \in Process : Shape(frame[q]))' /\ Started' /\ PathsKept'
      /\ \A t \in Slot : /\ References(t) \in Nat
                         /\ References(t)' = References(t) + Is(Nil, t)
      /\ frame'[p] = g
      /\ \A q \in Process \ {p} : frame'[q] = frame[q]
      /\ \A q \in Process : frame'[q].closing = frame[q].closing
      /\ frame' \in [Process -> Frame]
  <2>1. /\ g \in Frame /\ Shape(g) /\ g.closing = Nil /\ Where(g) # "setpwd"
        /\ g.dirs = frame[p].dirs /\ frame[p].pc \in {"insert"} \cup Inserting
        /\ UNCHANGED <<pwd, fds, leaked, running>>
    BY <1>1, <1>4, <1>6, <1>7, <1>8
  <2>2. /\ (\A q \in Process : Shape(frame[q]))' /\ Started' /\ PathsKept'
        /\ \A t \in Slot : /\ References(t) \in Nat
                           /\ References(t)' = References(t) + Is(g.inode, t)
        /\ frame'[p] = g
        /\ \A q \in Process \ {p} : frame'[q] = frame[q]
        /\ \A q \in Process : frame'[q].closing = frame[q].closing
        /\ frame' \in [Process -> Frame]
    BY ONLY FsTypeOK, RefInv, p \in Process, <1>5, <2>1, InsertFrame, ZenonT(40)
  <2> QED
    BY <1>4, <2>2
<1>10. \A t \in Slot : References(t)' = References(t)
  BY <1>9, NilIs
<1>11. \A q \in Process : frame'[q].making = frame[q].making
  BY <1>3, <1>4, <1>9
<1>12. MemoryTypes'
  BY <1>6, <1>9 DEF FsTypeOK, MemoryTypes
<1>13. /\ s \notin open_inodes /\ inode[s] = NoInode /\ inode[s].sector = 0 /\ inode[s].cnt = 0
       /\ References(s) = 0 /\ doubled[s] = 0
  <2>1. s \notin open_inodes
    BY <1>1, <1>3 DEF Makes
  <2>2. inode[s] = NoInode
    BY <2>1 DEF RefInv, Unmade
  <2> QED
    BY <2>1, <2>2 DEF NoInode, RefInv, Counted
<1>14. Counted'
  <2>1. 0 = 0 - 0
    OBVIOUS
  <2> QED
    BY <1>6, <1>10, <1>13, <2>1 DEF RefInv, Counted
<1>15. OneEach'
  BY <1>6, <1>13 DEF RefInv, OneEach
<1>16. Closers'
  <2>1. ASSUME NEW t \in open_inodes', inode'[t].cnt <= 0
        PROVE  \E q \in Process : t \in {frame'[q].closing, frame'[q].making}
    <3>1. CASE t = s
      BY <1>3, <1>11, <3>1
    <3>2. CASE t # s
      BY <1>6, <1>9, <1>11, <2>1, <3>2 DEF RefInv, Closers
    <3> QED
      BY <3>1, <3>2
  <2>2. ASSUME NEW q \in Process, frame'[q].closing \in Slot
        PROVE  /\ frame'[q].closing \in open_inodes'
               /\ inode'[frame'[q].closing].cnt > 0 => Kept(leaked', frame'[q].closing)
               /\ \A r \in Process : frame'[q].closing = frame'[r].closing
                    => q = r \/ Kept(leaked', frame'[q].closing)
    BY <1>6, <1>9, <2>2 DEF RefInv, Closers
  <2> QED
    BY <2>1, <2>2 DEF Closers
<1>17. HeapFree'
  BY <1>3, <1>6 DEF RefInv, HeapFree, Makes
<1>18. Unmade'
  <2>1. \A t \in Slot \ open_inodes' : inode'[t] = NoInode
    BY <1>6 DEF RefInv, Unmade
  <2>2. ASSUME NEW t \in open_inodes', inode'[t].sector = 0
        PROVE  \E q \in Process : frame'[q].making = t /\ frame'[q].pc = "setsector"
    <3>1. CASE t = s
      BY <1>4, <1>9, <3>1
    <3>2. CASE t # s
      <4>1. PICK q \in Process : frame[q].making = t /\ frame[q].pc = "setsector"
        BY <1>6, <2>2, <3>2 DEF RefInv, Unmade
      <4> QED
        BY <1>1, <1>9, <4>1
    <3> QED
      BY <3>1, <3>2
  <2>3. ASSUME NEW q \in Process, frame'[q].making \in Slot
        PROVE  Makes(q, frame[q].making)'
    <3>1. PICK m \in Slot : m = frame[q].making /\ m = frame'[q].making
      BY <1>11, <2>3
    <3>2. Makes(q, m)
      BY <3>1 DEF RefInv, Unmade
    <3>3. \A r \in Process : frame'[r].closing # m /\ (frame'[r].making = m => r = q)
      BY <1>9, <1>11, <3>2 DEF Makes
    <3>4. References(m)' = 0 /\ \A i \in DOMAIN heap' : heap'[i] # m
      BY <1>6, <1>10, <3>2 DEF Makes
    <3>5. CASE q = p
      <4>1. m = s /\ frame'[q].pc = "setsector"
        BY <1>3, <1>4, <1>9, <3>1, <3>5
      <4>2. Makes(q, m)'
        BY <1>6, <3>3, <3>4, <4>1 DEF Makes
      <4> QED
        BY <3>1, <4>2
    <3>6. CASE q # p
      <4>1. frame'[q] = frame[q] /\ m # s
        BY <1>3, <1>9, <3>1, <3>2, <3>6 DEF Makes
      <4>2. Makes(q, m)'
        BY <1>6, <3>2, <3>3, <3>4, <4>1 DEF Makes
      <4> QED
        BY <3>1, <4>2
    <3> QED
      BY <3>5, <3>6
  <2> QED
    BY <2>1, <2>2, <2>3 DEF Unmade
<1> QED
  BY <1>6, <1>9, <1>12, <1>14, <1>15, <1>16, <1>17, <1>18 DEF FsTypeOK, RefInv

LEMMA SetSectorStep ==
  ASSUME FsTypeOK, RefInv, NEW p \in Process, SetSector(p)
  PROVE  FsTypeOK' /\ (~stopped' => RefInv')
<1>1. frame[p].pc = "setsector" /\ frame[p].pc \in Inserting
  BY DEF SetSector, At, Inserting
<1>2. /\ frame[p] \in Frame /\ Shape(frame[p]) /\ Where(frame[p]) = "setsector"
      /\ frame[p].closing = Nil /\ frame[p].inode = Nil /\ frame[p].pick # 0
      /\ frame[p].pick \in FsSector
  BY <1>1, InInsert
<1>3. PICK s \in Slot : s = frame[p].making /\ Makes(p, s)
  BY <1>1, InInsert
<1> DEFINE g == [frame[p] EXCEPT !.pc = "setcount"]
<1>4. /\ g \in Frame /\ g.pc = "setcount" /\ g.dirs = frame[p].dirs /\ g.call = frame[p].call
      /\ g.closing = Nil /\ g.inode = Nil /\ g.making = s /\ g.pick = frame[p].pick
  BY <1>2, <1>3 DEF Frame, PC
<1>5. frame' = [frame EXCEPT ![p] = g]
  BY <1>2 DEF SetSector, Goto, FsTypeOK, MemoryTypes
<1> HIDE DEF g
<1>6. /\ inode' = [inode EXCEPT ![s].sector = frame[p].pick]
      /\ UNCHANGED <<open_inodes, heap, pwd, fds, leaked, doubled, running>>
      /\ stopped' = (\E t \in open_inodes : inode[t].sector = frame[p].pick) /\ DiskTypes'
  <2>1. UNCHANGED <<free_map, diskVars, lostVars>>
    BY DEF SetSector
  <2> QED
    BY <1>3, <2>1, DiskSame DEF SetSector, holdVars
<1>7. Where(g) = "setcount"
  BY <1>4 DEF Where
<1>8. Shape(g)
  BY <1>2, <1>4, <1>7 DEF Shape, Making, Naming, Inserting
<1>9. /\ (\A q \in Process : Shape(frame[q]))' /\ Started' /\ PathsKept'
      /\ \A t \in Slot : /\ References(t) \in Nat
                         /\ References(t)' = References(t) + Is(Nil, t)
      /\ frame'[p] = g
      /\ \A q \in Process \ {p} : frame'[q] = frame[q]
      /\ \A q \in Process : frame'[q].closing = frame[q].closing
      /\ frame' \in [Process -> Frame]
  <2>1. /\ g \in Frame /\ Shape(g) /\ g.closing = Nil /\ Where(g) # "setpwd"
        /\ g.dirs = frame[p].dirs /\ frame[p].pc \in {"insert"} \cup Inserting
        /\ UNCHANGED <<pwd, fds, leaked, running>>
    BY <1>1, <1>4, <1>6, <1>7, <1>8
  <2>2. /\ (\A q \in Process : Shape(frame[q]))' /\ Started' /\ PathsKept'
        /\ \A t \in Slot : /\ References(t) \in Nat
                           /\ References(t)' = References(t) + Is(g.inode, t)
        /\ frame'[p] = g
        /\ \A q \in Process \ {p} : frame'[q] = frame[q]
        /\ \A q \in Process : frame'[q].closing = frame[q].closing
        /\ frame' \in [Process -> Frame]
    BY ONLY FsTypeOK, RefInv, p \in Process, <1>5, <2>1, InsertFrame, ZenonT(40)
  <2> QED
    BY <1>4, <2>2
<1>10. \A t \in Slot : References(t)' = References(t)
  BY <1>9, NilIs
<1>11. \A q \in Process : frame'[q].making = frame[q].making
  BY <1>3, <1>4, <1>9
<1>12. /\ inode' \in [Slot -> [sector : FsSector, cnt : Int]]
       /\ inode'[s].sector = frame[p].pick
       /\ \A t \in Slot : inode'[t].cnt = inode[t].cnt
       /\ \A t \in Slot \ {s} : inode'[t] = inode[t]
  BY <1>2, <1>6 DEF FsTypeOK, MemoryTypes
<1>13. FsTypeOK'
  <2>1. stopped' \in BOOLEAN
    BY <1>6
  <2> QED
    BY <1>6, <1>9, <1>12, <2>1 DEF FsTypeOK, MemoryTypes
<1>14. Counted'
  BY <1>6, <1>10, <1>12 DEF RefInv, Counted
<1>15. ASSUME ~stopped' PROVE OneEach'
  <2>1. \A t \in open_inodes : inode[t].sector # frame[p].pick /\ t \in Slot
    BY <1>6, <1>15 DEF FsTypeOK, MemoryTypes
  <2> QED
    BY <1>6, <1>12, <2>1 DEF RefInv, OneEach
<1>16. Closers'
  <2>0. open_inodes \subseteq Slot
    BY DEF FsTypeOK, MemoryTypes
  <2>1. ASSUME NEW t \in open_inodes', inode'[t].cnt <= 0
        PROVE  \E q \in Process : t \in {frame'[q].closing, frame'[q].making}
    BY <1>6, <1>9, <1>11, <1>12, <2>0, <2>1 DEF RefInv, Closers
  <2>2. ASSUME NEW q \in Process, frame'[q].closing \in Slot
        PROVE  /\ frame'[q].closing \in open_inodes'
               /\ inode'[frame'[q].closing].cnt > 0 => Kept(leaked', frame'[q].closing)
               /\ \A r \in Process : frame'[q].closing = frame'[r].closing
                    => q = r \/ Kept(leaked', frame'[q].closing)
    BY <1>6, <1>9, <1>12, <2>2 DEF RefInv, Closers
  <2> QED
    BY <2>1, <2>2 DEF Closers
<1>17. HeapFree'
  BY <1>6 DEF RefInv, HeapFree
<1>18. Unmade'
  <2>0. s \in open_inodes /\ open_inodes \subseteq Slot
    BY <1>1, <1>3 DEF Makes, FsTypeOK, MemoryTypes
  <2>1. \A t \in Slot \ open_inodes' : inode'[t] = NoInode
    BY <1>6, <1>12, <2>0 DEF RefInv, Unmade
  <2>2. ASSUME NEW t \in open_inodes', inode'[t].sector = 0
        PROVE  \E q \in Process : frame'[q].making = t /\ frame'[q].pc = "setsector"
    <3>1. t # s
      BY <1>2, <1>12, <2>2
    <3>2. PICK q \in Process : frame[q].making = t /\ frame[q].pc = "setsector"
      BY <1>6, <1>12, <2>0, <2>2, <3>1 DEF RefInv, Unmade
    <3> QED
      BY <1>3, <1>9, <3>1, <3>2
  <2>3. ASSUME NEW q \in Process, frame'[q].making \in Slot
        PROVE  Makes(q, frame[q].making)'
    <3>1. PICK m \in Slot : m = frame[q].making /\ m = frame'[q].making
      BY <1>11, <2>3
    <3>2. Makes(q, m)
      BY <3>1 DEF RefInv, Unmade
    <3>3. \A r \in Process : frame'[r].closing # m /\ (frame'[r].making = m => r = q)
      BY <1>9, <1>11, <3>2 DEF Makes
    <3>4. References(m)' = 0 /\ \A i \in DOMAIN heap' : heap'[i] # m
      BY <1>6, <1>10, <3>2 DEF Makes
    <3>5. CASE q = p
      <4>1. m = s /\ frame'[q].pc = "setcount" /\ inode'[m].sector = frame'[q].pick
        BY <1>3, <1>4, <1>9, <1>12, <3>1, <3>5
      <4>2. Makes(q, m)'
        BY <1>6, <2>0, <3>3, <3>4, <4>1 DEF Makes
      <4> QED
        BY <3>1, <4>2
    <3>6. CASE q # p
      <4>1. frame'[q] = frame[q] /\ m # s
        BY <1>3, <1>9, <3>1, <3>2, <3>6 DEF Makes
      <4>2. Makes(q, m)'
        BY <1>6, <1>12, <3>2, <3>3, <3>4, <4>1 DEF Makes
      <4> QED
        BY <3>1, <4>2
    <3> QED
      BY <3>5, <3>6
  <2> QED
    BY <2>1, <2>2, <2>3 DEF Unmade
<1> QED
  BY <1>9, <1>13, <1>14, <1>15, <1>16, <1>17, <1>18 DEF RefInv

LEMMA SetCountStep ==
  ASSUME FsTypeOK, RefInv, NEW p \in Process, SetCount(p)
  PROVE  FsTypeOK' /\ RefInv'
<1>1. frame[p].pc = "setcount" /\ frame[p].pc \in Inserting
  BY DEF SetCount, At, Inserting
<1>2. /\ frame[p] \in Frame /\ Shape(frame[p]) /\ Where(frame[p]) = "setcount"
      /\ frame[p].closing = Nil
  BY <1>1, InInsert
<1>3. PICK s \in Slot : s = frame[p].making /\ Makes(p, s)
  BY <1>1, InInsert
<1> DEFINE g == [frame[p] EXCEPT !.pc = "closelookup", !.pick = 0, !.making = Nil, !.inode = s]
<1>4. /\ g \in Frame /\ g.pc = "closelookup" /\ g.dirs = frame[p].dirs /\ g.call = frame[p].call
      /\ g.closing = Nil /\ g.inode = s /\ g.making = Nil
  <2>1. s \in OptSlot /\ Nil \in OptSlot /\ "closelookup" \in PC \cup {"unlist"}
    BY DEF OptSlot, PC
  <2> QED
    BY <1>2, <2>1, ZeroSector DEF Frame
<1>5. frame' = [frame EXCEPT ![p] = g]
  BY <1>3 DEF SetCount, Resume
<1> HIDE DEF g
<1>6. /\ inode' = [inode EXCEPT ![s].cnt = 1] /\ doubled' = [doubled EXCEPT ![s] = 0]
      /\ UNCHANGED <<open_inodes, heap, pwd, fds, leaked, running>>
      /\ stopped' \in BOOLEAN /\ DiskTypes'
  <2>1. UNCHANGED <<free_map, diskVars, lostVars>>
    BY DEF SetCount
  <2> QED
    BY <1>3, <2>1, DiskSame DEF SetCount, Counts, FsTypeOK, MemoryTypes
<1>7. Where(g) = "closelookup"
  BY <1>4 DEF Where
<1>8. Shape(g)
  BY <1>2, <1>4, <1>7, FileSystemAssumption DEF Shape, Making, Naming, Inserting
<1>9. /\ (\A q \in Process : Shape(frame[q]))' /\ Started' /\ PathsKept'
      /\ \A t \in Slot : /\ References(t) \in Nat
                         /\ References(t)' = References(t) + Is(s, t)
      /\ frame'[p] = g
      /\ \A q \in Process \ {p} : frame'[q] = frame[q]
      /\ \A q \in Process : frame'[q].closing = frame[q].closing
      /\ frame' \in [Process -> Frame]
  BY <1>1, <1>4, <1>5, <1>6, <1>7, <1>8, InsertFrame
<1>10. /\ References(s)' = 1
       /\ \A t \in Slot \ {s} : References(t)' = References(t)
  <2>1. References(s) = 0 /\ Is(s, s) = 1
    BY <1>3 DEF Makes, Is
  <2>2. \A t \in Slot \ {s} : Is(s, t) = 0
    BY DEF Is
  <2> QED
    BY <1>9, <2>1, <2>2
<1>12. /\ inode' \in [Slot -> [sector : FsSector, cnt : Int]]
       /\ inode'[s].cnt = 1
       /\ \A t \in Slot : inode'[t].sector = inode[t].sector
       /\ \A t \in Slot \ {s} : inode'[t] = inode[t] /\ doubled'[t] = doubled[t]
       /\ doubled' \in [Slot -> Nat] /\ doubled'[s] = 0
  <2>1. /\ inode \in [Slot -> [sector : FsSector, cnt : Int]] /\ doubled \in [Slot -> Nat]
        /\ inode' = [inode EXCEPT ![s].cnt = 1] /\ doubled' = [doubled EXCEPT ![s] = 0]
    BY <1>6 DEF FsTypeOK, MemoryTypes
  <2>2. /\ inode' \in [Slot -> [sector : FsSector, cnt : Int]] /\ inode'[s].cnt = 1
        /\ \A t \in Slot : inode'[t].sector = inode[t].sector
        /\ \A t \in Slot \ {s} : inode'[t] = inode[t]
    BY ONLY <2>1
  <2>3. /\ doubled' \in [Slot -> Nat] /\ doubled'[s] = 0
        /\ \A t \in Slot \ {s} : doubled'[t] = doubled[t]
    BY ONLY <2>1
  <2> QED
    BY <2>2, <2>3
<1>13. FsTypeOK'
  BY <1>6, <1>9, <1>12 DEF FsTypeOK, MemoryTypes
<1>0. s \in open_inodes /\ open_inodes \subseteq Slot /\ Nil \notin Slot
  BY <1>1, <1>3, FileSystemAssumption DEF Makes, FsTypeOK, MemoryTypes
<1>14. Counted'
  <2> SUFFICES ASSUME NEW t \in Slot
               PROVE  IF t \in open_inodes'
                      THEN inode'[t].cnt = References(t)' - doubled'[t]
                      ELSE References(t)' = 0 /\ doubled'[t] = 0
    BY DEF Counted
  <2>1. CASE t = s
    BY <1>0, <1>6, <1>10, <1>12, <2>1
  <2>2. CASE t # s
    BY <1>6, <1>10, <1>12, <2>2 DEF RefInv, Counted
  <2> QED
    BY <2>1, <2>2
<1>15. OneEach'
  BY <1>0, <1>6, <1>12 DEF RefInv, OneEach
<1>16. Closers'
  <2>1. ASSUME NEW t \in open_inodes', inode'[t].cnt <= 0
        PROVE  \E q \in Process : t \in {frame'[q].closing, frame'[q].making}
    <3>1. t # s
      BY <1>12, <2>1
    <3>2. t \in open_inodes /\ inode[t].cnt <= 0 /\ t \in Slot
      BY <1>0, <1>6, <1>12, <2>1, <3>1
    <3>3. PICK q \in Process : t \in {frame[q].closing, frame[q].making}
      BY <3>2 DEF RefInv, Closers
    <3> QED
      BY <1>3, <1>9, <3>1, <3>3
  <2>2. ASSUME NEW q \in Process, frame'[q].closing \in Slot
        PROVE  /\ frame'[q].closing \in open_inodes'
               /\ inode'[frame'[q].closing].cnt > 0 => Kept(leaked', frame'[q].closing)
               /\ \A r \in Process : frame'[q].closing = frame'[r].closing
                    => q = r \/ Kept(leaked', frame'[q].closing)
    <3>1. frame[q].closing # s
      BY <1>3 DEF Makes
    <3> QED
      BY <1>6, <1>9, <1>12, <2>2, <3>1 DEF RefInv, Closers
  <2> QED
    BY <2>1, <2>2 DEF Closers
<1>17. HeapFree'
  BY <1>6 DEF RefInv, HeapFree
<1>18. Unmade'
  <2>1. \A t \in Slot \ open_inodes' : inode'[t] = NoInode
    BY <1>0, <1>6, <1>12 DEF RefInv, Unmade
  <2>2. ASSUME NEW t \in open_inodes', inode'[t].sector = 0
        PROVE  \E q \in Process : frame'[q].making = t /\ frame'[q].pc = "setsector"
    <3>1. PICK q \in Process : frame[q].making = t /\ frame[q].pc = "setsector"
      BY <1>0, <1>6, <1>12, <2>2 DEF RefInv, Unmade
    <3> QED
      BY <1>1, <1>9, <3>1
  <2>3. ASSUME NEW q \in Process, frame'[q].making \in Slot
        PROVE  Makes(q, frame[q].making)'
    <3>0. q # p
      BY <1>0, <1>4, <1>9, <2>3
    <3>1. PICK m \in Slot : m = frame[q].making /\ frame'[q] = frame[q]
      BY <1>9, <2>3, <3>0
    <3>2. Makes(q, m) /\ m # s
      BY <1>3, <3>0, <3>1 DEF RefInv, Unmade, Makes
    <3>3. \A r \in Process : frame'[r].closing # m /\ (frame'[r].making = m => r = q)
      BY <1>0, <1>4, <1>9, <3>2 DEF Makes
    <3>4. References(m)' = 0 /\ \A i \in DOMAIN heap' : heap'[i] # m
      BY <1>6, <1>10, <3>2 DEF Makes
    <3>5. Makes(q, m)'
      BY <1>6, <1>12, <3>1, <3>2, <3>3, <3>4 DEF Makes
    <3> QED
      BY <3>1, <3>5
  <2> QED
    BY <2>1, <2>2, <2>3 DEF Unmade
<1> QED
  BY <1>9, <1>13, <1>14, <1>15, <1>16, <1>17, <1>18 DEF RefInv

LEMMA UnlistStep ==
  ASSUME FsTypeOK, RefInv, NEW p \in Process, Unlist(p)
  PROVE  FsTypeOK' /\ (~stopped' => RefInv')
<1>1. frame[p] \in Frame /\ frame[p].pc = "unlist" /\ Shape(frame[p]) /\ running
      /\ pwd[p] \in OptSlot /\ AllKept(leaked, frame[p].dirs)
      /\ (pwd[p] \in Slot <=> Where(frame[p]) # "setpwd")
      /\ (pwd[p] \in Slot => Kept(leaked, pwd[p]))
  BY DEF Unlist, At, FsTypeOK, MemoryTypes, RefInv, Started, PathsKept
<1>2. PICK s \in Slot : s = frame[p].closing
  BY <1>1 DEF Shape
<1>3. s \in open_inodes
  BY <1>2 DEF RefInv, Closers
<1>4. frame[p].next \in PC \ Inserting /\ Where(frame[p]) = frame[p].next /\ frame[p].making = Nil
  BY <1>1 DEF Shape, Where, Inserting
<1> DEFINE g == [frame[p] EXCEPT !.pc = frame[p].next, !.closing = Nil, !.next = Nil]
<1>5. /\ open_inodes' = open_inodes \ {s} /\ inode' = [inode EXCEPT ![s] = NoInode]
      /\ heap' = <<s>> \o heap /\ frame' = [frame EXCEPT ![p] = g]
      /\ doubled' = [doubled EXCEPT ![s] = 0] /\ stopped' \in BOOLEAN
      /\ (~stopped' => ~(References(s) > 0))
      /\ UNCHANGED <<free_map, diskVars, pwd, fds, leaked, running, lostVars>>
  <2>1. stopped' = (References(s) > 0) \/ stopped' = TRUE
    <3>1. stopped' = (References(frame[p].closing) > 0) \/ stopped' = TRUE
      BY DEF Unlist
    <3> QED
      BY ONLY <1>2, <3>1
  <2>2. stopped' \in BOOLEAN /\ (~stopped' => ~(References(s) > 0))
    <3> DEFINE r == References(s) > 0
    <3>1. r \in BOOLEAN
      OBVIOUS
    <3>2. stopped' = r \/ stopped' = TRUE
      BY <2>1
    <3> HIDE DEF r
    <3>3. stopped' \in BOOLEAN /\ (~stopped' => ~r)
      BY ONLY <3>1, <3>2
    <3> QED
      BY <3>3 DEF r
  <2> QED
    BY <1>2, <2>2 DEF Unlist, Resume
<1>6. /\ g \in Frame /\ g.pc = frame[p].next /\ g.closing = Nil /\ g.dirs = frame[p].dirs
      /\ g.inode = frame[p].inode /\ g.call = frame[p].call /\ g.name = frame[p].name
      /\ g.again = frame[p].again /\ g.making = Nil /\ g.pick = frame[p].pick
  <2>1. Nil \in OptSlot /\ frame[p].next \in PC \cup {"unlist"}
    BY <1>4 DEF OptSlot
  <2> QED
    BY <1>1, <1>4, <2>1 DEF Frame
<1> HIDE DEF g
<1>7. Where(g) = Where(frame[p]) /\ g.pc # "unlist" /\ g.pc \notin Inserting
  BY <1>4, <1>6 DEF Where, PC
<1>8. Shape(g)
  BY <1>1, <1>6, <1>7 DEF Shape
<1>9. /\ inode' \in [Slot -> [sector : FsSector, cnt : Int]]
      /\ \A t \in Slot \ {s} : inode'[t] = inode[t] /\ doubled'[t] = doubled[t]
      /\ doubled' \in [Slot -> Nat] /\ doubled'[s] = 0
  <2>1. NoInode \in [sector : FsSector, cnt : Int]
    BY ZeroSector DEF NoInode
  <2> QED
    BY <1>5, <2>1 DEF FsTypeOK, MemoryTypes
<1>10. /\ heap' \in Seq(Slot)
       /\ \A i \in DOMAIN heap' : heap'[i] \notin open_inodes'
       /\ \A i, j \in DOMAIN heap' : heap'[i] = heap'[j] => i = j
  <2>1. /\ heap \in Seq(Slot) /\ \A i \in DOMAIN heap : heap[i] \notin open_inodes
        /\ \A i, j \in DOMAIN heap : heap[i] = heap[j] => i = j
    BY DEF FsTypeOK, MemoryTypes, RefInv, HeapFree
  <2> QED
    BY <1>3, <1>5, <2>1, HeapPush
<1>11. FsTypeOK'
  <2>1. frame' \in [Process -> Frame] /\ open_inodes' \subseteq Slot
    BY <1>5, <1>6 DEF FsTypeOK, MemoryTypes
  <2>2. /\ pwd' \in [Process -> OptSlot] /\ fds' \in [Process -> OptSlot]
        /\ running' \in BOOLEAN /\ leaked' \in [Slot -> Nat]
    BY <1>5 DEF FsTypeOK, MemoryTypes
  <2>3. stopped' \in BOOLEAN
    BY <1>5
  <2>4. DiskTypes'
    BY <1>5, DiskSame
  <2> QED
    BY <1>9, <1>10, <2>1, <2>2, <2>3, <2>4 DEF FsTypeOK, MemoryTypes
<1>12. ASSUME ~stopped' PROVE RefInv'
  <2>1. References(s) = 0 /\ ~Kept(leaked, s)
    <3>1. ~(References(s) > 0)
      BY <1>5, <1>12
    <3>2. References(s) \in Nat
      BY <1>5, <1>6, RefsOf
    <3> QED
      BY <3>1, <3>2, KeptIsReferred
  <2>2. (\A q \in Process : Shape(frame[q]))' /\ Started' /\ PathsKept'
    <3>1. PICK v : v = pwd[p]
      OBVIOUS
    <3>2. /\ running' = running /\ v \in OptSlot /\ pwd' = [pwd EXCEPT ![p] = v]
          /\ v \in Slot <=> Where(g) # "setpwd"
          /\ leaked' \in [Slot -> Nat] /\ (v \in Slot => Kept(leaked', v))
          /\ AllKept(leaked', g.dirs)
      BY <1>1, <1>5, <1>6, <1>7, <3>1 DEF FsTypeOK, MemoryTypes
    <3>3. \A t \in Slot : leaked[t] <= leaked'[t]
      BY <1>5 DEF FsTypeOK, MemoryTypes
    <3> QED
      BY <1>1, <1>5, <1>6, <1>8, <3>2, <3>3, FrameStep
  <2>3. Counted'
    <3> SUFFICES ASSUME NEW t \in Slot
                 PROVE  IF t \in open_inodes'
                        THEN inode'[t].cnt = References(t)' - doubled'[t]
                        ELSE References(t)' = 0 /\ doubled'[t] = 0
      BY DEF Counted
    <3>1. References(t) \in Nat /\ References(t)' = References(t) + Uses(g, t) - Uses(frame[p], t)
      BY <1>5, <1>6, RefsOf
    <3>2. Uses(g, t) = Uses(frame[p], t) /\ Uses(frame[p], t) \in Nat
      BY <1>1, <1>6, UsesOf DEF Uses, Dirs
    <3>3. References(t)' = References(t)
      BY ONLY <3>1, <3>2
    <3>4. CASE t = s
      BY <1>5, <1>9, <2>1, <3>3, <3>4
    <3>5. CASE t # s
      <4>1. inode'[t] = inode[t] /\ doubled'[t] = doubled[t]
            /\ (t \in open_inodes' <=> t \in open_inodes)
        BY <1>5, <1>9, <3>5
      <4>2. IF t \in open_inodes THEN inode[t].cnt = References(t) - doubled[t]
                                 ELSE References(t) = 0 /\ doubled[t] = 0
        BY DEF RefInv, Counted
      <4> QED
        BY <3>3, <4>1, <4>2
    <3> QED
      BY <3>4, <3>5
  <2>4. OneEach'
    <3>1. open_inodes \subseteq Slot
      BY DEF FsTypeOK, MemoryTypes
    <3> QED
      BY <1>5, <1>9, <3>1 DEF RefInv, OneEach
  <2>5. Closers'
    <3>1. /\ frame'[p].closing = Nil
          /\ \A q \in Process \ {p} : frame'[q].closing = frame[q].closing
      BY <1>5, <1>6 DEF FsTypeOK, MemoryTypes
    <3>2. open_inodes \subseteq Slot /\ leaked' = leaked /\ Nil \notin Slot
      BY <1>5, FileSystemAssumption DEF FsTypeOK, MemoryTypes
    <3>3. ASSUME NEW t \in open_inodes', inode'[t].cnt <= 0
          PROVE  \E q \in Process : t \in {frame'[q].closing, frame'[q].making}
      <4>1. t \in open_inodes /\ t # s /\ inode[t].cnt <= 0
        BY <1>5, <1>9, <3>2, <3>3
      <4>2. PICK q \in Process : t \in {frame[q].closing, frame[q].making}
        BY <4>1 DEF RefInv, Closers
      <4>3. q # p
        BY <1>2, <1>4, <3>2, <4>1, <4>2
      <4>4. frame'[q] = frame[q]
        BY <1>5, <4>3 DEF FsTypeOK, MemoryTypes
      <4> QED
        BY <4>2, <4>4
    <3>4. ASSUME NEW q \in Process, frame'[q].closing \in Slot
          PROVE  /\ frame'[q].closing \in open_inodes'
                 /\ inode'[frame'[q].closing].cnt > 0 => Kept(leaked', frame'[q].closing)
                 /\ \A r \in Process : frame'[q].closing = frame'[r].closing
                      => q = r \/ Kept(leaked', frame'[q].closing)
      <4>1. q # p
        BY <3>1, <3>2, <3>4
      <4>2. PICK t \in Slot : t = frame[q].closing /\ t = frame'[q].closing
        BY <3>1, <3>4, <4>1
      <4>3. t \in open_inodes /\ (inode[t].cnt > 0 => Kept(leaked, t))
        BY <4>2 DEF RefInv, Closers
      <4>4. \A r \in Process : frame[r].closing = t => q = r \/ Kept(leaked, t)
        BY <4>2 DEF RefInv, Closers
      <4>5. t # s
        BY <1>2, <2>1, <4>1, <4>4
      <4>6. inode'[t] = inode[t] /\ t \in open_inodes'
        BY <1>5, <1>9, <4>3, <4>5
      <4>7. \A r \in Process : frame'[r].closing = t => q = r \/ Kept(leaked', t)
        BY <3>1, <3>2, <4>4
      <4> QED
        BY <3>2, <4>2, <4>3, <4>6, <4>7
    <3> QED
      BY <3>3, <3>4 DEF Closers
  <2>6. HeapFree'
    BY <1>10 DEF HeapFree
  <2>7. Unmade'
    <3>1. /\ frame'[p] = g /\ \A q \in Process \ {p} : frame'[q] = frame[q]
          /\ open_inodes \subseteq Slot /\ Nil \notin Slot
      BY <1>5, FileSystemAssumption DEF FsTypeOK, MemoryTypes
    <3>2. \A t \in Slot \ open_inodes' : inode'[t] = NoInode
      BY <1>5, <1>9, <3>1 DEF RefInv, Unmade, FsTypeOK, MemoryTypes
    <3>3. ASSUME NEW t \in open_inodes', inode'[t].sector = 0
          PROVE  \E q \in Process : frame'[q].making = t /\ frame'[q].pc = "setsector"
      <4>1. t \in open_inodes /\ t # s /\ inode[t].sector = 0
        BY <1>5, <1>9, <3>1, <3>3
      <4>2. PICK q \in Process : frame[q].making = t /\ frame[q].pc = "setsector"
        BY <4>1 DEF RefInv, Unmade
      <4> QED
        BY <1>1, <3>1, <4>2
    <3>4. ASSUME NEW q \in Process, frame'[q].making \in Slot
          PROVE  Makes(q, frame[q].making)'
      <4>1. q # p
        BY <1>6, <3>1, <3>4
      <4>2. PICK m \in Slot : m = frame[q].making /\ frame'[q] = frame[q]
        BY <3>1, <3>4, <4>1
      <4>3. Makes(q, m) /\ m # s
        BY <1>2, <4>2 DEF RefInv, Unmade, Makes
      <4>4. \A r \in Process : frame'[r].closing # m /\ (frame'[r].making = m => r = q)
        BY <1>6, <3>1, <4>3 DEF Makes
      <4>5. References(m)' = 0
        <5>1. References(m) \in Nat /\ References(m)' = References(m) + Uses(g, m) - Uses(frame[p], m)
          BY <1>5, <1>6, RefsOf
        <5>2. Uses(g, m) = Uses(frame[p], m) /\ Uses(frame[p], m) \in Nat /\ References(m) = 0
          BY <1>1, <1>6, <4>3, UsesOf DEF Uses, Dirs, Makes
        <5> QED
          BY ONLY <5>1, <5>2
      <4>6. \A i \in DOMAIN heap' : heap'[i] # m
        <5>1. PICK h \in Seq(Slot) : h = heap
          BY DEF FsTypeOK, MemoryTypes
        <5>2. \A i \in DOMAIN h : h[i] # m
          BY <4>3, <5>1 DEF Makes
        <5>3. \A i \in DOMAIN (<<s>> \o h) : (<<s>> \o h)[i] # m
          BY <4>3, <5>2
        <5> QED
          BY <1>5, <5>1, <5>3
      <4>7. Makes(q, m)'
        BY <1>5, <1>9, <4>2, <4>3, <4>4, <4>5, <4>6 DEF Makes
      <4> QED
        BY <4>2, <4>7
    <3> QED
      BY <3>2, <3>3, <3>4 DEF Unmade
  <2> QED
    BY <2>2, <2>3, <2>4, <2>5, <2>6, <2>7 DEF RefInv
<1> QED
  BY <1>11, <1>12

(* Each process gets the root directory to work in. *)
LEMMA PwdRefs ==
  ASSUME FsTypeOK, NEW s \in Slot
  PROVE  \E n \in Nat : /\ References(s) = Cardinality(Members(pwd, s)) + n
                        /\ UNCHANGED <<fds, frame, leaked>> =>
                             References(s)' = Cardinality(Members(pwd', s)) + n
<1> DEFINE I == [p \in Process |-> frame[p].inode]
<1>1. IsFiniteSet(Process) /\ leaked[s] \in Nat
  BY FileSystemAssumption DEF FsTypeOK, MemoryTypes
<1>2. /\ Cardinality(Members(pwd, s)) \in Nat /\ Cardinality(Members(pwd', s)) \in Nat
      /\ Cardinality(Members(fds, s)) \in Nat /\ Cardinality(Members(I, s)) \in Nat
  BY <1>1, FS_Subset, FS_CardinalityType DEF Members
<1>3. Cardinality(DirPairs(frame, Process, s)) \in Nat
  <2>0. \A q \in Process : frame[q].dirs \in Seq(Slot)
    BY DEF FsTypeOK, MemoryTypes, Frame
  <2>1. CASE Process = {}
    <3>1. DirPairs(frame, Process, s) = {}
      BY <2>1 DEF DirPairs
    <3> QED
      BY <3>1, FS_EmptySet
  <2>2. ASSUME NEW p \in Process PROVE Cardinality(DirPairs(frame, Process, s)) \in Nat
    BY <2>0, PairsChange DEF OnlyAt
  <2> QED
    BY <2>1, <2>2
<1>4. References(s) = Refs(pwd, fds, frame, leaked, s)
  BY DEF References, Refs, DirPairs, Dirs, Members
<1>5. ASSUME UNCHANGED <<fds, frame, leaked>>
      PROVE  References(s)' = Refs(pwd', fds, frame, leaked, s)
  <2>1. References(s)' = Refs(pwd', fds', frame', leaked', s)
    BY DEF References, Refs, DirPairs, Dirs, Members
  <2> QED
    BY <1>5, <2>1
<1> DEFINE n == Cardinality(Members(fds, s)) + Cardinality(Members(I, s))
                + Cardinality(DirPairs(frame, Process, s)) + leaked[s] + (IF s = 1 THEN 1 ELSE 0)
<1>6. n \in Nat
  <2> HIDE DEF I
  <2> QED
    BY <1>1, <1>2, <1>3
<1>7. /\ Refs(pwd, fds, frame, leaked, s) = Cardinality(Members(pwd, s)) + n
      /\ Refs(pwd', fds, frame, leaked, s) = Cardinality(Members(pwd', s)) + n
  <2>1. /\ Refs(pwd, fds, frame, leaked, s)
           = Cardinality(Members(pwd, s)) + Cardinality(Members(fds, s)) + Cardinality(Members(I, s))
             + Cardinality(DirPairs(frame, Process, s)) + leaked[s] + (IF s = 1 THEN 1 ELSE 0)
        /\ Refs(pwd', fds, frame, leaked, s)
           = Cardinality(Members(pwd', s)) + Cardinality(Members(fds, s)) + Cardinality(Members(I, s))
             + Cardinality(DirPairs(frame, Process, s)) + leaked[s] + (IF s = 1 THEN 1 ELSE 0)
    BY DEF Refs
  <2> HIDE DEF I
  <2> QED
    BY ONLY <1>1, <1>2, <1>3, <2>1
<1> HIDE DEF n
<1> QED
  BY <1>4, <1>5, <1>6, <1>7

LEMMA RunStep ==
  ASSUME FsTypeOK, RefInv, Run
  PROVE  FsTypeOK' /\ RefInv'
<1>1. /\ ~running /\ running' /\ pwd' = [p \in Process |-> 1]
      /\ inode' = [inode EXCEPT ![1].cnt = inode[1].cnt + Cardinality(Process)]
      /\ UNCHANGED <<free_map, diskVars, open_inodes, heap, fds, leaked, doubled, frame, lostVars,
                     stopped>>
  BY DEF Run
<1>2. 1 \in Slot /\ Nil \notin Slot /\ Cardinality(Process) \in Nat
  BY FileSystemAssumption, FS_CardinalityType DEF Slot
<1>3. 1 \in open_inodes
  BY <1>2, KeptOpen DEF Kept
<1>4. /\ inode' \in [Slot -> [sector : FsSector, cnt : Int]]
      /\ \A s \in Slot : /\ inode[s].cnt \in Int /\ inode'[s].sector = inode[s].sector
                         /\ inode'[s].cnt = inode[s].cnt + IF s = 1 THEN Cardinality(Process) ELSE 0
  <2>1. inode \in [Slot -> [sector : FsSector, cnt : Int]]
    BY DEF FsTypeOK, MemoryTypes
  <2>2. PICK n \in Nat : n = Cardinality(Process)
    BY <1>2
  <2>3. inode' = [inode EXCEPT ![1].cnt = inode[1].cnt + n]
    BY <1>1, <2>2
  <2>4. \A s \in Slot : /\ inode[s].cnt \in Int /\ inode'[s].sector = inode[s].sector
                        /\ inode'[s].cnt = inode[s].cnt + IF s = 1 THEN n ELSE 0
    BY ONLY <1>2, <2>1, <2>3
  <2>5. inode' \in [Slot -> [sector : FsSector, cnt : Int]]
    BY ONLY <1>2, <2>1, <2>3
  <2> QED
    BY <2>2, <2>4, <2>5
<1>5. FsTypeOK'
  <2>1. DiskTypes'
    BY <1>1, DiskSame
  <2>2. pwd' \in [Process -> OptSlot]
    BY <1>1, <1>2 DEF OptSlot
  <2> QED
    BY <1>1, <1>4, <2>1, <2>2 DEF FsTypeOK, MemoryTypes
<1>6. \A p \in Process : frame[p].pc = "outside" /\ pwd[p] = Nil /\ Shape(frame[p])
                         /\ frame[p].closing = Nil /\ frame[p].making = Nil /\ pwd'[p] = 1
  BY <1>1 DEF RefInv, Started, Shape, Inserting
<1>7. (\A p \in Process : Shape(frame[p]))' /\ Started' /\ PathsKept'
  <2>1. \A p \in Process : Where(frame'[p]) = "outside"
    BY <1>1, <1>6 DEF Where
  <2> QED
    BY <1>1, <1>2, <1>6, <2>1 DEF RefInv, Started, PathsKept, Kept
<1>8. Counted'
  <2> SUFFICES ASSUME NEW s \in Slot
               PROVE  IF s \in open_inodes'
                      THEN inode'[s].cnt = References(s)' - doubled'[s]
                      ELSE References(s)' = 0 /\ doubled'[s] = 0
    BY DEF Counted
  <2>1. PICK n \in Nat : /\ References(s) = Cardinality(Members(pwd, s)) + n
                         /\ References(s)' = Cardinality(Members(pwd', s)) + n
    BY <1>1, PwdRefs
  <2>2. Members(pwd, s) = {} /\ Members(pwd', s) = IF s = 1 THEN Process ELSE {}
    BY <1>2, <1>6 DEF Members
  <2>3. /\ Cardinality(Members(pwd, s)) = 0
        /\ Cardinality(Members(pwd', s)) = IF s = 1 THEN Cardinality(Process) ELSE 0
    BY <2>2, FS_EmptySet
  <2>4. References(s)' = References(s) + (IF s = 1 THEN Cardinality(Process) ELSE 0)
        /\ References(s) \in Nat
    BY ONLY <1>2, <2>1, <2>3
  <2>5. IF s \in open_inodes THEN inode[s].cnt = References(s) - doubled[s]
                             ELSE References(s) = 0 /\ doubled[s] = 0
    BY DEF RefInv, Counted
  <2>6. doubled'[s] = doubled[s] /\ doubled[s] \in Nat /\ open_inodes' = open_inodes
    BY <1>1 DEF FsTypeOK, MemoryTypes
  <2>7. inode[s].cnt \in Int /\ inode'[s].cnt = inode[s].cnt + IF s = 1 THEN Cardinality(Process) ELSE 0
    BY <1>4
  <2>8. s \notin open_inodes => s # 1
    BY <1>3
  <2> QED
    BY ONLY <1>2, <2>4, <2>5, <2>6, <2>7, <2>8
<1>9. OneEach' /\ HeapFree' /\ Closers'
  <2>1. open_inodes \subseteq Slot
    BY DEF FsTypeOK, MemoryTypes
  <2>2. OneEach' /\ HeapFree'
    BY <1>1, <1>4, <2>1 DEF RefInv, OneEach, HeapFree
  <2>3. ASSUME NEW s \in open_inodes', inode'[s].cnt <= 0 PROVE FALSE
    <3>1. s \in open_inodes /\ inode[s].cnt <= 0
      <4>1. /\ s \in open_inodes /\ inode[s].cnt \in Int
            /\ inode'[s].cnt = inode[s].cnt + IF s = 1 THEN Cardinality(Process) ELSE 0
        BY <1>1, <1>4, <2>1
      <4> QED
        BY ONLY <1>2, <2>3, <4>1
    <3>2. PICK q \in Process : s \in {frame[q].closing, frame[q].making}
      BY <3>1 DEF RefInv, Closers
    <3> QED
      BY <1>2, <1>6, <2>1, <3>1, <3>2
  <2>4. \A q \in Process : frame'[q].closing \notin Slot
    BY <1>1, <1>2, <1>6
  <2> QED
    BY <2>2, <2>3, <2>4 DEF Closers
<1>10. Unmade'
  <2>1. open_inodes \subseteq Slot
    BY DEF FsTypeOK, MemoryTypes
  <2>2. \A q \in Process : frame'[q].making \notin Slot
    BY <1>1, <1>2, <1>6
  <2>3. \A s \in Slot \ open_inodes' : inode'[s] = NoInode
    BY <1>1, <1>3 DEF RefInv, Unmade, FsTypeOK, MemoryTypes
  <2>4. \A s \in open_inodes' : inode'[s].sector = 0 =>
          \E q \in Process : frame'[q].making = s /\ frame'[q].pc = "setsector"
    BY <1>1, <1>4, <2>1 DEF RefInv, Unmade
  <2> QED
    BY <2>2, <2>3, <2>4 DEF Unmade
<1> QED
  BY <1>5, <1>7, <1>8, <1>9, <1>10 DEF RefInv

-----------------------------------------------------------------------------
(* Boot.                                                                   *)

(* A step that leaves inodes and calls alone. *)
LEMMA Untouched ==
  ASSUME FsTypeOK, RefInv, UNCHANGED <<memoryVars, holdVars, frame, running>>,
         stopped' \in BOOLEAN, DiskTypes'
  PROVE  FsTypeOK' /\ RefInv'
<1>1. UNCHANGED <<inode, open_inodes, heap, pwd, fds, leaked, doubled, frame, running>>
  BY DEF memoryVars, holdVars
<1>2. FsTypeOK'
  BY <1>1 DEF FsTypeOK, MemoryTypes
<1>3. \A s : References(s)' = References(s)
  BY <1>1 DEF References
<1>4. Counted'
  BY <1>1, <1>3 DEF RefInv, Counted
<1>5. /\ (\A q \in Process : Shape(frame[q]))' /\ Started' /\ PathsKept'
      /\ OneEach' /\ Closers' /\ HeapFree'
  BY <1>1 DEF RefInv, Started, PathsKept, OneEach, Closers, HeapFree
<1>6. Unmade'
  BY <1>1, <1>3 DEF RefInv, Unmade, Makes
<1> QED
  BY <1>2, <1>4, <1>5, <1>6 DEF RefInv

LEMMA UnusedFinite ==
  /\ IsFiniteSet(Unused) /\ Unused \in SUBSET Nat
  /\ Cardinality(Unused) >= 2 => Unused # {} /\ Unused \ {Lowest(Unused)} # {}
<1>1. IsFiniteSet(0 .. FsSectors - 1)
  BY FileSystemAssumption, FS_Interval
<1>2. IsFiniteSet(Unused) /\ Unused \in SUBSET Nat
  BY <1>1, FS_Subset, FileSystemAssumption DEF Unused, FsSector
<1>3. Cardinality({}) = 0 /\ \A x : Cardinality({x}) = 1
  BY FS_EmptySet, FS_Singleton
<1>4. ASSUME Unused = {} \/ Unused \ {Lowest(Unused)} = {} PROVE ~(Cardinality(Unused) >= 2)
  <2>1. Unused = {} \/ Unused = {Lowest(Unused)}
    BY <1>4
  <2>2. Cardinality(Unused) = 0 \/ Cardinality(Unused) = 1
    BY <1>3, <2>1
  <2> QED
    BY <2>2
<1> QED
  BY <1>2, <1>4

(* A directory entry and a whole block are written. *)
LEMMA EntriesTypes ==
  ASSUME NEW E \in [FsSector -> [EntryName -> FsSector]], NEW b, NEW n, NEW x \in FsSector, NEW c
  PROVE  [E EXCEPT ![b][n] = x, ![c] = NoEntries] \in [FsSector -> [EntryName -> FsSector]]
<1>1. NoEntries \in [EntryName -> FsSector]
  BY ZeroSector DEF NoEntries
<1>2. [E EXCEPT ![b][n] = x] \in [FsSector -> [EntryName -> FsSector]]
  OBVIOUS
<1> DEFINE D == [E EXCEPT ![b][n] = x]
<1>3. [D EXCEPT ![c] = NoEntries] \in [FsSector -> [EntryName -> FsSector]]
  <2> HIDE DEF D
  <2>1. D \in [FsSector -> [EntryName -> FsSector]]
    BY <1>2 DEF D
  <2> QED
    BY <1>1, <2>1
<1> QED
  BY <1>3

LEMMA ExtractStep ==
  ASSUME FsTypeOK, RefInv, NEW name \in Name, Extract(name)
  PROVE  FsTypeOK' /\ RefInv'
<1>1. UNCHANGED <<memoryVars, holdVars, frame, running, lostVars>>
  BY DEF Extract
<1>2. CASE stopped' = TRUE /\ UNCHANGED <<free_map, diskVars>>
  BY <1>1, <1>2, DiskSame, Untouched
<1> DEFINE sector == Lowest(Unused)
           block == Lowest(Unused \ {sector})
<1>3. CASE /\ ~(Cardinality(Unused) < 2)
           /\ free_map' = free_map \cup {sector, block}
           /\ diskMap' = free_map'
           /\ node' = [node EXCEPT ![sector] = [type |-> "file", block |-> block]]
           /\ entries' = [entries EXCEPT ![node[RootSector].block][name] = sector,
                                         ![block] = NoEntries]
           /\ UNCHANGED stopped
  <2>1. Unused # {} /\ Unused \ {sector} # {}
    <3>1. Cardinality(Unused) \in Nat
      BY UnusedFinite, FS_CardinalityType
    <3>2. Cardinality(Unused) >= 2
      BY <1>3, <3>1
    <3> QED
      BY <3>2, UnusedFinite
  <2>2. sector \in FsSector /\ block \in FsSector
    <3>1. Unused \in SUBSET Nat /\ Unused \ {sector} \in SUBSET Nat
      BY UnusedFinite
    <3>2. sector \in Unused
      BY <2>1, <3>1, LowestIsLeast
    <3>3. block \in Unused \ {sector}
      <4> HIDE DEF sector
      <4> QED
        BY <2>1, <3>1, LowestIsLeast
    <3> QED
      BY <3>2, <3>3 DEF Unused
  <2> HIDE DEF sector, block
  <2>3. free_map' \subseteq FsSector /\ diskMap' \subseteq FsSector
        /\ lost' \subseteq FsSector /\ stale' \subseteq FsSector
    BY <1>1, <1>3, <2>2 DEF FsTypeOK, DiskTypes, lostVars
  <2>4. node' \in [FsSector -> [type : {"none", "file", "dir"}, block : FsSector]]
    BY <1>3, <2>2 DEF FsTypeOK, DiskTypes
  <2>5. entries' \in [FsSector -> [EntryName -> FsSector]]
    <3>1. PICK b : b = node[RootSector].block
      OBVIOUS
    <3>2. entries' = [entries EXCEPT ![b][name] = sector, ![block] = NoEntries]
      BY <1>3, <3>1
    <3>3. entries \in [FsSector -> [EntryName -> FsSector]]
      BY DEF FsTypeOK, DiskTypes
    <3> QED
      BY ONLY <2>2, <3>2, <3>3, EntriesTypes
  <2>6. stopped' \in BOOLEAN
    BY <1>3 DEF FsTypeOK, MemoryTypes
  <2> QED
    BY <1>1, <2>3, <2>4, <2>5, <2>6, Untouched DEF DiskTypes
<1> QED
  BY <1>2, <1>3 DEF Extract

LEMMA RemoveStep ==
  ASSUME FsTypeOK, RefInv, NEW name \in Name, Remove(name)
  PROVE  FsTypeOK' /\ RefInv'
<1> PICK b, sector, block : /\ b = node[RootSector].block /\ sector = Entry(RootSector, name)
                            /\ block = node[sector].block
  OBVIOUS
<1>1. /\ entries' = [entries EXCEPT ![b][name] = 0, ![block] = NoEntries]
      /\ node' = [node EXCEPT ![sector] = NoNode]
      /\ \/ free_map' = free_map \ {sector, block} /\ UNCHANGED lost
         \/ lost' = lost \cup {sector, block} /\ UNCHANGED free_map
      /\ diskMap' = free_map'
      /\ UNCHANGED <<memoryVars, holdVars, frame, running, stale, stopped>>
  BY DEF Remove
<1>2. sector \in FsSector /\ block \in FsSector
  <2>1. b \in FsSector /\ name \in EntryName
    BY ZeroSector DEF FsTypeOK, DiskTypes, EntryName
  <2>2. sector \in FsSector
    BY <2>1 DEF Entry, FsTypeOK, DiskTypes
  <2> QED
    BY <2>2 DEF FsTypeOK, DiskTypes
<1>3. DiskTypes'
  <2>1. entries' \in [FsSector -> [EntryName -> FsSector]]
    <3>1. entries \in [FsSector -> [EntryName -> FsSector]]
      BY DEF FsTypeOK, DiskTypes
    <3> QED
      BY ONLY <1>1, <3>1, ZeroSector, EntriesTypes
  <2>2. NoNode \in [type : {"none", "file", "dir"}, block : FsSector]
    BY ZeroSector DEF NoNode
  <2>3. node' \in [FsSector -> [type : {"none", "file", "dir"}, block : FsSector]]
    BY <1>1, <2>2 DEF FsTypeOK, DiskTypes
  <2>4. free_map' \subseteq FsSector /\ diskMap' \subseteq FsSector /\ lost' \subseteq FsSector
        /\ stale' \subseteq FsSector
    BY <1>1, <1>2 DEF FsTypeOK, DiskTypes
  <2> QED
    BY <2>1, <2>3, <2>4 DEF DiskTypes
<1>4. stopped' \in BOOLEAN
  BY <1>1 DEF FsTypeOK, MemoryTypes
<1> QED
  BY <1>1, <1>3, <1>4, Untouched

LEMMA NotOpenedStep ==
  ASSUME FsTypeOK, RefInv, NEW p \in Process, NotOpened(p)
  PROVE  FsTypeOK' /\ RefInv'
<1>1. stopped' = TRUE /\ UNCHANGED <<free_map, diskVars, memoryVars, holdVars, frame, running, lostVars>>
  BY DEF NotOpened
<1> QED
  BY <1>1, DiskSame, Untouched

(* The memory of a machine that has just been started. *)
Fresh ==
  /\ inode = [s \in Slot |-> IF s = 1 THEN [sector |-> RootSector, cnt |-> 1] ELSE NoInode]
  /\ open_inodes = {1}
  /\ heap = [i \in 1 .. InodeSlots - 1 |-> i + 1]
  /\ pwd = [p \in Process |-> Nil]
  /\ fds = [p \in Process |-> Nil]
  /\ frame = [p \in Process |-> Outside]
  /\ leaked = [s \in Slot |-> 0] /\ doubled = [s \in Slot |-> 0]
  /\ running = FALSE

FreshSound == Fresh /\ stopped \in BOOLEAN => MemoryTypes /\ RefInv

LEMMA FreshInv == FreshSound
<1> SUFFICES ASSUME Fresh, stopped \in BOOLEAN PROVE MemoryTypes /\ RefInv
  BY DEF FreshSound
<1>1. Outside \in Frame /\ Shape(Outside) /\ Where(Outside) = "outside"
      /\ Outside.closing = Nil /\ Outside.dirs = << >> /\ Outside.inode = Nil
      /\ Outside.pc = "outside" /\ Outside.making = Nil
  BY OutsideShape DEF Where, Outside
<1>2. 1 \in Slot /\ Nil \notin Slot /\ Nil \in OptSlot
  BY FileSystemAssumption DEF Slot, OptSlot
<1>3. NoInode \in [sector : FsSector, cnt : Int]
      /\ [sector |-> RootSector, cnt |-> 1] \in [sector : FsSector, cnt : Int]
  BY ZeroSector DEF NoInode
<1>4. heap \in Seq(Slot) /\ HeapFree
  <2>1. InodeSlots - 1 \in Nat
    BY FileSystemAssumption
  <2>2. \A i \in 1 .. InodeSlots - 1 : i + 1 \in Slot /\ i + 1 # 1 /\ i \in Int
    BY FileSystemAssumption DEF Slot
  <2>3. heap \in Seq(Slot)
    BY <2>1, <2>2 DEF Fresh
  <2>4. DOMAIN heap = 1 .. InodeSlots - 1 /\ \A i \in 1 .. InodeSlots - 1 : heap[i] = i + 1
    BY DEF Fresh
  <2>5. \A i, j \in 1 .. InodeSlots - 1 : i + 1 = j + 1 => i = j
    BY <2>2
  <2> QED
    BY <2>2, <2>3, <2>4, <2>5 DEF Fresh, HeapFree
<1>5. MemoryTypes
  BY <1>1, <1>2, <1>3, <1>4 DEF Fresh, MemoryTypes
<1>6. \A p \in Process : frame[p] = Outside /\ pwd[p] = Nil /\ fds[p] = Nil
  BY DEF Fresh
<1>7. (\A p \in Process : Shape(frame[p])) /\ Started /\ PathsKept
  <2>1. \A p \in Process : AllKept(leaked, frame[p].dirs)
    BY <1>1, <1>6 DEF AllKept
  <2> QED
    BY <1>1, <1>2, <1>6, <2>1 DEF Started, PathsKept, Fresh
<1>8. ASSUME NEW s \in Slot PROVE References(s) = IF s = 1 THEN 1 ELSE 0
  <2> DEFINE I == [p \in Process |-> frame[p].inode]
  <2>1. /\ Members(pwd, s) = {} /\ Members(fds, s) = {}
        /\ Members(I, s) = {}
    BY <1>1, <1>2, <1>6 DEF Members
  <2>2. DirPairs(frame, Process, s) = {}
    BY <1>1, <1>6 DEF DirPairs, Dirs
  <2>3. leaked[s] = 0 /\ Cardinality({}) = 0
    BY FS_EmptySet DEF Fresh
  <2>4. References(s) = Cardinality(Members(pwd, s)) + Cardinality(Members(fds, s))
          + Cardinality(Members(I, s)) + Cardinality(DirPairs(frame, Process, s))
          + leaked[s] + (IF s = 1 THEN 1 ELSE 0)
    BY RefsIs DEF Refs
  <2> HIDE DEF I
  <2> QED
    BY ONLY <2>1, <2>2, <2>3, <2>4
<1>9. Counted
  BY <1>2, <1>8 DEF Counted, Fresh
<1>10. OneEach /\ Closers
  <2>1. inode[1].cnt = 1 /\ open_inodes = {1}
    BY <1>2 DEF Fresh
  <2> QED
    BY <1>1, <1>2, <1>6, <2>1 DEF OneEach, Closers
<1>11. Unmade
  <2>1. inode[1].sector = RootSector /\ RootSector # 0 /\ open_inodes = {1}
    BY <1>2 DEF Fresh, RootSector
  <2>2. \A s \in Slot \ {1} : inode[s] = NoInode
    BY DEF Fresh
  <2> QED
    BY <1>1, <1>2, <1>6, <2>1, <2>2 DEF Unmade
<1> QED
  BY <1>4, <1>5, <1>7, <1>9, <1>10, <1>11 DEF RefInv

LEMMA InitFresh == FsInit => FsInv
<1> SUFFICES ASSUME FsInit PROVE FsTypeOK /\ RefInv
  BY DEF FsInv
<1>1. Fresh /\ stopped \in BOOLEAN
  BY DEF FsInit, Fresh
<1>2. DiskTypes
  <2>1. Reserved \subseteq FsSector
    BY FileSystemAssumption DEF Reserved, FsSector
  <2>2. NoNode \in [type : {"none", "file", "dir"}, block : FsSector]
        /\ [type |-> "dir", block |-> 3] \in [type : {"none", "file", "dir"}, block : FsSector]
    BY ZeroSector DEF NoNode
  <2>3. NoEntries \in [EntryName -> FsSector]
        /\ [NoEntries EXCEPT !["."] = RootSector, ![".."] = RootSector] \in [EntryName -> FsSector]
    BY ZeroSector DEF NoEntries
  <2> QED
    BY <2>1, <2>2, <2>3 DEF FsInit, DiskTypes
<1> QED
  BY <1>1, <1>2, FreshInv DEF FreshSound, FsTypeOK

LEMMA RebootFresh ==
  ASSUME FsTypeOK, Reboot
  PROVE  Fresh' /\ stopped' \in BOOLEAN /\ DiskTypes'
<1>1. frame' = [p \in Process |-> Outside]
  BY DEF Reboot, FsTypeOK, MemoryTypes
<1>2. DiskTypes'
  BY DEF Reboot, diskVars, FsTypeOK, DiskTypes
<1> QED
  BY <1>1, <1>2 DEF Reboot, Fresh, FsTypeOK, MemoryTypes

-----------------------------------------------------------------------------
LEMMA FsInvStep == FsInv /\ [FsNext]_fsVars /\ FreshSound' => FsInv'
<1> SUFFICES ASSUME FsInv, [FsNext]_fsVars, FreshSound'
             PROVE  FsTypeOK' /\ (~stopped' => RefInv')
  BY DEF FsInv
<1>1. CASE UNCHANGED fsVars
  <2>1. UNCHANGED <<memoryVars, holdVars, frame, running>> /\ UNCHANGED <<free_map, diskVars, lostVars>>
        /\ stopped' = stopped
    BY <1>1 DEF fsVars
  <2>2. CASE stopped
    BY <2>1, <2>2 DEF FsInv, FsTypeOK, DiskTypes, MemoryTypes, memoryVars, holdVars, diskVars, lostVars
  <2>3. CASE ~stopped
    <3>1. FsTypeOK /\ RefInv /\ stopped' \in BOOLEAN
      BY <2>1, <2>3 DEF FsInv, FsTypeOK, MemoryTypes
    <3>2. DiskTypes'
      BY <2>1, <3>1, DiskSame
    <3> QED
      BY <2>1, <3>1, <3>2, Untouched
  <2> QED
    BY <2>2, <2>3
<1>2. CASE FsNext
  <2>1. FsTypeOK /\ RefInv
    BY <1>2 DEF FsNext, FsInv
  <2>2. CASE Run
    BY <2>1, <2>2, RunStep
  <2>3. CASE Reboot
    BY <2>1, <2>3, RebootFresh DEF FreshSound, FsTypeOK
  <2>4. ASSUME NEW name \in Name, Extract(name) \/ Remove(name) PROVE FsTypeOK' /\ RefInv'
    BY <2>1, <2>4, ExtractStep, RemoveStep
  <2>5. ASSUME NEW p \in Process, Continue(p) PROVE FsTypeOK' /\ (~stopped' => RefInv')
    <3>1. CASE ScanFreeMap(p) \/ FlipBit(p) \/ ReleaseSector(p) \/ LoadByte(p) \/ StoreByte(p)
      BY <2>1, <3>1, ScanFreeMapStep, FlipBitStep, ReleaseSectorStep, LoadByteStep,
         StoreByteStep
    <3>2. CASE MakeInode(p) \/ AddName(p) \/ AddDot(p) \/ AddParent(p)
      BY <2>1, <3>2, MakeInodeStep, AddNameStep, AddDotStep, AddParentStep
    <3>3. CASE CloseMade(p) \/ CloseAgain(p) \/ CloseDir(p) \/ Unlist(p)
      BY <2>1, <3>3, CloseMadeStep, CloseAgainStep, CloseDirStep, UnlistStep
    <3>4. CASE Lookup(p) \/ CloseLookup(p) \/ NotOpened(p)
      BY <2>1, <3>4, LookupStep, CloseLookupStep, NotOpenedStep
    <3>6. CASE Allocate(p) \/ Link(p) \/ SetSector(p) \/ SetCount(p)
      BY <2>1, <3>6, AllocateStep, LinkStep, SetSectorStep, SetCountStep
    <3>5. CASE KeepFile(p) \/ CloseFile(p) \/ LeavePwd(p) \/ SetPwd(p)
      BY <2>1, <3>5, KeepFileStep, CloseFileStep, LeavePwdStep, SetPwdStep
    <3> QED
      BY <2>5, <3>1, <3>2, <3>3, <3>4, <3>5, <3>6 DEF Continue
  <2>6. ASSUME NEW p \in Process, NEW absolute \in BOOLEAN, NEW name \in EntryName,
               NEW call \in {"mkdir", "open", "chdir"}, Begin(p, call, name, absolute)
        PROVE  FsTypeOK' /\ (~stopped' => RefInv')
    BY <2>1, <2>6, BeginStep
  <2>7. Name \subseteq EntryName /\ Name \cup {".."} \subseteq EntryName
    BY DEF EntryName
  <2>8. ASSUME NEW p \in Process,
               \/ Continue(p)
               \/ \E absolute \in BOOLEAN, name \in Name : Begin(p, "mkdir", name, absolute)
               \/ \E absolute \in BOOLEAN, name \in Name \cup {".."},
                     call \in {"open", "chdir"} : Begin(p, call, name, absolute)
        PROVE  FsTypeOK' /\ (~stopped' => RefInv')
    <3>1. CASE \E absolute \in BOOLEAN, name \in Name : Begin(p, "mkdir", name, absolute)
      BY <2>6, <2>7, <3>1
    <3>2. CASE \E absolute \in BOOLEAN, name \in Name \cup {".."},
                  call \in {"open", "chdir"} : Begin(p, call, name, absolute)
      BY <2>6, <2>7, <3>2
    <3> QED
      BY <2>5, <2>8, <3>1, <3>2
  <2> QED
    BY <1>2, <2>2, <2>3, <2>4, <2>8 DEF FsNext
<1> QED
  BY <1>1, <1>2

(* The inductive invariant of the file system: the types of its variables  *)
(* and, until memory or the disk is corrupt, what is known of each call of *)
(* mkdir, chdir and open, of the references to struct inode                *)
(* (inode_open(), inode_reopen(), inode_close()), of who is about to take  *)
(* one off the list of open inodes, and of the free ones.                  *)
THEOREM FsInvariant == FsSpec => []FsInv
<1>1. FsInit => FsInv
  BY InitFresh
<1>2. FsInv /\ [FsNext]_fsVars /\ FreshSound' => FsInv'
  BY FsInvStep
<1>3. FreshSound
  BY FreshInv
<1> QED
  BY <1>1, <1>2, <1>3, PTL DEF FsSpec

(* open_cnt of an inode on the list is the number of references to it less *)
(* those closed twice, an inode nobody refers to is about to leave the     *)
(* list, an inode off the list has no reference, and a sector has one      *)
(* struct inode at most: inode_open(), inode_reopen() and inode_close() as *)
(* sys_mkdir(), sys_chdir(), sys_open() and load() use them, for any       *)
(* number of processes whose calls interleave between list and count.      *)
THEOREM OpenCountsExactThm == FsSpec => []OpenCountsExact
<1>1. FsInv => OpenCountsExact
  <2> SUFFICES ASSUME FsInv, ~stopped PROVE OpenCountsExact
    BY DEF OpenCountsExact
  <2>1. RefInv /\ open_inodes \subseteq Slot
    BY DEF FsInv, FsTypeOK, MemoryTypes
  <2>2. \A s \in open_inodes : inode[s].cnt = References(s) - doubled[s]
    BY <2>1 DEF RefInv, Counted
  <2>3. \A s \in Slot \ open_inodes : References(s) = 0
    BY <2>1 DEF RefInv, Counted
  <2>4. \A s \in open_inodes : inode[s].cnt <= 0 =>
          \E p \in Process : s \in {frame[p].closing, frame[p].making}
    BY <2>1 DEF RefInv, Closers
  <2>5. \A s, t \in open_inodes :
          inode[s].sector = inode[t].sector /\ inode[s].sector # 0 => s = t
    BY <2>1 DEF RefInv, OneEach
  <2> QED
    BY <2>2, <2>3, <2>4, <2>5 DEF OpenCountsExact
<1> QED
  BY <1>1, FsInvariant, PTL
=============================================================================
