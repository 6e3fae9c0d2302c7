---------------------------- MODULE DeviceProofs ----------------------------
(***************************************************************************)
(* The ATA channel for any number of callers, sectors and values, and the  *)
(* console for any number of threads and any size of the transmit queue.   *)
(*                                                                         *)
(* OneCompletionPerCommand is inductive: at each step of the lock's holder *)
(* it says what the drive may be doing and whether its interrupt is still  *)
(* to come, is pending, or has upped completion_wait.  The refinement      *)
(* rests on it.  The console's queue is a ring in which the bytes put in   *)
(* and not yet sent lie in order between tail and head; its messages are   *)
(* whole because only the holder of the lock is inside one.                *)
(***************************************************************************)
EXTENDS IdeChannel, Console, SequenceTheorems, TLAPS

(* The value that stands for one that does not matter is a value.          *)
LEMMA AnyValueIsValue == AnyValue \in IdeValue
BY IdeAssumption DEF AnyValue

(* A request has its fields, and is no NoCaller.                           *)
LEMMA RequestFields ==
  ASSUME NEW r \in IdeRequest
  PROVE  /\ r # NoCaller /\ r.op \in {"read", "write"}
         /\ r.sector \in IdeSector /\ r.value \in IdeValue
         /\ r \in Disk!Request
BY AnyValueIsValue, IdeAssumption DEF IdeRequest, Disk!Request

-----------------------------------------------------------------------------
(* The state at boot, with or without an interrupt left by the reset.      *)
LEMMA IdeInitCompletes == IdeInit => OneCompletionPerCommand
<1> SUFFICES ASSUME IdeInit PROVE OneCompletionPerCommand
  OBVIOUS
<1>1. IdeTypeOK
  BY AnyValueIsValue DEF IdeInit, IdeTypeOK
<1>2. DriveInStep
  BY DEF IdeInit, DriveInStep
<1>3. \A t \in IdeCaller : t # NoCaller
  BY IdeAssumption
<1> QED
  BY <1>1, <1>2, <1>3 DEF IdeInit, OneCompletionPerCommand

(* A step of a caller keeps the pairing: those of the holder by what the   *)
(* invariant says of its step, the others because they only enter and      *)
(* queue.                                                                  *)
LEMMA CallerStepCompletes ==
  ASSUME OneCompletionPerCommand, NEW t \in IdeCaller,
         (\E r \in IdeRequest : CallDriver(t, r)) \/ LockChannel(t) \/ InsideDriver(t)
  PROVE  OneCompletionPerCommand'
<1> USE RequestFields, IdeAssumption
    DEF OneCompletionPerCommand, IdeTypeOK, DriveInStep, Goto, Reads, driveVars
<1>1. ASSUME NEW r \in IdeRequest, CallDriver(t, r) PROVE OneCompletionPerCommand'
  BY <1>1 DEF CallDriver
<1>2. CASE LockChannel(t)
  BY <1>2 DEF LockChannel
<1>3. CASE ExpectInterrupt(t)
  BY <1>3 DEF ExpectInterrupt
<1>4. CASE SendCommand(t)
  BY <1>4 DEF SendCommand
<1>5. CASE OutputSector(t)
  BY <1>5 DEF OutputSector
<1>6. CASE AwaitCompletion(t)
  BY <1>6 DEF AwaitCompletion
<1>7. CASE InputSector(t)
  BY <1>7 DEF InputSector
<1>8. CASE UnlockChannel(t)
  BY <1>8 DEF UnlockChannel
<1> QED
  BY <1>1, <1>2, <1>3, <1>4, <1>5, <1>6, <1>7, <1>8 DEF InsideDriver

(* A step of the drive, or the interrupt handler, keeps the pairing: the   *)
(* drive raises one interrupt when it is done with a command, and the      *)
(* handler turns it into one unit of completion_wait.                      *)
LEMMA DriveStepCompletes ==
  ASSUME OneCompletionPerCommand,
         (\E t \in IdeCaller : Drive(t)) \/ IdeInterrupt
  PROVE  OneCompletionPerCommand'
<1> USE RequestFields, IdeAssumption
    DEF OneCompletionPerCommand, IdeTypeOK, DriveInStep, Reads, callerVars
<1>1. ASSUME NEW t \in IdeCaller, DriveReads(t) PROVE OneCompletionPerCommand'
  BY <1>1 DEF DriveReads
<1>2. ASSUME NEW t \in IdeCaller, DriveAsks(t) PROVE OneCompletionPerCommand'
  BY <1>2 DEF DriveAsks
<1>3. ASSUME NEW t \in IdeCaller, DriveWrites(t) PROVE OneCompletionPerCommand'
  BY <1>3 DEF DriveWrites
<1>4. CASE IdeInterrupt
  <2>0. IdeTypeOK' /\ DriveInStep'
    <3>1. /\ UNCHANGED <<holder, step, request, buffer, expecting, device, data, platter>>
          /\ irq' = FALSE /\ completion' \in Nat
      BY ONLY <1>4, IdeTypeOK DEF IdeInterrupt, IdeTypeOK, callerVars
    <3>2. IdeTypeOK'
      BY <3>1
    <3>3. DriveInStep'
      BY ONLY DriveInStep, <3>1, Zenon DEF DriveInStep, Reads
    <3> QED
      BY <3>2, <3>3
  <2>1. ASSUME expecting
        PROVE  /\ holder \in IdeCaller /\ step[holder] = "wait"
               /\ device = (IF Reads(holder) THEN "drq" ELSE "idle")
               /\ completion = 0
    BY <1>4, <2>1 DEF IdeInterrupt
  <2>2. CASE expecting
    <3>1. \A t \in IdeCaller : t # holder => step[t] \in {"outside", "lock"}
      OBVIOUS
    <3>2. completion' = 1 /\ irq' = FALSE
      BY <1>4, <2>1, <2>2 DEF IdeInterrupt
    <3> QED
      BY <1>4, <2>0, <2>1, <2>2, <3>1, <3>2 DEF IdeInterrupt
  <2>3. CASE ~expecting
    <3>1. completion' = completion /\ irq' = FALSE
      BY <1>4, <2>3 DEF IdeInterrupt
    <3>2. \A t \in IdeCaller : step[t] \in {"outside", "lock", "select"}
      BY <2>3
    <3> QED
      BY <1>4, <2>0, <2>3, <3>1, <3>2 DEF IdeInterrupt
  <2> QED
    BY <2>2, <2>3
<1>5. CASE \E t \in IdeCaller : Drive(t)
  BY ONLY <1>1, <1>2, <1>3, <1>5 DEF Drive
<1> QED
  BY ONLY <1>4, <1>5, (\E t \in IdeCaller : Drive(t)) \/ IdeInterrupt

(* Each command to the drive is paired with one interrupt and one          *)
(* sema_down(): no completion is left over for the next command, whether   *)
(* or not expecting_interrupt, which is never cleared, could tell.         *)
THEOREM IdeOneCompletion == IdeSpec => []OneCompletionPerCommand
<1>1. OneCompletionPerCommand /\ [IdeNext]_ideVars => OneCompletionPerCommand'
  <2> SUFFICES ASSUME OneCompletionPerCommand, [IdeNext]_ideVars
               PROVE  OneCompletionPerCommand'
    OBVIOUS
  <2>1. CASE UNCHANGED ideVars
    BY <2>1 DEF ideVars, callerVars, driveVars, OneCompletionPerCommand, IdeTypeOK,
       DriveInStep, Reads
  <2>2. CASE IdeNext
    BY <2>2, CallerStepCompletes, DriveStepCompletes DEF IdeNext
  <2> QED
    BY <2>1, <2>2
<1> QED
  BY <1>1, IdeInitCompletes, PTL DEF IdeSpec

-----------------------------------------------------------------------------
(* Callers see an atomic disk.                                             *)

(* The two components of the mapping change at one caller only: at the one *)
(* that steps, since nobody else is past the lock.                         *)
LEMMA MappingElsewhere ==
  ASSUME OneCompletionPerCommand, NEW t \in IdeCaller, holder = t,
         NEW p, NEW a,
         \A u \in IdeCaller \ {t} : step'[u] = step[u] /\ request'[u] = request[u],
         DiskPending'[t] = p, DiskAnswer'[t] = a
  PROVE  /\ DiskPending' = [DiskPending EXCEPT ![t] = p]
         /\ DiskAnswer' = [DiskAnswer EXCEPT ![t] = a]
<1>1. \A u \in IdeCaller \ {t} : step[u] \in {"outside", "lock"}
  BY DEF OneCompletionPerCommand, IdeTypeOK
<1>2. \A u \in IdeCaller \ {t} :
         /\ DiskPending'[u] = DiskPending[u]
         /\ DiskAnswer'[u] = NoCaller /\ DiskAnswer[u] = NoCaller
  BY <1>1 DEF DiskPending, DiskAnswer
<1>3. /\ DiskPending = [u \in IdeCaller |-> DiskPending[u]]
      /\ DiskPending' = [u \in IdeCaller |-> DiskPending'[u]]
      /\ DiskAnswer = [u \in IdeCaller |-> DiskAnswer[u]]
      /\ DiskAnswer' = [u \in IdeCaller |-> DiskAnswer'[u]]
  BY DEF DiskPending, DiskAnswer
<1> QED
  BY <1>2, <1>3

(* A step of a caller inside the driver is a return or invisible: a read   *)
(* returns with input_sector(), a write with the end of its wait.          *)
LEMMA InsideIsDisk ==
  ASSUME OneCompletionPerCommand, NEW t \in IdeCaller, InsideDriver(t)
  PROVE  Disk!Return(t) \/ UNCHANGED Disk!vars
<1>1. holder = t /\ request[t] \in IdeRequest
  BY DEF OneCompletionPerCommand, IdeTypeOK, DriveInStep, InsideDriver,
     ExpectInterrupt, SendCommand, OutputSector, AwaitCompletion, InputSector, UnlockChannel
<1>2. /\ step = [u \in IdeCaller |-> step[u]]
      /\ request \in [IdeCaller -> IdeRequest \cup {NoCaller}]
      /\ buffer \in [IdeCaller -> IdeValue \cup {NoCaller}]
      /\ device \in {"idle", "busy", "drq", "writing"} /\ data \in IdeValue
  BY DEF OneCompletionPerCommand, IdeTypeOK
<1>3. NoCaller \notin IdeValue
  BY IdeAssumption
<1>4. /\ DiskPending[t] = IF step[t] = "unlock" THEN NoCaller ELSE request[t]
      /\ DiskAnswer[t] = IF step[t] = "input" \/ (step[t] = "wait" /\ Reads(t) /\ device = "drq")
                         THEN data
                         ELSE IF step[t] = "wait" /\ ~Reads(t) /\ device = "idle"
                              THEN request[t].value ELSE NoCaller
  BY DEF DiskPending, DiskAnswer
<1>5. /\ DiskPending'[t] = IF step'[t] = "unlock" THEN NoCaller ELSE request'[t]
      /\ DiskAnswer'[t] = IF step'[t] = "input"
                             \/ (step'[t] = "wait" /\ Reads(t)' /\ device' = "drq")
                          THEN data'
                          ELSE IF step'[t] = "wait" /\ ~Reads(t)' /\ device' = "idle"
                               THEN request'[t].value ELSE NoCaller
  BY DEF DiskPending, DiskAnswer
<1>6. ASSUME DiskPending'[t] = DiskPending[t], DiskAnswer'[t] = DiskAnswer[t],
             \A u \in IdeCaller \ {t} : step'[u] = step[u] /\ request'[u] = request[u]
      PROVE  DiskPending' = DiskPending /\ DiskAnswer' = DiskAnswer
  <2>1. /\ DiskPending' = [DiskPending EXCEPT ![t] = DiskPending[t]]
        /\ DiskAnswer' = [DiskAnswer EXCEPT ![t] = DiskAnswer[t]]
    BY <1>1, <1>6, MappingElsewhere
  <2> QED
    BY <2>1 DEF DiskPending, DiskAnswer
<1>7. CASE ExpectInterrupt(t)
  BY <1>1, <1>2, <1>4, <1>5, <1>6, <1>7 DEF ExpectInterrupt, Goto, Reads, Disk!vars
<1>8. CASE SendCommand(t)
  BY <1>1, <1>2, <1>4, <1>5, <1>6, <1>8 DEF SendCommand, Goto, Reads, Disk!vars
<1>9. CASE OutputSector(t)
  BY <1>1, <1>2, <1>4, <1>5, <1>6, <1>9 DEF OutputSector, Goto, Reads, Disk!vars
<1>10. CASE UnlockChannel(t)
  BY <1>1, <1>2, <1>4, <1>5, <1>6, <1>10 DEF UnlockChannel, Goto, Reads, driveVars, Disk!vars
<1>11. CASE AwaitCompletion(t)
  <2>1. device = (IF Reads(t) THEN "drq" ELSE "idle")
    BY <1>11 DEF AwaitCompletion, OneCompletionPerCommand
  <2>2. CASE Reads(t)
    BY <1>1, <1>2, <1>4, <1>5, <1>6, <1>11, <2>1, <2>2
       DEF AwaitCompletion, Goto, Reads, driveVars, Disk!vars
  <2>3. CASE ~Reads(t)
    <3>1. DiskPending'[t] = NoCaller /\ DiskAnswer'[t] = NoCaller
      BY <1>1, <1>2, <1>5, <1>11, <2>3 DEF AwaitCompletion, Goto, Reads
    <3>2. /\ DiskAnswer[t] # NoCaller /\ DiskPending[t] = request[t]
          /\ DiskPending[t].op # "read"
      BY <1>1, <1>3, <1>4, <1>11, <2>1, <2>3, RequestFields DEF AwaitCompletion, Reads
    <3>3. /\ DiskPending' = [DiskPending EXCEPT ![t] = NoCaller]
          /\ DiskAnswer' = [DiskAnswer EXCEPT ![t] = NoCaller]
      BY <1>1, <1>2, <1>11, <3>1, MappingElsewhere DEF AwaitCompletion, Goto
    <3>4. buffer' = buffer /\ platter' = platter
      BY <1>11 DEF AwaitCompletion, driveVars
    <3> QED
      BY <1>2, <3>2, <3>3, <3>4 DEF Disk!Return
  <2> QED
    BY <2>2, <2>3
<1>12. CASE InputSector(t)
  <2>1. DiskPending'[t] = NoCaller /\ DiskAnswer'[t] = NoCaller
    BY <1>1, <1>2, <1>5, <1>12 DEF InputSector, Goto, Reads
  <2>2. /\ DiskAnswer[t] = data /\ DiskPending[t] = request[t]
        /\ DiskPending[t].op = "read"
    BY <1>4, <1>12 DEF InputSector, Reads, OneCompletionPerCommand, DriveInStep
  <2>3. /\ DiskPending' = [DiskPending EXCEPT ![t] = NoCaller]
        /\ DiskAnswer' = [DiskAnswer EXCEPT ![t] = NoCaller]
    BY <1>1, <1>2, <1>12, <2>1, MappingElsewhere DEF InputSector, Goto
  <2>4. buffer' = [buffer EXCEPT ![t] = data] /\ platter' = platter
    BY <1>12 DEF InputSector
  <2> QED
    BY <1>2, <1>3, <2>2, <2>3, <2>4 DEF Disk!Return
<1> QED
  BY <1>7, <1>8, <1>9, <1>10, <1>11, <1>12 DEF InsideDriver

(* The drive is where reads and writes happen; asking for the data of a    *)
(* write is invisible.                                                     *)
LEMMA DriveIsDisk ==
  ASSUME OneCompletionPerCommand, NEW t \in IdeCaller, Drive(t)
  PROVE  Disk!Read(t) \/ Disk!Write(t) \/ UNCHANGED Disk!vars
<1>1. holder = t /\ step' = step /\ request' = request /\ buffer' = buffer
  BY DEF Drive, DriveReads, DriveAsks, DriveWrites, callerVars
<1>2. request[t] \in IdeRequest
  BY <1>1 DEF OneCompletionPerCommand, IdeTypeOK, DriveInStep
<1>3. /\ DiskPending[t] = IF step[t] = "unlock" THEN NoCaller ELSE request[t]
      /\ DiskPending'[t] = DiskPending[t]
  BY <1>1 DEF DiskPending
<1>4. ASSUME NEW a, DiskAnswer'[t] = a
      PROVE  DiskPending' = DiskPending /\ DiskAnswer' = [DiskAnswer EXCEPT ![t] = a]
  BY <1>1, <1>4, MappingElsewhere DEF DiskPending
<1>5. CASE DriveReads(t)
  <2>1. step[t] = "wait"
    BY <1>1, <1>5 DEF DriveReads, OneCompletionPerCommand, IdeTypeOK, DriveInStep
  <2>2. DiskAnswer[t] = NoCaller /\ DiskAnswer'[t] = platter[request[t].sector]
    BY <1>1, <1>5, <2>1 DEF DriveReads, DiskAnswer, Reads
  <2> QED
    BY <1>1, <1>2, <1>3, <1>4, <1>5, <2>1, <2>2, RequestFields DEF DriveReads, Reads, Disk!Read
<1>6. CASE DriveWrites(t)
  <2>1. step[t] = "wait" /\ ~Reads(t) /\ data = request[t].value
    BY <1>1, <1>6 DEF DriveWrites, OneCompletionPerCommand, IdeTypeOK, DriveInStep
  <2>2. DiskAnswer[t] = NoCaller /\ DiskAnswer'[t] = request[t].value
    BY <1>1, <1>6, <2>1 DEF DriveWrites, DiskAnswer, Reads
  <2>3. request[t].op = "write"
    BY <1>2, <2>1, RequestFields DEF Reads
  <2> QED
    BY <1>1, <1>2, <1>3, <1>4, <1>6, <2>1, <2>2, <2>3, RequestFields
       DEF DriveWrites, Disk!Write
<1>7. CASE DriveAsks(t)
  <2>1. step[t] = "output"
    BY <1>1, <1>7 DEF DriveAsks, OneCompletionPerCommand, IdeTypeOK, DriveInStep
  <2>2. DiskAnswer[t] = NoCaller /\ DiskAnswer'[t] = DiskAnswer[t]
    BY <1>1, <2>1 DEF DiskAnswer
  <2>3. DiskPending' = DiskPending /\ DiskAnswer' = [DiskAnswer EXCEPT ![t] = DiskAnswer[t]]
    BY <1>4, <2>2
  <2> QED
    BY <1>1, <1>7, <2>3 DEF DriveAsks, DiskAnswer, Disk!vars
<1> QED
  BY <1>5, <1>6, <1>7 DEF Drive

(* The driver and its drive implement the atomic disk: a read returns the  *)
(* sector as it was at one moment of the call, and a write returns only    *)
(* when the disk has the data.                                             *)
THEOREM IdeImplementsDisk == IdeSpec => ImplementsDisk
<1>1. IdeInit => Disk!Init
  BY DEF IdeInit, Disk!Init, DiskPending, DiskAnswer
<1>2. OneCompletionPerCommand /\ [IdeNext]_ideVars => [Disk!Next]_(Disk!vars)
  <2> SUFFICES ASSUME OneCompletionPerCommand, [IdeNext]_ideVars
               PROVE  Disk!Next \/ UNCHANGED Disk!vars
    OBVIOUS
  <2>1. ASSUME NEW t \in IdeCaller, NEW r \in IdeRequest, CallDriver(t, r)
        PROVE  Disk!Call(t, r)
    <3>1. DiskPending[t] = NoCaller
      BY <2>1 DEF CallDriver, OneCompletionPerCommand, DriveInStep, DiskPending
    <3>2. DiskPending' = [DiskPending EXCEPT ![t] = r]
      BY <2>1 DEF CallDriver, Goto, OneCompletionPerCommand, IdeTypeOK, DiskPending
    <3>3. DiskAnswer' = DiskAnswer
      BY <2>1 DEF CallDriver, Goto, driveVars, OneCompletionPerCommand, IdeTypeOK,
         DiskAnswer, Reads
    <3> QED
      BY <2>1, <3>1, <3>2, <3>3 DEF CallDriver, driveVars, Disk!Call
  <2>2. ASSUME NEW t \in IdeCaller, LockChannel(t) PROVE UNCHANGED Disk!vars
    <3>1. DiskPending' = DiskPending
      BY <2>2 DEF LockChannel, Goto, OneCompletionPerCommand, IdeTypeOK, DiskPending
    <3>2. DiskAnswer' = DiskAnswer
      BY <2>2 DEF LockChannel, Goto, driveVars, OneCompletionPerCommand, IdeTypeOK,
         DiskAnswer, Reads
    <3> QED
      BY <2>2, <3>1, <3>2 DEF LockChannel, driveVars, Disk!vars
  <2>3. CASE IdeInterrupt \/ UNCHANGED ideVars
    BY <2>3 DEF IdeInterrupt, ideVars, callerVars, driveVars, Disk!vars, DiskPending,
       DiskAnswer, Reads
  <2> QED
    BY <2>1, <2>2, <2>3, InsideIsDisk, DriveIsDisk, RequestFields DEF IdeNext, Disk!Next
<1> QED
  BY <1>1, <1>2, IdeOneCompletion, PTL DEF IdeSpec, ImplementsDisk, Disk!Spec

-----------------------------------------------------------------------------
Byte == Printers \cup {"handler", Nobody}

(* How many bytes a ring holds, from its two ends, and where byte i is.    *)
Span(h, t)  == IF h >= t THEN h - t ELSE h - t + BufSize
Place(t, i) == IF t + i <= BufSize THEN t + i - 1 ELSE t + i - 1 - BufSize

(* w has been taken from a ring with contents b and ends h and t, into     *)
(* which p was put.                                                        *)
Ring(b, h, t, w, p) ==
  /\ b \in [0 .. BufSize - 1 -> Byte] /\ h \in 0 .. BufSize - 1 /\ t \in 0 .. BufSize - 1
  /\ w \in Seq(Byte) /\ p \in Seq(Byte)
  /\ Len(p) = Len(w) + Span(h, t)
  /\ \A i \in 1 .. Len(w) : p[i] = w[i]
  /\ \A i \in 1 .. Span(h, t) : p[Len(w) + i] = b[Place(t, i)]

-----------------------------------------------------------------------------
LEMMA Joined ==
  ASSUME NEW S, NEW w \in Seq(S), NEW q \in Seq(S), NEW p \in Seq(S), Len(p) = Len(w) + Len(q),
         \A i \in 1 .. Len(w) : p[i] = w[i],
         \A i \in 1 .. Len(q) : p[Len(w) + i] = q[i]
  PROVE  w \o q = p
<1>1. /\ Len(w) \in Nat /\ Len(q) \in Nat
      /\ w \o q \in Seq(S) /\ Len(w \o q) = Len(w) + Len(q)
  OBVIOUS
<1>2. \A i \in 1 .. Len(w) + Len(q) : (w \o q)[i] = IF i <= Len(w) THEN w[i] ELSE q[i - Len(w)]
  OBVIOUS
<1>3. ASSUME NEW i \in 1 .. Len(w) + Len(q) PROVE (w \o q)[i] = p[i]
  <2>1. CASE i <= Len(w)
    BY <1>1, <1>2, <2>1
  <2>2. CASE i > Len(w)
    <3>1. i - Len(w) \in 1 .. Len(q) /\ Len(w) + (i - Len(w)) = i
      BY <1>1, <2>2
    <3> QED
      BY <1>1, <1>2, <2>2, <3>1
  <2> QED
    BY <1>1, <2>1, <2>2
<1> QED
  BY <1>1, <1>3, SeqEqual

LEMMA TailLast ==
  ASSUME NEW S, NEW q \in Seq(S), q # <<>>
  PROVE  /\ Len(q) \in Nat \ {0} /\ Head(q) = q[1]
         /\ Tail(q) \in Seq(S) /\ Len(Tail(q)) = Len(q) - 1
         /\ Len(q) > 1 => Tail(q) # <<>> /\ Tail(q)[Len(Tail(q))] = q[Len(q)]
         /\ Len(q) = 1 => Tail(q) = <<>>
<1>1. Len(q) \in Nat \ {0} /\ Head(q) = q[1]
  OBVIOUS
<1>2. PICK r \in Seq(S) : /\ r = Tail(q) /\ Len(r) = Len(q) - 1
                          /\ \A i \in 1 .. Len(q) - 1 : r[i] = q[i + 1]
  <2>1. /\ Tail(q) \in Seq(S) /\ Len(Tail(q)) = Len(q) - 1
        /\ \A i \in 1 .. Len(q) - 1 : Tail(q)[i] = q[i + 1]
    BY <1>1
  <2> QED
    BY <2>1
<1>3. PICK none : none = <<>> /\ Len(none) = 0 /\ \A s \in Seq(S) : s # none => Len(s) \in Nat \ {0}
  BY EmptySeq
<1>4. Len(q) > 1 => r # none /\ r[Len(r)] = q[Len(q)]
  <2> SUFFICES ASSUME Len(q) > 1 PROVE r # none /\ r[Len(r)] = q[Len(q)]
    OBVIOUS
  <2>1. Len(r) \in 1 .. Len(q) - 1 /\ Len(r) + 1 = Len(q)
    BY <1>1, <1>2
  <2>2. Len(none) = 0
    BY <1>3
  <2>3. r # none
    BY ONLY <2>1, <2>2
  <2> QED
    BY <1>2, <2>1, <2>3
<1>5. Len(q) = 1 => r = none
  BY ONLY <1>1, <1>2, <1>3
<1> QED
  BY <1>1, <1>2, <1>3, <1>4, <1>5

(* Positions in the ring.                                                  *)
LEMMA Remainder ==
  ASSUME NEW a \in 0 .. BufSize - 1
  PROVE  a % BufSize = a /\ (a - BufSize) % BufSize = a /\ (a + BufSize) % BufSize = a
  BY ConsoleAssumption

LEMMA NextPos ==
  ASSUME NEW pos \in 0 .. BufSize - 1
  PROVE  next(pos) = IF pos = BufSize - 1 THEN 0 ELSE pos + 1
  BY ConsoleAssumption DEF next

LEMMA Positions ==
  ASSUME NEW h \in 0 .. BufSize - 1, NEW t \in 0 .. BufSize - 1
  PROVE  /\ (h - t) % BufSize = Span(h, t)
         /\ \A i \in 1 .. BufSize : (t + i - 1) % BufSize = Place(t, i)
<1> USE ConsoleAssumption
<1>1. (h - t) % BufSize = Span(h, t)
  BY DEF Span
<1>2. ASSUME NEW i \in 1 .. BufSize PROVE (t + i - 1) % BufSize = Place(t, i)
  <2>1. /\ Place(t, i) \in 0 .. BufSize - 1
        /\ t + i - 1 = Place(t, i) \/ t + i - 1 = Place(t, i) + BufSize
    BY DEF Place
  <2> QED
    BY ONLY <2>1, Remainder
<1> QED
  BY <1>1, <1>2

(* A byte goes in where none is waiting, ...                               *)
LEMMA RingPut ==
  ASSUME NEW b, NEW h, NEW t, NEW w, NEW p, Ring(b, h, t, w, p), next(h) # t, NEW byte \in Byte
  PROVE  Ring([b EXCEPT ![h] = byte], next(h), t, w, Append(p, byte))
<1> USE ConsoleAssumption
<1> DEFINE n == Span(h, t)
           c == [b EXCEPT ![h] = byte]
           q == Append(p, byte)
<1>1. /\ b \in [0 .. BufSize - 1 -> Byte] /\ h \in 0 .. BufSize - 1 /\ t \in 0 .. BufSize - 1
      /\ w \in Seq(Byte) /\ p \in Seq(Byte) /\ BufSize \in Nat \ {0, 1}
      /\ Len(p) = Len(w) + n /\ \A i \in 1 .. Len(w) : p[i] = w[i]
      /\ \A i \in 1 .. n : p[Len(w) + i] = b[Place(t, i)]
  BY DEF Ring
<1>2. /\ next(h) \in 0 .. BufSize - 1 /\ n \in 0 .. BufSize - 2 /\ Span(next(h), t) = n + 1
      /\ Place(t, n + 1) = h
      /\ \A i \in 1 .. n : Place(t, i) \in 0 .. BufSize - 1 /\ Place(t, i) # h
  <2>1. next(h) = IF h = BufSize - 1 THEN 0 ELSE h + 1
    BY <1>1, NextPos
  <2> QED
    BY ONLY <1>1, <2>1, next(h) # t DEF Span, Place
<1>3. /\ c \in [0 .. BufSize - 1 -> Byte] /\ c[h] = byte
      /\ \A i \in 0 .. BufSize - 1 : i # h => c[i] = b[i]
  BY <1>1
<1>4. /\ q \in Seq(Byte) /\ Len(q) = Len(p) + 1 /\ q[Len(p) + 1] = byte
      /\ \A i \in 1 .. Len(p) : q[i] = p[i]
      /\ Len(w) \in Nat /\ Len(p) \in Nat
  BY <1>1
<1> HIDE DEF n, c, q
<1>5. ASSUME NEW i \in 1 .. n + 1 PROVE q[Len(w) + i] = c[Place(t, i)]
  <2>1. CASE i = n + 1
    BY ONLY <1>1, <1>2, <1>3, <1>4, <2>1
  <2>2. CASE i # n + 1
    <3>1. i \in 1 .. n /\ Len(w) + i \in 1 .. Len(p)
      BY <1>1, <1>2, <1>4, <2>2
    <3> QED
      BY ONLY <1>1, <1>2, <1>3, <1>4, <3>1
  <2> QED
    BY <2>1, <2>2
<1>6. Len(q) = Len(w) + (n + 1) /\ \A i \in 1 .. Len(w) : q[i] = w[i]
  BY ONLY <1>1, <1>2, <1>4, SMTT(30)
<1>7. Ring(c, next(h), t, w, q)
  BY ONLY <1>1, <1>2, <1>3, <1>4, <1>5, <1>6 DEF Ring
<1> QED
  BY <1>7 DEF c, q

(* ... the oldest byte goes out, ...                                       *)
LEMMA RingGet ==
  ASSUME NEW b, NEW h, NEW t, NEW w, NEW p, Ring(b, h, t, w, p), h # t
  PROVE  Ring(b, h, next(t), Append(w, b[t]), p)
<1> USE ConsoleAssumption
<1> DEFINE n == Span(h, t)
           v == Append(w, b[t])
<1>1. /\ b \in [0 .. BufSize - 1 -> Byte] /\ h \in 0 .. BufSize - 1 /\ t \in 0 .. BufSize - 1
      /\ w \in Seq(Byte) /\ p \in Seq(Byte) /\ BufSize \in Nat \ {0, 1}
      /\ Len(p) = Len(w) + n /\ \A i \in 1 .. Len(w) : p[i] = w[i]
      /\ \A i \in 1 .. n : p[Len(w) + i] = b[Place(t, i)]
  BY DEF Ring
<1>2. /\ next(t) \in 0 .. BufSize - 1 /\ n \in 1 .. BufSize - 1 /\ Span(h, next(t)) = n - 1
      /\ Place(t, 1) = t
      /\ \A i \in 1 .. n - 1 : Place(next(t), i) = Place(t, i + 1)
  <2>1. next(t) = IF t = BufSize - 1 THEN 0 ELSE t + 1
    BY <1>1, NextPos
  <2> QED
    BY ONLY <1>1, <2>1, h # t DEF Span, Place
<1>3. /\ v \in Seq(Byte) /\ Len(v) = Len(w) + 1 /\ v[Len(w) + 1] = b[t]
      /\ \A i \in 1 .. Len(w) : v[i] = w[i]
      /\ Len(w) \in Nat /\ Len(p) \in Nat
  <2>1. b[t] \in Byte
    BY <1>1
  <2> QED
    BY <1>1, <2>1
<1> HIDE DEF n, v
<1>4. p[Len(w) + 1] = b[t]
  <2>1. 1 \in 1 .. n
    BY <1>2
  <2>2. p[Len(w) + 1] = b[Place(t, 1)]
    BY <1>1, <2>1
  <2> QED
    BY <1>2, <2>2
<1>5. ASSUME NEW i \in 1 .. n - 1 PROVE p[Len(v) + i] = b[Place(next(t), i)]
  <2>1. i + 1 \in 1 .. n /\ Len(w) + (i + 1) = Len(v) + i
    BY <1>2, <1>3
  <2>2. p[Len(w) + (i + 1)] = b[Place(t, i + 1)]
    BY <1>1, <2>1
  <2> QED
    BY <1>2, <2>1, <2>2
<1>6. ASSUME NEW i \in 1 .. Len(v) PROVE p[i] = v[i]
  <2>1. i = Len(w) + 1 \/ i \in 1 .. Len(w)
    BY <1>3
  <2> QED
    BY ONLY <1>1, <1>3, <1>4, <2>1
<1>7. Len(p) = Len(v) + (n - 1)
  BY ONLY <1>1, <1>2, <1>3
<1>8. Ring(b, h, next(t), v, p)
  BY ONLY <1>1, <1>2, <1>3, <1>5, <1>6, <1>7 DEF Ring
<1> QED
  BY <1>8 DEF v

(* ... or both when it is full, ...                                        *)
LEMMA RingPutGet ==
  ASSUME NEW b, NEW h, NEW t, NEW w, NEW p, Ring(b, h, t, w, p), next(h) = t, NEW byte \in Byte
  PROVE  Ring([b EXCEPT ![h] = byte], next(h), next(t), Append(w, b[t]), Append(p, byte))
<1> USE ConsoleAssumption
<1>1. h \in 0 .. BufSize - 1 /\ t \in 0 .. BufSize - 1
  BY DEF Ring
<1>2. h # t /\ next(h) # next(t)
  BY <1>1, NextPos
<1>3. Ring(b, h, next(t), Append(w, b[t]), p)
  BY <1>2, RingGet
<1> QED
  BY <1>2, <1>3, RingPut

(* ... and what has gone out with what is waiting is what went in.         *)
LEMMA RingAll ==
  ASSUME NEW b, NEW h, NEW t, NEW w, NEW p, Ring(b, h, t, w, p)
  PROVE  /\ w \o [i \in 1 .. (h - t) % BufSize |-> b[(t + i - 1) % BufSize]] = p
         /\ Ring(b, h, h, p, p)
<1> USE ConsoleAssumption
<1> DEFINE n == Span(h, t)
           q == [i \in 1 .. (h - t) % BufSize |-> b[(t + i - 1) % BufSize]]
<1>1. /\ b \in [0 .. BufSize - 1 -> Byte] /\ h \in 0 .. BufSize - 1 /\ t \in 0 .. BufSize - 1
      /\ w \in Seq(Byte) /\ p \in Seq(Byte) /\ BufSize \in Nat \ {0, 1}
      /\ Len(p) = Len(w) + n /\ \A i \in 1 .. Len(w) : p[i] = w[i]
      /\ \A i \in 1 .. n : p[Len(w) + i] = b[Place(t, i)]
  BY DEF Ring
<1>2. /\ n \in 0 .. BufSize - 1 /\ Span(h, h) = 0
      /\ \A i \in 1 .. n : Place(t, i) \in 0 .. BufSize - 1 /\ i \in 1 .. BufSize
  BY ONLY <1>1 DEF Span, Place
<1>3. n = (h - t) % BufSize /\ \A i \in 1 .. n : (t + i - 1) % BufSize = Place(t, i)
  BY <1>1, <1>2, Positions
<1>4. q = [i \in 1 .. n |-> b[Place(t, i)]]
  BY <1>3
<1> HIDE DEF n, q
<1>5. q \in Seq(Byte) /\ Len(q) = n /\ \A i \in 1 .. n : q[i] = b[Place(t, i)]
  BY ONLY <1>1, <1>2, <1>4
<1>6. w \o q = p
  <2>1. Len(p) = Len(w) + Len(q) /\ \A i \in 1 .. Len(q) : p[Len(w) + i] = q[i]
    BY ONLY <1>1, <1>5
  <2> QED
    BY ONLY <1>1, <1>5, <2>1, Joined
<1>7. Ring(b, h, h, p, p)
  BY <1>1, <1>2 DEF Ring
<1> QED
  BY <1>6, <1>7 DEF q

-----------------------------------------------------------------------------
QueueInOrder == Ring(buf, head, tail, wire, put)

LEMMA QueueStep ==
  ASSUME QueueInOrder, [ConsoleNext]_consoleVars
  PROVE  QueueInOrder'
<1> USE ConsoleAssumption
<1>1. QueueInOrder' <=> Ring(buf', head', tail', wire', put')
  BY DEF QueueInOrder, Ring, Span, Place
<1>2. Ring(buf, head, tail, wire, put)
  BY DEF QueueInOrder
<1>3. CASE UNCHANGED <<buf, head, tail, wire, put>>
  BY <1>1, <1>2, <1>3
<1>4. ASSUME NEW byte \in Byte, ~IntqFull, IntqPut(byte), UNCHANGED <<tail, wire>> PROVE QueueInOrder'
  <2>1. /\ buf' = [buf EXCEPT ![head] = byte] /\ head' = next(head) /\ put' = Append(put, byte)
        /\ tail' = tail /\ wire' = wire /\ next(head) # tail
    BY <1>4 DEF IntqPut, IntqFull
  <2>2. Ring([buf EXCEPT ![head] = byte], next(head), tail, wire, Append(put, byte))
    BY <1>2, <2>1, RingPut
  <2> QED
    BY <1>1, <2>1, <2>2
<1>5. ASSUME NEW byte \in Byte, IntqFull, IntqPut(byte), IntqSend PROVE QueueInOrder'
  <2>1. /\ buf' = [buf EXCEPT ![head] = byte] /\ head' = next(head) /\ put' = Append(put, byte)
        /\ tail' = next(tail) /\ wire' = Append(wire, buf[tail]) /\ next(head) = tail
    BY <1>5 DEF IntqPut, IntqSend, IntqFull
  <2>2. Ring([buf EXCEPT ![head] = byte], next(head), next(tail), Append(wire, buf[tail]),
             Append(put, byte))
    BY <1>2, <2>1, RingPutGet
  <2> QED
    BY <1>1, <2>1, <2>2
<1>6. CASE ~IntqEmpty /\ IntqSend /\ UNCHANGED <<buf, head, put>>
  <2>1. tail' = next(tail) /\ wire' = Append(wire, buf[tail]) /\ head # tail
    BY <1>6 DEF IntqSend, IntqEmpty
  <2>2. Ring(buf, head, next(tail), Append(wire, buf[tail]), put)
    BY <1>2, <2>1, RingGet
  <2> QED
    BY <1>1, <1>6, <2>1, <2>2
<1>7. ASSUME NEW t \in Printers, PutByte(t) PROVE QueueInOrder'
  BY <1>4, <1>7 DEF PutByte, Byte
<1>8. CASE PrintInHandler
  BY <1>4, <1>5, <1>8 DEF PrintInHandler, Byte
<1>9. CASE SerialInterrupt
  BY <1>3, <1>6, <1>9 DEF SerialInterrupt
<1>10. CASE SerialFlush
  <2>1. wire' = wire \o Queued /\ tail' = head /\ UNCHANGED <<buf, head, put>>
    BY <1>10 DEF SerialFlush
  <2>2. wire \o Queued = put /\ Ring(buf, head, head, put, put)
    BY <1>2, RingAll DEF Queued
  <2> QED
    BY <1>1, <2>1, <2>2
<1>11. CASE \E t \in Printers : AcquireConsole(t) \/ WaitForRoom(t)
  BY <1>3, <1>11 DEF AcquireConsole, WaitForRoom, queueVars
<1>12. CASE KeyPressed \/ TransmitterReady \/ ByteReceived
  BY <1>3, <1>12 DEF KeyPressed, TransmitterReady, ByteReceived, queueVars
<1>13. CASE UNCHANGED consoleVars
  BY <1>3, <1>13 DEF consoleVars, queueVars
<1> QED
  BY <1>7, <1>8, <1>9, <1>10, <1>11, <1>12, <1>13 DEF ConsoleNext

(* The wire carries the bytes in the order in which they were put, whoever *)
(* sends them.                                                             *)
THEOREM WireInOrderThm == ConsoleSpec => []WireInOrder
<1>1. ConsoleInit => QueueInOrder
  <2> SUFFICES ASSUME ConsoleInit PROVE QueueInOrder
    OBVIOUS
  <2>1. /\ buf \in [0 .. BufSize - 1 -> Byte] /\ head = 0 /\ tail = 0
        /\ put = <<>> /\ wire = <<>>
    BY DEF ConsoleInit, Byte
  <2> QED
    BY <2>1, ConsoleAssumption DEF QueueInOrder, Ring, Span
<1>2. QueueInOrder /\ [ConsoleNext]_consoleVars => QueueInOrder'
  BY QueueStep
<1>3. QueueInOrder => WireInOrder
  BY RingAll DEF QueueInOrder, WireInOrder, Queued
<1> QED
  BY <1>1, <1>2, <1>3, PTL DEF ConsoleSpec

-----------------------------------------------------------------------------
(* The bytes from position first on are t's or a handler's, and t put one  *)
(* there.                                                                  *)
Since(t, first) ==
  /\ first \in 1 .. Len(put) /\ put[first] = t
  /\ \A i \in first .. Len(put) : put[i] \in {t, "handler"}

Begun(t) ==
  todo[t] # <<>> /\ todo[t][Len(todo[t])] < MessageBytes =>
    \E first : Since(t, first) /\ MessageBytes - todo[t][Len(todo[t])] <= Len(put) - first + 1

Inside(t) == Len(todo[t]) = IF consoleHolder = t THEN lockDepth + 1 ELSE 0

MessagesInv ==
  /\ consoleHolder \in Printers \cup {Nobody} /\ lockDepth \in Nat
  /\ consoleHolder = Nobody => lockDepth = 0
  /\ todo \in [Printers -> Seq(1 .. MessageBytes)]
  /\ put \in Seq(Byte)
  /\ \A t \in Printers : Inside(t) /\ Begun(t)

(* Another byte of t's or of a handler's leaves what t has printed whole.  *)
LEMMA SinceLonger ==
  ASSUME put \in Seq(Byte), NEW byte \in Byte, put' = Append(put, byte), NEW t, NEW first, Since(t, first),
         byte \in {t, "handler"}
  PROVE  Since(t, first)' /\ Len(put') = Len(put) + 1
<1>1. /\ Len(put') = Len(put) + 1 /\ put'[Len(put) + 1] = byte /\ Len(put) \in Nat
      /\ \A i \in 1 .. Len(put) : put'[i] = put[i]
  OBVIOUS
<1>2. first \in 1 .. Len(put) /\ put[first] = t
      /\ \A i \in first .. Len(put) : put[i] \in {t, "handler"}
  BY DEF Since
<1>3. ASSUME NEW i \in first .. Len(put) + 1 PROVE put'[i] \in {t, "handler"}
  <2>1. i = Len(put) + 1 \/ (i \in first .. Len(put) /\ i \in 1 .. Len(put))
    BY <1>1, <1>2
  <2> QED
    BY <1>1, <1>2, <2>1
<1>4. first \in 1 .. Len(put') /\ put'[first] = t
  BY <1>1, <1>2
<1> QED
  BY <1>1, <1>3, <1>4 DEF Since

LEMMA MessagesQuiet ==
  ASSUME MessagesInv, UNCHANGED <<consoleHolder, lockDepth, todo, put>>
  PROVE  MessagesInv'
  BY DEF MessagesInv, Inside, Begun, Since

LEMMA MessagesHandler ==
  ASSUME MessagesInv, UNCHANGED <<consoleHolder, lockDepth, todo>>, put' = Append(put, "handler")
  PROVE  MessagesInv'
<1>1. put' \in Seq(Byte) /\ "handler" \in Byte
  BY DEF MessagesInv, Byte
<1>2. ASSUME NEW t \in Printers PROVE Inside(t)' /\ Begun(t)'
  <2>1. Inside(t) /\ Begun(t) /\ todo[t] \in Seq(1 .. MessageBytes)
    BY DEF MessagesInv
  <2>2. Inside(t)'
    BY <2>1 DEF Inside
  <2>3. ASSUME todo[t] # <<>>, todo[t][Len(todo[t])] < MessageBytes
        PROVE  \E first : Since(t, first)' /\ MessageBytes - todo[t][Len(todo[t])] <= Len(put') - first + 1
    <3>1. PICK first : Since(t, first) /\ MessageBytes - todo[t][Len(todo[t])] <= Len(put) - first + 1
      BY <2>1, <2>3 DEF Begun
    <3>2. Since(t, first)' /\ Len(put') = Len(put) + 1
      BY <1>1, <3>1, SinceLonger DEF MessagesInv
    <3>3. first \in Nat /\ Len(put) \in Nat /\ todo[t][Len(todo[t])] \in Nat /\ MessageBytes \in Nat
      BY <2>1, <2>3, <3>1, ConsoleAssumption DEF MessagesInv, Since
    <3> QED
      BY <3>1, <3>2, <3>3
  <2> QED
    BY <2>2, <2>3 DEF Begun
<1> QED
  BY <1>1, <1>2 DEF MessagesInv

LEMMA MessagesAcquire ==
  ASSUME MessagesInv, NEW t \in Printers, AcquireConsole(t)
  PROVE  MessagesInv'
<1> USE ConsoleAssumption
<1>1. /\ todo \in [Printers -> Seq(1 .. MessageBytes)] /\ put' = put /\ put \in Seq(Byte)
      /\ \A u \in Printers : Inside(u) /\ Begun(u)
      /\ consoleHolder = Nobody => lockDepth = 0
  BY DEF MessagesInv, AcquireConsole
<1>2. ASSUME NEW u \in Printers \ {t}, todo'[u] = todo[u], todo[u] = <<>>, consoleHolder' = t
      PROVE  Inside(u)' /\ Begun(u)'
  BY <1>2 DEF Inside, Begun
<1>3. CASE consoleHolder = Nobody
  <2>1. /\ consoleHolder' = t /\ lockDepth' = 0
        /\ todo' = [todo EXCEPT ![t] = <<MessageBytes>>]
    BY <1>1, <1>3 DEF AcquireConsole
  <2>2. \A u \in Printers : todo[u] = <<>>
    BY <1>1, <1>3 DEF Inside
  <2>3. todo' \in [Printers -> Seq(1 .. MessageBytes)]
    <3>1. <<MessageBytes>> \in Seq(1 .. MessageBytes)
      OBVIOUS
    <3> QED
      BY <1>1, <2>1, <3>1
  <2>4. todo'[t] = <<MessageBytes>> /\ \A u \in Printers \ {t} : todo'[u] = todo[u]
    BY <1>1, <2>1
  <2>5. Inside(t)' /\ Begun(t)'
    BY <2>1, <2>4 DEF Inside, Begun
  <2> QED
    BY <1>1, <1>2, <2>1, <2>2, <2>3, <2>4, <2>5 DEF MessagesInv
<1>4. CASE consoleHolder # Nobody
  <2>1. /\ consoleHolder = t /\ lockDepth = 0 /\ consoleHolder' = t /\ lockDepth' = 1
        /\ todo' = [todo EXCEPT ![t] = <<1>> \o @]
    BY <1>4 DEF AcquireConsole
  <2>2. \A u \in Printers \ {t} : todo[u] = <<>>
    BY <1>1, <2>1 DEF Inside
  <2>3. todo[t] \in Seq(1 .. MessageBytes) /\ Len(todo[t]) = 1
    BY <1>1, <2>1 DEF Inside
  <2>4. /\ <<1>> \o todo[t] \in Seq(1 .. MessageBytes) /\ Len(<<1>> \o todo[t]) = 2
        /\ (<<1>> \o todo[t])[2] = todo[t][1]
    <3>1. <<1>> \in Seq(1 .. MessageBytes) /\ Len(<<1>>) = 1
      OBVIOUS
    <3>2. PICK r : r = <<1>>
      OBVIOUS
    <3>3. /\ r \o todo[t] \in Seq(1 .. MessageBytes) /\ Len(r \o todo[t]) = Len(r) + Len(todo[t])
          /\ \A i \in 1 .. Len(r) + Len(todo[t]) :
               (r \o todo[t])[i] = IF i <= Len(r) THEN r[i] ELSE todo[t][i - Len(r)]
      BY ONLY <2>3, <3>1, <3>2, ConcatProperties, SMTT(30)
    <3> QED
      BY <2>3, <3>1, <3>2, <3>3
  <2>5. todo'[t] = <<1>> \o todo[t] /\ \A u \in Printers \ {t} : todo'[u] = todo[u]
    BY <1>1, <2>1
  <2>6. todo' \in [Printers -> Seq(1 .. MessageBytes)]
    BY <1>1, <2>1, <2>4
  <2>7. Inside(t)'
    BY <2>1, <2>4, <2>5 DEF Inside
  <2>8. Begun(t)'
    <3>1. Begun(t) /\ todo'[t][Len(todo'[t])] = todo[t][Len(todo[t])] /\ todo[t] # <<>>
      BY <1>1, <2>3, <2>4, <2>5
    <3> QED
      BY <1>1, <3>1 DEF Begun, Since
  <2> QED
    BY <1>1, <1>2, <2>1, <2>2, <2>5, <2>6, <2>7, <2>8 DEF MessagesInv
<1> QED
  BY <1>3, <1>4

(* A byte of the outermost message, or of one inside it.                   *)
LEMMA BegunGrows ==
  ASSUME MessagesInv, NEW t \in Printers, put' = Append(put, t), todo[t] # <<>>,
         todo'[t] \in Seq(1 .. MessageBytes), todo'[t] # <<>>,
         todo'[t][Len(todo'[t])] \in {todo[t][Len(todo[t])], todo[t][Len(todo[t])] - 1}
  PROVE  Begun(t)'
<1> USE ConsoleAssumption
<1>1. todo[t] \in Seq(1 .. MessageBytes) /\ put \in Seq(Byte) /\ Begun(t) /\ t \in Byte
  BY DEF MessagesInv, Byte
<1>2. PICK k \in 1 .. MessageBytes : k = todo[t][Len(todo[t])]
  BY <1>1
<1>3. PICK m \in 1 .. MessageBytes : m = todo'[t][Len(todo'[t])]
  OBVIOUS
<1>4. m = k \/ m = k - 1
  BY <1>2, <1>3
<1>5. /\ Len(put') = Len(put) + 1 /\ put'[Len(put) + 1] = t /\ Len(put) \in Nat
  BY <1>1
<1>6. CASE m < MessageBytes /\ k < MessageBytes
  <2>1. PICK first : Since(t, first) /\ MessageBytes - k <= Len(put) - first + 1
    BY <1>1, <1>2, <1>6 DEF Begun
  <2>2. Since(t, first)'
    BY <1>1, <2>1, SinceLonger
  <2>3. first \in Nat
    BY <1>5, <2>1 DEF Since
  <2>4. MessageBytes - m <= Len(put') - first + 1
    BY <1>4, <1>5, <2>1, <2>3
  <2> QED
    BY <1>3, <2>2, <2>4 DEF Begun
<1>7. CASE m < MessageBytes /\ k = MessageBytes
  <2>1. PICK first : first = Len(put) + 1
    OBVIOUS
  <2>2. first \in 1 .. Len(put') /\ put'[first] = t
        /\ \A i \in first .. Len(put') : put'[i] \in {t, "handler"}
    BY <1>5, <2>1
  <2>3. Since(t, first)'
    BY <2>2 DEF Since
  <2>4. MessageBytes - m <= Len(put') - first + 1
    BY <1>4, <1>5, <1>7, <2>1
  <2> QED
    BY <1>3, <2>3, <2>4 DEF Begun
<1>8. CASE m = MessageBytes
  BY <1>3, <1>8 DEF Begun
<1> QED
  BY <1>6, <1>7, <1>8

LEMMA MessagesPut ==
  ASSUME MessagesInv, NEW t \in Printers, PutByte(t)
  PROVE  MessagesInv'
<1> USE ConsoleAssumption
<1>1. /\ todo \in [Printers -> Seq(1 .. MessageBytes)] /\ put \in Seq(Byte) /\ lockDepth \in Nat
      /\ consoleHolder \in Printers \cup {Nobody}
      /\ \A u \in Printers : Inside(u) /\ Begun(u)
  BY DEF MessagesInv
<1>2. /\ todo[t] # <<>> /\ put' = Append(put, t)
      /\ todo' = [todo EXCEPT ![t] = IF Head(todo[t]) = 1 THEN Tail(todo[t])
                                     ELSE [todo[t] EXCEPT ![1] = @ - 1]]
      /\ IF Head(todo[t]) = 1 THEN ReleaseConsole ELSE UNCHANGED <<consoleHolder, lockDepth>>
  BY DEF PutByte, IntqPut
<1>3. /\ todo[t] \in Seq(1 .. MessageBytes) /\ Len(todo[t]) \in Nat \ {0}
      /\ consoleHolder = t /\ Len(todo[t]) = lockDepth + 1
  BY <1>1, <1>2 DEF Inside
<1>4. put' \in Seq(Byte)
  BY <1>1, <1>2 DEF Byte
<1>5. \A u \in Printers \ {t} : todo'[u] = <<>>
  <2> SUFFICES ASSUME NEW u \in Printers \ {t} PROVE todo'[u] = <<>>
    OBVIOUS
  <2>1. Len(todo[u]) = 0 /\ todo[u] \in Seq(1 .. MessageBytes)
    BY <1>1, <1>3 DEF Inside
  <2>2. todo[u] = <<>>
    BY <2>1
  <2> QED
    BY <1>1, <1>2, <2>2
<1>6. ASSUME consoleHolder' \in {t, Nobody} PROVE \A u \in Printers \ {t} : Inside(u)' /\ Begun(u)'
  BY <1>5, <1>6 DEF Inside, Begun
<1>7. CASE Head(todo[t]) # 1
  <2>1. PICK s \in Seq(1 .. MessageBytes) :
           /\ s = todo'[t] /\ Len(s) = Len(todo[t]) /\ s # <<>>
           /\ s[Len(s)] \in {todo[t][Len(todo[t])], todo[t][Len(todo[t])] - 1}
    <3>1. todo[t][1] \in 1 .. MessageBytes /\ todo[t][1] # 1
      BY <1>3, <1>7
    <3>2. [todo[t] EXCEPT ![1] = @ - 1] \in Seq(1 .. MessageBytes)
      BY <1>3, <3>1
    <3>3. todo'[t] = [todo[t] EXCEPT ![1] = @ - 1]
      BY <1>1, <1>2, <1>7
    <3>4. Len([todo[t] EXCEPT ![1] = @ - 1]) = Len(todo[t])
      BY <1>3
    <3>5. [todo[t] EXCEPT ![1] = @ - 1][Len(todo[t])] \in {todo[t][Len(todo[t])], todo[t][Len(todo[t])] - 1}
      BY <1>3
    <3>6. PICK s : s = [todo[t] EXCEPT ![1] = @ - 1]
      OBVIOUS
    <3>7. s \in Seq(1 .. MessageBytes) /\ Len(s) = Len(todo[t])
          /\ s[Len(s)] \in {todo[t][Len(todo[t])], todo[t][Len(todo[t])] - 1}
      BY ONLY <3>2, <3>4, <3>5, <3>6
    <3>8. s # <<>>
      BY ONLY <1>3, <3>7
    <3> QED
      BY ONLY <3>3, <3>6, <3>7, <3>8
  <2>2. Begun(t)'
    BY <1>2, <2>1, BegunGrows
  <2>3. UNCHANGED <<consoleHolder, lockDepth>> /\ Inside(t)'
    BY <1>2, <1>3, <1>7, <2>1 DEF Inside
  <2>4. todo' \in [Printers -> Seq(1 .. MessageBytes)]
    BY <1>1, <1>2, <2>1
  <2> QED
    BY <1>1, <1>3, <1>4, <1>6, <2>2, <2>3, <2>4 DEF MessagesInv
<1>8. CASE Head(todo[t]) = 1
  <2>1. /\ Tail(todo[t]) \in Seq(1 .. MessageBytes) /\ Len(Tail(todo[t])) = Len(todo[t]) - 1
        /\ Len(todo[t]) > 1 => /\ Tail(todo[t]) # <<>>
                               /\ Tail(todo[t])[Len(Tail(todo[t]))] = todo[t][Len(todo[t])]
        /\ Len(todo[t]) = 1 => Tail(todo[t]) = <<>>
    BY ONLY <1>2, <1>3, TailLast
  <2>2. todo'[t] = Tail(todo[t]) /\ todo' \in [Printers -> Seq(1 .. MessageBytes)]
    BY <1>1, <1>2, <1>8, <2>1
  <2>3. CASE lockDepth > 0
    <3>1. UNCHANGED consoleHolder /\ lockDepth' = lockDepth - 1
      BY <1>2, <1>8, <2>3 DEF ReleaseConsole
    <3>2. Inside(t)'
      <4>1. Len(todo'[t]) = lockDepth' + 1 /\ consoleHolder' = t
        BY <1>1, <1>3, <2>1, <2>2, <3>1
      <4> QED
        BY <4>1 DEF Inside
    <3>3. Begun(t)'
      <4>1. todo'[t] # <<>> /\ todo'[t][Len(todo'[t])] = todo[t][Len(todo[t])]
        <5>1. Len(todo[t]) > 1
          BY <1>1, <1>3, <2>3
        <5> QED
          BY <2>1, <2>2, <5>1
      <4> QED
        BY <1>2, <2>1, <2>2, <4>1, BegunGrows
    <3>4. lockDepth' \in Nat /\ consoleHolder' = t /\ t # Nobody
      BY <1>1, <1>3, <2>3, <3>1
    <3> QED
      BY <1>4, <1>6, <2>2, <3>2, <3>3, <3>4 DEF MessagesInv
  <2>4. CASE ~(lockDepth > 0)
    <3>1. consoleHolder' = Nobody /\ lockDepth' = lockDepth /\ lockDepth = 0
      BY <1>1, <1>2, <1>8, <2>4 DEF ReleaseConsole
    <3>2. todo'[t] = <<>>
      <4>1. Len(todo[t]) = 1
        BY <1>3, <3>1
      <4> QED
        BY <2>1, <2>2, <4>1
    <3>3. Inside(t)' /\ Begun(t)'
      BY <3>1, <3>2 DEF Inside, Begun
    <3> QED
      BY <1>1, <1>4, <1>6, <2>2, <3>1, <3>3 DEF MessagesInv
  <2> QED
    BY <2>3, <2>4
<1> QED
  BY <1>7, <1>8

(* Messages are whole whichever threads print, however often the printer   *)
(* sleeps, and with output inside output.                                  *)
THEOREM MessagesWholeThm == ConsoleSpec => []MessagesWhole
<1>1. ConsoleInit => MessagesInv
  <2> SUFFICES ASSUME ConsoleInit PROVE MessagesInv
    OBVIOUS
  <2>1. /\ consoleHolder = Nobody /\ lockDepth = 0 /\ put = <<>>
        /\ todo = [t \in Printers |-> <<>>]
    BY DEF ConsoleInit
  <2>2. todo \in [Printers -> Seq(1 .. MessageBytes)] /\ put \in Seq(Byte)
    BY <2>1
  <2>3. ASSUME NEW t \in Printers PROVE Inside(t) /\ Begun(t)
    BY <2>1, ConsoleAssumption DEF Inside, Begun
  <2> QED
    BY <2>1, <2>2, <2>3 DEF MessagesInv
<1>2. MessagesInv /\ [ConsoleNext]_consoleVars => MessagesInv'
  <2> SUFFICES ASSUME MessagesInv, [ConsoleNext]_consoleVars PROVE MessagesInv'
    OBVIOUS
  <2>1. ASSUME NEW t \in Printers, AcquireConsole(t) \/ PutByte(t) PROVE MessagesInv'
    BY <2>1, MessagesAcquire, MessagesPut
  <2>2. CASE PrintInHandler
    <3>1. UNCHANGED <<consoleHolder, lockDepth, todo>> /\ put' = Append(put, "handler")
      BY <2>2 DEF PrintInHandler, IntqPut, lockVars
    <3> QED
      BY <3>1, MessagesHandler
  <2>3. CASE \/ \E t \in Printers : WaitForRoom(t)
             \/ SerialFlush \/ SerialInterrupt \/ KeyPressed \/ TransmitterReady \/ ByteReceived
    <3>1. UNCHANGED <<consoleHolder, lockDepth, todo, put>>
      BY <2>3 DEF WaitForRoom, SerialFlush, SerialInterrupt, KeyPressed, TransmitterReady,
                  ByteReceived, lockVars
    <3> QED
      BY <3>1, MessagesQuiet
  <2>4. CASE UNCHANGED consoleVars
    BY <2>4, MessagesQuiet DEF consoleVars, lockVars
  <2> QED
    BY <2>1, <2>2, <2>3, <2>4 DEF ConsoleNext
<1>3. ASSUME MessagesInv PROVE MessagesWhole
  <2>1. ASSUME NEW t \in Printers, todo[t] # <<>>, todo[t][Len(todo[t])] < MessageBytes
        PROVE  \E first \in {i \in 1 .. Len(put) : put[i] = t} :
                 /\ \A i \in first .. Len(put) : put[i] \in {t, "handler"}
                 /\ MessageBytes - todo[t][Len(todo[t])] <= Len(put) - first + 1
    <3>1. PICK first : Since(t, first) /\ MessageBytes - todo[t][Len(todo[t])] <= Len(put) - first + 1
      BY <1>3, <2>1 DEF MessagesInv, Begun
    <3> QED
      BY <3>1 DEF Since
  <2>2. \A t \in Printers : Len(todo[t]) = IF consoleHolder = t THEN lockDepth + 1 ELSE 0
    BY <1>3 DEF MessagesInv, Inside
  <2> QED
    BY <2>1, <2>2 DEF MessagesWhole
<1> QED
  BY <1>1, <1>2, <1>3, PTL DEF ConsoleSpec
=============================================================================
