----------------------------- MODULE IdeChannel -----------------------------
(***************************************************************************)
(* One ATA channel of devices/ide.c: threads that read and write sectors   *)
(* under the channel's lock, the interrupt handler that ups                *)
(* completion_wait, and the drive, modelled from the registers the driver  *)
(* uses.  A sector is one of either drive of the channel.  Locks and       *)
(* semaphores are what Synch shows them to be.                             *)
(*                                                                         *)
(* Detection and identification run alone at boot, before the lock is      *)
(* used: the reset may leave an interrupt pending, which is Init here.     *)
(***************************************************************************)
EXTENDS Naturals

CONSTANTS
  IdeCaller,   \* threads that call the driver
  IdeSector,
  IdeValue,    \* contents of a sector
  NoCaller

VARIABLES
  holder,      \* holder of the channel's lock
  expecting,   \* expecting_interrupt
  completion,  \* value of completion_wait
  step,        \* where each caller is in ide_read() or ide_write()
  request,     \* the arguments of its call, or NoCaller
  buffer,      \* what its last read put in its buffer
  device,      \* the drive: "idle", "busy", "writing", or "drq" for a transfer
  data,        \* the sector in the drive's data register
  irq,         \* the channel's interrupt is pending
  platter      \* the contents of the disk

callerVars == <<holder, step, request, buffer>>
driveVars  == <<device, data, irq, platter>>
ideVars    == <<callerVars, expecting, completion, driveVars>>

AnyValue   == CHOOSE v \in IdeValue : TRUE   \* where the value does not matter
IdeRequest == [op : {"write"}, sector : IdeSector, value : IdeValue]
              \cup [op : {"read"}, sector : IdeSector, value : {AnyValue}]

ASSUME IdeAssumption ==
  IdeValue # {} /\ NoCaller \notin IdeCaller \cup IdeValue \cup IdeRequest

Reads(t)  == request[t].op = "read"
Goto(t, s) == step' = [step EXCEPT ![t] = s]

IdeInit ==
  /\ holder = NoCaller
  /\ expecting = FALSE /\ completion = 0
  /\ step = [t \in IdeCaller |-> "outside"]
  /\ request = [t \in IdeCaller |-> NoCaller]
  /\ buffer = [t \in IdeCaller |-> NoCaller]
  /\ device = "idle" /\ irq \in BOOLEAN
  /\ platter \in [IdeSector -> IdeValue]
  /\ data = AnyValue

(***************************************************************************)
(* The driver                                                              *)
(***************************************************************************)

\* ide_read() or ide_write() is called.
CallDriver(t, r) ==
  /\ step[t] = "outside"
  /\ request' = [request EXCEPT ![t] = r]
  /\ Goto(t, "lock")
  /\ UNCHANGED <<holder, buffer, expecting, completion, driveVars>>

LockChannel(t) ==
  /\ step[t] = "lock" /\ holder = NoCaller
  /\ holder' = t
  /\ Goto(t, "select")
  /\ UNCHANGED <<request, buffer, expecting, completion, driveVars>>

\* Mutant: the status register is not read first.
ExpectInterruptUnread(t) ==
  /\ step[t] = "select" /\ device = "idle"
  /\ expecting' = TRUE
  /\ Goto(t, "command")
  /\ UNCHANGED <<holder, request, buffer, completion, driveVars>>

\* Mutant: expecting_interrupt is not set.
ExpectNoInterrupt(t) ==
  /\ step[t] = "select" /\ device = "idle"
  /\ irq' = FALSE
  /\ Goto(t, "command")
  /\ UNCHANGED <<holder, request, buffer, expecting, completion, device, data, platter>>

\* select_sector() waits for an idle drive, and reading its status clears a
\* pending interrupt.  issue_pio_command() then sets expecting_interrupt,
\* which nothing ever clears.
ExpectInterrupt(t) ==
  /\ step[t] = "select" /\ device = "idle"
  /\ irq' = FALSE
  /\ expecting' = TRUE
  /\ Goto(t, "command")
  /\ UNCHANGED <<holder, request, buffer, completion, device, data, platter>>

\* The command register is written.
SendCommand(t) ==
  /\ step[t] = "command"
  /\ device' = "busy"
  /\ Goto(t, IF Reads(t) THEN "wait" ELSE "output")
  /\ UNCHANGED <<holder, request, buffer, expecting, completion, data, irq, platter>>

\* Mutant: ide_write() does not wait for the drive's interrupt.
OutputSectorUnawaited(t) ==
  /\ step[t] = "output" /\ device = "drq"
  /\ data' = request[t].value
  /\ device' = "writing"
  /\ Goto(t, "unlock")
  /\ UNCHANGED <<holder, request, buffer, expecting, completion, irq, platter>>

\* ide_write(): wait_while_busy(), output_sector().
OutputSector(t) ==
  /\ step[t] = "output" /\ device = "drq"
  /\ data' = request[t].value
  /\ device' = "writing"
  /\ Goto(t, "wait")
  /\ UNCHANGED <<holder, request, buffer, expecting, completion, irq, platter>>

\* sema_down (&c->completion_wait).
AwaitCompletion(t) ==
  /\ step[t] = "wait" /\ completion > 0
  /\ completion' = completion - 1
  /\ Goto(t, IF Reads(t) THEN "input" ELSE "unlock")
  /\ UNCHANGED <<holder, request, buffer, expecting, driveVars>>

\* ide_read(): wait_while_busy(), input_sector().
InputSector(t) ==
  /\ step[t] = "input" /\ device = "drq"
  /\ buffer' = [buffer EXCEPT ![t] = data]
  /\ device' = "idle"
  /\ Goto(t, "unlock")
  /\ UNCHANGED <<holder, request, expecting, completion, data, irq, platter>>

UnlockChannel(t) ==
  /\ step[t] = "unlock"
  /\ holder' = NoCaller
  /\ request' = [request EXCEPT ![t] = NoCaller]
  /\ Goto(t, "outside")
  /\ UNCHANGED <<buffer, expecting, completion, driveVars>>

\* interrupt_handler(): an interrupt that is not expected is only reported.
IdeInterrupt ==
  /\ irq
  /\ irq' = FALSE
  /\ completion' = IF expecting THEN completion + 1 ELSE completion
  /\ UNCHANGED <<callerVars, expecting, device, data, platter>>

(***************************************************************************)
(* The drive                                                               *)
(***************************************************************************)

\* A read command ends with the data in the register and an interrupt.
DriveReads(t) ==
  /\ device = "busy" /\ holder = t /\ Reads(t)
  /\ data' = platter[request[t].sector]
  /\ device' = "drq" /\ irq' = TRUE
  /\ UNCHANGED <<callerVars, expecting, completion, platter>>

\* A write command first asks for the data, without an interrupt.
DriveAsks(t) ==
  /\ device = "busy" /\ holder = t /\ ~Reads(t)
  /\ device' = "drq"
  /\ UNCHANGED <<callerVars, expecting, completion, data, irq, platter>>

DriveWrites(t) ==
  /\ device = "writing" /\ holder = t
  /\ platter' = [platter EXCEPT ![request[t].sector] = data]
  /\ device' = "idle" /\ irq' = TRUE
  /\ UNCHANGED <<callerVars, expecting, completion, data>>

-----------------------------------------------------------------------------
Drive(t) == DriveReads(t) \/ DriveAsks(t) \/ DriveWrites(t)

InsideDriver(t) ==
  \/ ExpectInterrupt(t) \/ SendCommand(t) \/ OutputSector(t)
  \/ AwaitCompletion(t) \/ InputSector(t) \/ UnlockChannel(t)

IdeNext ==
  \/ \E t \in IdeCaller :
       \/ \E r \in IdeRequest : CallDriver(t, r)
       \/ LockChannel(t) \/ InsideDriver(t) \/ Drive(t)
  \/ IdeInterrupt

\* The holder of the lock is scheduled, the drive answers and an interrupt
\* is delivered.
IdeFairness ==
  \A t \in IdeCaller : WF_ideVars(InsideDriver(t) \/ Drive(t) \/ IdeInterrupt)

IdeSpec == IdeInit /\ [][IdeNext]_ideVars /\ IdeFairness

(***************************************************************************)
(* Properties                                                              *)
(***************************************************************************)

IdeTypeOK ==
  /\ holder \in IdeCaller \cup {NoCaller}
  /\ expecting \in BOOLEAN /\ completion \in Nat /\ irq \in BOOLEAN
  /\ step \in [IdeCaller -> {"outside", "lock", "select", "command", "output",
                            "wait", "input", "unlock"}]
  /\ request \in [IdeCaller -> IdeRequest \cup {NoCaller}]
  /\ buffer \in [IdeCaller -> IdeValue \cup {NoCaller}]
  /\ device \in {"idle", "busy", "drq", "writing"}
  /\ data \in IdeValue /\ platter \in [IdeSector -> IdeValue]

\* What the drive may be doing while the holder of the channel is at each of
\* its steps.
DriveInStep ==
  \A t \in IdeCaller :
    /\ (step[t] = "outside") <=> (request[t] = NoCaller)
    /\ step[t] \in {"select", "command", "unlock"} => device = "idle"
    /\ step[t] = "output" => ~Reads(t) /\ device \in {"busy", "drq"}
    /\ step[t] = "wait" =>
         device \in IF Reads(t) THEN {"busy", "drq"} ELSE {"writing", "idle"}
    /\ step[t] = "input" => Reads(t)
    /\ step[t] = "wait" /\ ~Reads(t) => data = request[t].value
    /\ step[t] \in {"command", "output", "wait", "input", "unlock"} => expecting

\* expecting_interrupt stays set after the first command, so it no longer
\* tells a spurious interrupt: what keeps a later command from being taken
\* for done too early is that each command is paired with one interrupt and
\* one sema_down().  Nothing is left over when the channel is unlocked, and
\* while it is locked the semaphore is up only when the drive is done.
OneCompletionPerCommand ==
  /\ IdeTypeOK /\ DriveInStep
  /\ \A t \in IdeCaller : (step[t] \notin {"outside", "lock"}) <=> (holder = t)
  /\ holder = NoCaller => device = "idle" /\ completion = 0 /\ (expecting => ~irq)
  /\ \A t \in IdeCaller :
       /\ step[t] \in {"select", "command", "output", "unlock"} =>
            completion = 0 /\ (expecting => ~irq)
       /\ step[t] = "wait" =>
            IF device = (IF Reads(t) THEN "drq" ELSE "idle")
            THEN completion = (IF irq THEN 0 ELSE 1)
            ELSE completion = 0 /\ ~irq
       /\ step[t] = "input" => completion = 0 /\ ~irq /\ device = "drq"

\* Whoever gets the channel gives it back: an interrupt is never lost between
\* the command and the wait for it.
ChannelReleased == \A t \in IdeCaller : holder = t ~> holder # t

\* The channel as a disk: a read happens when the drive loads the register,
\* a write when the drive stores it.
DiskPending == [t \in IdeCaller |-> IF step[t] = "unlock" THEN NoCaller ELSE request[t]]
DiskAnswer  == [t \in IdeCaller |->
  IF step[t] = "input" \/ (step[t] = "wait" /\ Reads(t) /\ device = "drq") THEN data
  ELSE IF step[t] = "wait" /\ ~Reads(t) /\ device = "idle" THEN request[t].value
  ELSE NoCaller]

Disk == INSTANCE AbstractDisk WITH
  Caller <- IdeCaller, Sector <- IdeSector, Value <- IdeValue, None <- NoCaller,
  store <- platter, returned <- buffer, pending <- DiskPending, answer <- DiskAnswer

\* The driver and its drive implement the atomic disk that the buffer cache,
\* swap and the loader are written for.
ImplementsDisk == Disk!Spec
=============================================================================
