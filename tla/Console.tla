------------------------------ MODULE Console ------------------------------
(***************************************************************************)
(* Console output: lib/kernel/console.c over devices/serial.c and the ring *)
(* buffer of devices/intq.c.  Threads print messages byte by byte under    *)
(* the console lock, interrupt handlers print without it, and the serial   *)
(* port's interrupt moves bytes from the transmit queue to the wire.       *)
(*                                                                         *)
(* serial_putc() and the handlers run with interrupts off, so each is one  *)
(* action, except that a thread that finds the queue full goes to sleep.   *)
(* The queue's own lock is free whenever its one waiter takes it, and is   *)
(* part of that step.  Nothing in the kernel calls input_getc(): the input *)
(* buffer fills up once and matters here only to the interrupt enables.    *)
(***************************************************************************)
EXTENDS Integers, Sequences

CONSTANTS
  Printers,      \* threads that print
  BufSize,       \* INTQ_BUFSIZE
  MessageBytes,  \* length of a message
  MaxBytes,      \* nothing more is begun once this many bytes are printed
  Nobody

ASSUME ConsoleAssumption ==
  /\ BufSize \in Nat \ {0, 1}
  /\ MessageBytes \in Nat \ {0} /\ MaxBytes \in Nat
  /\ Nobody \notin Printers

VARIABLES
  consoleHolder, \* holder of console_lock
  lockDepth,     \* console_lock_depth
  todo,          \* bytes left of each message a thread is in, innermost first
  asleep,        \* threads blocked in intq_putc()
  buf, head, tail, notFull,  \* txq: the ring, and the thread that waits for room
  input,         \* bytes in the input buffer
  ier,           \* interrupt enable register
  thrEmpty,      \* LSR_THRE: the transmitter takes another byte
  dataReady,     \* LSR_DR: the receiver holds a byte
  put, wire      \* history: bytes given to the queue, and bytes sent

lockVars    == <<consoleHolder, lockDepth, todo>>
queueVars   == <<buf, head, tail, notFull, asleep>>
deviceVars  == <<input, ier, thrEmpty, dataReady>>
consoleVars == <<lockVars, queueVars, deviceVars, put, wire>>

next(pos) == (pos + 1) % BufSize
IntqEmpty == head = tail
IntqFull  == next(head) = tail
InputFull == input = BufSize - 1

\* The bytes in the ring, oldest first.
Queued == [i \in 1 .. (head - tail) % BufSize |-> buf[(tail + i - 1) % BufSize]]

ConsoleInit ==
  /\ consoleHolder = Nobody /\ lockDepth = 0
  /\ todo = [t \in Printers |-> <<>>]
  /\ asleep = {}
  /\ buf = [i \in 0 .. BufSize - 1 |-> Nobody] /\ head = 0 /\ tail = 0
  /\ notFull = Nobody
  /\ input = 0 /\ ier = [xmit |-> FALSE, recv |-> TRUE]
  /\ thrEmpty = TRUE /\ dataReady = FALSE
  /\ put = <<>> /\ wire = <<>>

(***************************************************************************)
(* Pieces of the queue and the port                                        *)
(***************************************************************************)

\* write_ier(), from the queues as the rest of the action leaves them.
WriteIer == ier' = [xmit |-> head' # tail', recv |-> input' # BufSize - 1]

\* intq_putc() of a byte for which there is room.
IntqPut(byte) ==
  /\ buf' = [buf EXCEPT ![head] = byte]
  /\ head' = next(head)
  /\ put' = Append(put, byte)

\* signal() wakes the thread that waits for room, if there is one.
SignalNotFull ==
  /\ asleep' = asleep \ {notFull}
  /\ notFull' = Nobody

\* Mutant: intq_getc() does not signal the thread that waits for room.
IntqSendUnsignalled ==
  /\ wire' = Append(wire, buf[tail])
  /\ tail' = next(tail)
  /\ thrEmpty' = FALSE
  /\ UNCHANGED <<asleep, notFull>>

\* intq_getc() of a byte that goes to the transmitter.
IntqSend ==
  /\ wire' = Append(wire, buf[tail])
  /\ tail' = next(tail)
  /\ thrEmpty' = FALSE
  /\ SignalNotFull

(***************************************************************************)
(* Threads                                                                 *)
(***************************************************************************)

\* printf(), puts() or putbuf(): acquire_console().  A thread that prints
\* while it prints, in a page fault on the buffer of a write for example, has
\* the lock already, and the depth counts.
AcquireConsole(t) ==
  /\ t \notin asleep /\ Len(put) < MaxBytes
  /\ \/ /\ consoleHolder = Nobody
        /\ consoleHolder' = t
        /\ todo' = [todo EXCEPT ![t] = <<MessageBytes>>]
        /\ UNCHANGED lockDepth
     \/ /\ consoleHolder = t /\ lockDepth = 0
        /\ lockDepth' = lockDepth + 1
        /\ todo' = [todo EXCEPT ![t] = <<1>> \o @]
        /\ UNCHANGED consoleHolder
  /\ UNCHANGED <<queueVars, deviceVars, put, wire>>

\* Mutant: the depth is ignored.
ReleaseConsoleAlways == consoleHolder' = Nobody /\ UNCHANGED lockDepth

\* release_console() after the last byte of a message.
ReleaseConsole ==
  IF lockDepth > 0
  THEN lockDepth' = lockDepth - 1 /\ UNCHANGED consoleHolder
  ELSE consoleHolder' = Nobody /\ UNCHANGED lockDepth

\* serial_putc() of a byte that fits.
PutByte(t) ==
  /\ t \notin asleep /\ todo[t] # <<>> /\ ~IntqFull
  /\ IntqPut(t)
  /\ LET last == Head(todo[t]) = 1
     IN  /\ todo' = [todo EXCEPT ![t] =
              IF last THEN Tail(@) ELSE [todo[t] EXCEPT ![1] = @ - 1]]
         /\ IF last THEN ReleaseConsole ELSE UNCHANGED <<consoleHolder, lockDepth>>
  /\ UNCHANGED <<tail, notFull, asleep, input, thrEmpty, dataReady, wire>>
  /\ WriteIer

\* serial_putc() when the queue is full: wait() notes the thread and blocks
\* it.  It tests the queue again when it is woken.
WaitForRoom(t) ==
  /\ t \notin asleep /\ todo[t] # <<>> /\ IntqFull
  /\ notFull' = t
  /\ asleep' = asleep \union {t}
  /\ UNCHANGED <<lockVars, buf, head, tail, deviceVars, put, wire>>

\* serial_flush(), at shutdown or in a panic: the queue is polled out.
SerialFlush ==
  /\ ~IntqEmpty
  /\ wire' = wire \o Queued
  /\ tail' = head
  /\ thrEmpty' = FALSE
  /\ SignalNotFull
  /\ UNCHANGED <<lockVars, buf, head, input, ier, dataReady, put>>

(***************************************************************************)
(* Interrupt handlers and the hardware                                     *)
(***************************************************************************)

\* Mutant: a full queue is not polled out.
PrintInHandlerUnpolled ==
  /\ Len(put) < MaxBytes
  /\ IntqPut("handler")
  /\ UNCHANGED <<tail, notFull, asleep, thrEmpty, wire, lockVars, input, dataReady>>
  /\ WriteIer

\* A handler prints a byte.  It cannot sleep: when the queue is full it
\* polls the oldest byte out first.
PrintInHandler ==
  /\ Len(put) < MaxBytes
  /\ IntqPut("handler")
  /\ IF IntqFull THEN IntqSend
                 ELSE UNCHANGED <<tail, notFull, asleep, thrEmpty, wire>>
  /\ UNCHANGED <<lockVars, input, dataReady>>
  /\ WriteIer

\* serial_interrupt(): receive while there is room, transmit while the
\* transmitter takes bytes, and set the interrupt enables.
SerialInterrupt ==
  /\ (ier.xmit /\ thrEmpty) \/ (ier.recv /\ dataReady)
  /\ IF dataReady /\ ~InputFull
     THEN input' = input + 1 /\ dataReady' = FALSE
     ELSE UNCHANGED <<input, dataReady>>
  /\ IF ~IntqEmpty /\ thrEmpty
     THEN IntqSend
     ELSE UNCHANGED <<tail, notFull, asleep, thrEmpty, wire>>
  /\ UNCHANGED <<lockVars, buf, head, put>>
  /\ WriteIer

\* The keyboard's handler stores a key, unless the buffer is full.
KeyPressed ==
  /\ ~InputFull
  /\ input' = input + 1
  /\ UNCHANGED <<lockVars, queueVars, thrEmpty, dataReady, put, wire>>
  /\ WriteIer

TransmitterReady ==
  /\ ~thrEmpty /\ thrEmpty' = TRUE
  /\ UNCHANGED <<lockVars, queueVars, input, ier, dataReady, put, wire>>

ByteReceived ==
  /\ ~dataReady /\ dataReady' = TRUE
  /\ UNCHANGED <<lockVars, queueVars, input, ier, thrEmpty, put, wire>>

ConsoleNext ==
  \/ \E t \in Printers : AcquireConsole(t) \/ PutByte(t) \/ WaitForRoom(t)
  \/ SerialFlush
  \/ PrintInHandler \/ SerialInterrupt \/ KeyPressed
  \/ TransmitterReady \/ ByteReceived

\* The transmitter finishes each byte and an enabled interrupt is delivered.
\* Nothing is assumed of threads, nor of input.
ConsoleFairness ==
  /\ WF_consoleVars(TransmitterReady)
  /\ WF_consoleVars(SerialInterrupt)

ConsoleSpec == ConsoleInit /\ [][ConsoleNext]_consoleVars /\ ConsoleFairness

(***************************************************************************)
(* Properties                                                              *)
(***************************************************************************)

\* The wire carries exactly the bytes given to the queue, in that order,
\* whether the interrupt, a polling handler or a flush sent them.
WireInOrder == wire \o Queued = put

\* Bytes of two threads' messages do not mix, however often the printing
\* thread sleeps; only handlers print inside a message.  The thread inside
\* messages is the holder of the lock, once per level of the depth, and the
\* bytes since it took the lock are its own or a handler's.
MessagesWhole ==
  /\ \A t \in Printers :
       Len(todo[t]) = IF consoleHolder = t THEN lockDepth + 1 ELSE 0
  /\ \A t \in Printers :
       todo[t] # <<>> /\ todo[t][Len(todo[t])] < MessageBytes =>
         LET since == MessageBytes - todo[t][Len(todo[t])]
             mine  == {i \in 1 .. Len(put) : put[i] = t}
         IN  \E first \in mine :
               /\ \A i \in first .. Len(put) : put[i] \in {t, "handler"}
               /\ since <= Len(put) - first + 1

\* A thread that waits for room gets on: the transmit interrupt is enabled
\* whenever there is something to send, although bytes, keys and received
\* characters set and clear the enables in any order, and the queue's one
\* place for a waiter is not taken from it.
PrinterProceeds == \A t \in Printers : t \in asleep ~> t \notin asleep
=============================================================================
