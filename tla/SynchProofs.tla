---------------------------- MODULE SynchProofs ----------------------------
(***************************************************************************)
(* The scheduler, and the semaphores and locks built on it, for any number *)
(* of threads, semaphores and locks and any slice.                         *)
(*                                                                         *)
(* The scheduler alone (module Threads) comes first.  SchedInv is          *)
(* inductive: OneRunning and ReadyListExact each need the other, and both  *)
(* need IdleBeforeStart so that schedule() always has a thread to switch   *)
(* to.                                                                     *)
(*                                                                         *)
(* The argument for module Synch has three parts.  Every step is one that  *)
(* module Threads allows, so the scheduler's invariant carries over.       *)
(* WaitInv says who sleeps where, and is preserved because interrupts are  *)
(* off while a thread moves from one list to another.  LockInv says who is *)
(* between the two halves of a lock, and does not depend on the scheduler. *)
(***************************************************************************)
EXTENDS Synch, FiniteSetTheorems, TLAPS

-----------------------------------------------------------------------------
(* The two list operations the run queue is changed by. *)

(* list_push_back() adds one element and moves none. *)
LEMMA AppendElements ==
  ASSUME NEW S, NEW q \in Seq(S), NEW x \in S
  PROVE  /\ Append(q, x) \in Seq(S)
         /\ \A t : InList(Append(q, x), t) <=> InList(q, t) \/ t = x
         /\ Distinct(q) /\ ~InList(q, x) => Distinct(Append(q, x))
<1>1. Len(Append(q, x)) = Len(q) + 1
  OBVIOUS
<1>2. \A i \in 1..Len(q) : Append(q, x)[i] = q[i]
  OBVIOUS
<1>3. Append(q, x)[Len(q) + 1] = x
  OBVIOUS
<1>4. Len(q) \in Nat
  OBVIOUS
<1>5. \A t : InList(Append(q, x), t) <=> InList(q, t) \/ t = x
  BY <1>1, <1>2, <1>3, <1>4 DEF InList
<1>6. Distinct(q) /\ ~InList(q, x) => Distinct(Append(q, x))
  BY <1>1, <1>2, <1>3, <1>4 DEF InList, Distinct
<1> QED
  BY <1>5, <1>6

(* list_pop_front() takes the first element and moves none. *)
LEMMA TailElements ==
  ASSUME NEW S, NEW q \in Seq(S), q # << >>, Distinct(q)
  PROVE  /\ Head(q) \in S
         /\ Tail(q) \in Seq(S)
         /\ InList(q, Head(q))
         /\ \A t : InList(Tail(q), t) <=> InList(q, t) /\ t # Head(q)
         /\ Distinct(Tail(q))
<1>1. Len(q) \in Nat /\ Len(q) > 0
  OBVIOUS
<1>2. Len(Tail(q)) = Len(q) - 1
  BY <1>1
<1>3. \A i \in 1..Len(Tail(q)) : Tail(q)[i] = q[i + 1]
  BY <1>1
<1>4. Head(q) = q[1]
  OBVIOUS
<1>5. Head(q) \in S /\ Tail(q) \in Seq(S)
  BY <1>1
<1>6. InList(q, Head(q))
  BY <1>1, <1>4 DEF InList
<1>7. ASSUME NEW t PROVE InList(Tail(q), t) <=> InList(q, t) /\ t # Head(q)
  <2>1. InList(Tail(q), t) => InList(q, t) /\ t # Head(q)
    BY <1>1, <1>2, <1>3, <1>4 DEF InList, Distinct
  <2>2. ASSUME InList(q, t), t # Head(q) PROVE InList(Tail(q), t)
    <3>1. PICK i \in 1..Len(q) : q[i] = t
      BY <2>2 DEF InList
    <3>2. i - 1 \in 1..Len(Tail(q)) /\ Tail(q)[i - 1] = t
      BY <1>1, <1>2, <1>3, <1>4, <2>2, <3>1
    <3> QED
      BY <3>2 DEF InList
  <2> QED
    BY <2>1, <2>2
<1>8. Distinct(Tail(q))
  BY <1>1, <1>2, <1>3 DEF Distinct
<1> QED
  BY <1>5, <1>6, <1>7, <1>8

(* An empty list holds nothing.                                            *)
LEMMA EmptyList == \A t : ~InList(<< >>, t)
  BY DEF InList

-----------------------------------------------------------------------------
(* schedule(), given that the caller has left no thread RUNNING and put    *)
(* exactly the READY ones on the queue.                                    *)
LEMMA ScheduleKeeps ==
  ASSUME NEW queue \in Seq(Thread), NEW st \in [Thread -> Status],
         idle_thread \in {NoThread, Idle},
         \A t \in Thread : st[t] # "RUNNING",
         \A t \in Thread : InList(queue, t) <=> st[t] = "READY" /\ t # idle_thread,
         Distinct(queue),
         queue = << >> => idle_thread = Idle,
         idle_thread = NoThread => st[Idle] = "READY",
         idle_thread = Idle => st[Idle] # "FREE",
         Schedule(queue, st)
  PROVE  SchedInv'
<1> USE ThreadAssumption
<1> DEFINE next == NextThreadToRun(queue)
<1>1. /\ running' = next
      /\ ready_list' = IF queue = << >> THEN << >> ELSE Tail(queue)
      /\ status' = [st EXCEPT ![next] = "RUNNING"]
      /\ thread_ticks' = 0
      /\ idle_thread' = idle_thread
  BY DEF Schedule
<1>2. next \in Thread
  BY TailElements DEF NextThreadToRun
<1>3. /\ ready_list' \in Seq(Thread)
      /\ Distinct(ready_list')
      /\ \A t \in Thread : InList(ready_list', t) <=> InList(queue, t) /\ t # next
  <2>1. CASE queue = << >>
    BY <2>1, <1>1, EmptyList DEF Distinct
  <2>2. CASE queue # << >>
    BY <2>2, <1>1, TailElements DEF NextThreadToRun
  <2> QED
    BY <2>1, <2>2
<1>4. SchedTypeOK'
  BY <1>1, <1>2, <1>3 DEF SchedTypeOK, Status
<1>5. OneRunning'
  BY <1>1, <1>2 DEF OneRunning
<1>6. ReadyListExact'
  BY <1>1, <1>2, <1>3 DEF ReadyListExact
<1>7. NoDuplicates'
  BY <1>3 DEF NoDuplicates
<1>8. IdleBeforeStart'
  BY <1>1, <1>2 DEF IdleBeforeStart, Booted
<1> QED
  BY <1>4, <1>5, <1>6, <1>7, <1>8 DEF SchedInv

(* Once the idle thread exists, schedule() never switches to null: with an *)
(* empty run queue, only the idle thread itself or a kernel whose idle()   *)
(* has announced itself gives up the CPU.                                  *)
LEMMA IdleIsThere ==
  ASSUME SchedInv, Booted, running # Idle, ready_list = << >>
  PROVE  idle_thread = Idle
<1> SUFFICES ASSUME idle_thread = NoThread PROVE FALSE
  BY DEF SchedInv, SchedTypeOK
<1>1. status[Idle] = "READY"
  BY ThreadAssumption DEF SchedInv, IdleBeforeStart, OneRunning, Booted
<1>2. InList(ready_list, Idle)
  BY <1>1, ThreadAssumption DEF SchedInv, ReadyListExact
<1> QED
  BY <1>2, EmptyList

(* thread_block() by a thread that is not idle, or in idle()'s loop,       *)
(* preserves the invariant.                                                *)
LEMMA BlockKeeps ==
  ASSUME SchedInv, ThreadBlock, running # Idle \/ idle_thread = Idle
  PROVE  SchedInv'
<1> USE ThreadAssumption
<1> DEFINE st == [status EXCEPT ![running] = "BLOCKED"]
<1>1. st \in [Thread -> Status]
  BY DEF SchedInv, SchedTypeOK, Status
<1>2. \A t \in Thread : st[t] # "RUNNING"
  BY DEF SchedInv, SchedTypeOK, OneRunning
<1>3. \A t \in Thread : InList(ready_list, t) <=> st[t] = "READY" /\ t # idle_thread
  BY DEF SchedInv, SchedTypeOK, OneRunning, ReadyListExact
<1>4. ready_list = << >> => idle_thread = Idle
  BY IdleIsThere DEF ThreadBlock
<1>5. /\ idle_thread = NoThread => st[Idle] = "READY"
      /\ idle_thread = Idle => st[Idle] # "FREE"
  BY DEF SchedInv, SchedTypeOK, OneRunning, IdleBeforeStart, Booted, ThreadBlock
<1> QED
  BY <1>1, <1>2, <1>3, <1>4, <1>5, ScheduleKeeps
     DEF ThreadBlock, SchedInv, SchedTypeOK, NoDuplicates

(* thread_yield() preserves it: the caller is queued exactly if it is not  *)
(* the idle thread.                                                        *)
LEMMA YieldKeeps ==
  ASSUME SchedInv, ThreadYield
  PROVE  SchedInv'
<1> USE ThreadAssumption
<1> DEFINE st == [status EXCEPT ![running] = "READY"]
           queue == IF running = idle_thread THEN ready_list
                                             ELSE Append(ready_list, running)
<1>1. st \in [Thread -> Status]
  BY DEF SchedInv, SchedTypeOK, Status
<1>2. \A t \in Thread : st[t] # "RUNNING"
  BY DEF SchedInv, SchedTypeOK, OneRunning
<1>3. ~InList(ready_list, running)
  BY DEF SchedInv, SchedTypeOK, OneRunning, ReadyListExact
<1>4. queue \in Seq(Thread) /\ Distinct(queue)
  BY <1>3, AppendElements DEF SchedInv, SchedTypeOK, NoDuplicates
<1>5. \A t \in Thread : InList(queue, t) <=> st[t] = "READY" /\ t # idle_thread
  BY AppendElements DEF SchedInv, SchedTypeOK, OneRunning, ReadyListExact
<1>6. queue = << >> => idle_thread = Idle
  BY AppendElements DEF SchedInv, SchedTypeOK, InList
<1>7. /\ idle_thread = NoThread => st[Idle] = "READY"
      /\ idle_thread = Idle => st[Idle] # "FREE"
  BY DEF SchedInv, SchedTypeOK, OneRunning, IdleBeforeStart, Booted, ThreadYield
<1> QED
  BY <1>1, <1>2, <1>4, <1>5, <1>6, <1>7, ScheduleKeeps
     DEF ThreadYield, SchedInv, SchedTypeOK

(* thread_exit() preserves it, whether the caller's page is freed or not.  *)
LEMMA ExitKeeps ==
  ASSUME SchedInv, ThreadExit
  PROVE  SchedInv'
<1> USE ThreadAssumption
<1> DEFINE gone == IF running = Main THEN "DYING" ELSE "FREE"
           st == [status EXCEPT ![running] = gone]
<1>1. st \in [Thread -> Status]
  BY DEF SchedInv, SchedTypeOK, Status
<1>2. \A t \in Thread : st[t] # "RUNNING"
  BY DEF SchedInv, SchedTypeOK, OneRunning
<1>3. \A t \in Thread : InList(ready_list, t) <=> st[t] = "READY" /\ t # idle_thread
  BY DEF SchedInv, SchedTypeOK, OneRunning, ReadyListExact
<1>4. ready_list = << >> => idle_thread = Idle
  BY IdleIsThere DEF ThreadExit
<1>5. /\ idle_thread = NoThread => st[Idle] = "READY"
      /\ idle_thread = Idle => st[Idle] # "FREE"
  BY DEF SchedInv, SchedTypeOK, OneRunning, IdleBeforeStart, Booted, ThreadExit
<1> QED
  BY <1>1, <1>2, <1>3, <1>4, <1>5, ScheduleKeeps
     DEF ThreadExit, SchedInv, SchedTypeOK, NoDuplicates

(* thread_unblock() of a blocked thread preserves it.                      *)
LEMMA UnblockKeeps ==
  ASSUME SchedInv, NEW t \in Thread \ {Idle}, ThreadUnblock(t)
  PROVE  SchedInv'
<1> USE ThreadAssumption
<1>1. ~InList(ready_list, t)
  BY DEF ThreadUnblock, SchedInv, ReadyListExact
<1>2. /\ ready_list' \in Seq(Thread)
      /\ Distinct(ready_list')
      /\ \A u : InList(ready_list', u) <=> InList(ready_list, u) \/ u = t
  BY <1>1, AppendElements DEF ThreadUnblock, SchedInv, SchedTypeOK, NoDuplicates
<1>3. SchedTypeOK' /\ NoDuplicates'
  BY <1>2 DEF ThreadUnblock, SchedInv, SchedTypeOK, NoDuplicates, Status
<1>4. OneRunning'
  BY DEF ThreadUnblock, SchedInv, SchedTypeOK, OneRunning
<1>5. ReadyListExact'
  BY <1>2 DEF ThreadUnblock, SchedInv, SchedTypeOK, ReadyListExact
<1>6. IdleBeforeStart'
  BY DEF ThreadUnblock, SchedInv, SchedTypeOK, IdleBeforeStart, Booted
<1> QED
  BY <1>3, <1>4, <1>5, <1>6 DEF SchedInv

(* thread_start() preserves it: the idle thread is on the queue from then  *)
(* on.                                                                     *)
LEMMA StartKeeps ==
  ASSUME SchedInv, ThreadStart
  PROVE  SchedInv'
<1> USE ThreadAssumption
<1>1. ~InList(ready_list, Idle)
  BY DEF ThreadStart, Booted, SchedInv, ReadyListExact
<1>2. /\ ready_list' \in Seq(Thread)
      /\ Distinct(ready_list')
      /\ \A u : InList(ready_list', u) <=> InList(ready_list, u) \/ u = Idle
  BY <1>1, AppendElements DEF ThreadStart, SchedInv, SchedTypeOK, NoDuplicates
<1>3. SchedTypeOK' /\ NoDuplicates'
  BY <1>2 DEF ThreadStart, SchedInv, SchedTypeOK, NoDuplicates, Status
<1>4. OneRunning'
  BY DEF ThreadStart, Booted, SchedInv, SchedTypeOK, OneRunning
<1>5. ReadyListExact' /\ IdleBeforeStart'
  BY <1>2 DEF ThreadStart, Booted, SchedInv, SchedTypeOK, ReadyListExact, IdleBeforeStart
<1> QED
  BY <1>3, <1>4, <1>5 DEF SchedInv

(* init_thread() preserves it: a blocked thread is on no list.             *)
LEMMA CreateKeeps ==
  ASSUME SchedInv, NEW t \in Thread, InitThread(t)
  PROVE  SchedInv'
<1> USE ThreadAssumption
<1>1. SchedTypeOK' /\ OneRunning'
  BY DEF InitThread, SchedInv, SchedTypeOK, OneRunning, Status
<1>2. ReadyListExact' /\ NoDuplicates' /\ IdleBeforeStart'
  BY DEF InitThread, Booted, SchedInv, SchedTypeOK, ReadyListExact, NoDuplicates,
         IdleBeforeStart
<1> QED
  BY <1>1, <1>2 DEF SchedInv

(* idle()'s announcement preserves it: the running thread is on no list.   *)
LEMMA SetIdleKeeps ==
  ASSUME SchedInv, SetIdle
  PROVE  SchedInv'
<1> USE ThreadAssumption
<1>1. SchedTypeOK' /\ OneRunning'
  BY DEF SetIdle, SchedInv, SchedTypeOK, OneRunning
<1>2. ReadyListExact' /\ NoDuplicates' /\ IdleBeforeStart'
  BY DEF SetIdle, Booted, SchedInv, SchedTypeOK, OneRunning, ReadyListExact,
         NoDuplicates, IdleBeforeStart
<1> QED
  BY <1>1, <1>2 DEF SchedInv

-----------------------------------------------------------------------------
(* The state in which thread_init() leaves the scheduler satisfies the     *)
(* invariant.                                                              *)
LEMMA SchedInvInit == SchedInit => SchedInv
<1> USE ThreadAssumption
<1> SUFFICES ASSUME SchedInit PROVE SchedInv
  OBVIOUS
<1>1. SchedTypeOK /\ OneRunning
  BY DEF SchedInit, SchedTypeOK, OneRunning, Status
<1>2. ReadyListExact /\ NoDuplicates
  BY EmptyList DEF SchedInit, ReadyListExact, NoDuplicates, Distinct
<1>3. IdleBeforeStart
  BY DEF SchedInit, IdleBeforeStart
<1> QED
  BY <1>1, <1>2, <1>3 DEF SchedInv

(* Every step of the scheduler preserves it.                               *)
LEMMA SchedInvStep == SchedInv /\ [SchedNext]_schedVars => SchedInv'
<1> SUFFICES ASSUME SchedInv, [SchedNext]_schedVars PROVE SchedInv'
  OBVIOUS
<1>1. CASE ThreadStart
  BY <1>1, StartKeeps
<1>2. CASE SetIdle
  BY <1>2, SetIdleKeeps
<1>3. CASE IdleBlock
  BY <1>3, BlockKeeps DEF IdleBlock
<1>4. CASE running # Idle /\ ThreadBlock
  BY <1>4, BlockKeeps
<1>5. CASE ThreadYield
  BY <1>5, YieldKeeps
<1>6. CASE ThreadExit
  BY <1>6, ExitKeeps
<1>7. CASE ThreadTick
  <2>1. CASE ThreadYield
    BY <2>1, YieldKeeps
  <2>2. CASE /\ thread_ticks' = thread_ticks + 1
             /\ UNCHANGED <<status, running, ready_list, idle_thread>>
    BY <2>2 DEF SchedInv, SchedTypeOK, OneRunning, ReadyListExact, NoDuplicates,
                IdleBeforeStart, Booted
  <2> QED
    BY <1>7, <2>1, <2>2 DEF ThreadTick
<1>8. CASE \E t \in Thread : InitThread(t)
  BY <1>8, CreateKeeps
<1>9. CASE \E t \in Thread \ {Idle} : ThreadUnblock(t)
  BY <1>9, UnblockKeeps
<1>10. CASE UNCHANGED schedVars
  BY <1>10 DEF schedVars, SchedInv, SchedTypeOK, OneRunning, ReadyListExact,
               NoDuplicates, IdleBeforeStart, Booted
<1> QED
  BY <1>1, <1>2, <1>3, <1>4, <1>5, <1>6, <1>7, <1>8, <1>9, <1>10 DEF SchedNext

(* The scheduler's invariant holds in every reachable state.               *)
THEOREM SchedInvariant == SchedSpec => []SchedInv
  BY SchedInvInit, SchedInvStep, PTL DEF SchedSpec

(* Every variable keeps its type; schedule() always switches to a thread,  *)
(* as it asserts.                                                          *)
THEOREM SchedTypeCorrect == SchedSpec => []SchedTypeOK
<1>1. SchedInv => SchedTypeOK
  BY DEF SchedInv
<1> QED
  BY <1>1, SchedInvariant, PTL

(* One thread is RUNNING: the one whose stack the CPU is on. *)
THEOREM SchedOneRunning == SchedSpec => []OneRunning
<1>1. SchedInv => OneRunning
  BY DEF SchedInv
<1> QED
  BY <1>1, SchedInvariant, PTL

(* The run queue is the set of READY threads, without the idle thread. *)
THEOREM SchedReadyListExact == SchedSpec => []ReadyListExact
<1>1. SchedInv => ReadyListExact
  BY DEF SchedInv
<1> QED
  BY <1>1, SchedInvariant, PTL

(* No list element is linked into the run queue twice. *)
THEOREM SchedNoDuplicates == SchedSpec => []NoDuplicates
<1>1. SchedInv => NoDuplicates
  BY DEF SchedInv
<1> QED
  BY <1>1, SchedInvariant, PTL

-----------------------------------------------------------------------------
(* What schedule() does to the order of a queue that the caller may have   *)
(* appended the running thread to.                                         *)
FIFOStep ==
  \A i \in 1..Len(ready_list) :
     \/ i <= Len(ready_list') /\ ready_list'[i] = ready_list[i]
     \/ i > 1 /\ i - 1 <= Len(ready_list') /\ ready_list'[i - 1] = ready_list[i]
     \/ i = 1 /\ running' = ready_list[i]

(* A switch moves everybody in the queue up by one, and the first to the   *)
(* CPU, if the queue it is given starts with the old one.                  *)
LEMMA ScheduleIsFIFO ==
  ASSUME ready_list \in Seq(Thread), NEW queue \in Seq(Thread), NEW st,
         Len(ready_list) <= Len(queue),
         \A i \in 1..Len(ready_list) : queue[i] = ready_list[i],
         Schedule(queue, st)
  PROVE  FIFOStep
<1> SUFFICES ASSUME NEW i \in 1..Len(ready_list)
             PROVE  \/ i > 1 /\ i - 1 <= Len(ready_list') /\ ready_list'[i - 1] = ready_list[i]
                    \/ i = 1 /\ running' = ready_list[i]
  BY DEF FIFOStep
<1>1. Len(queue) \in Nat /\ Len(ready_list) \in Nat /\ Len(queue) > 0
  OBVIOUS
<1>2. running' = queue[1] /\ ready_list' = Tail(queue)
  BY <1>1 DEF Schedule, NextThreadToRun
<1>3. CASE i = 1
  BY <1>2, <1>3
<1>4. CASE i # 1
  <2>1. Len(Tail(queue)) = Len(queue) - 1
    BY <1>1
  <2>2. i - 1 \in 1..Len(Tail(queue))
    BY <1>1, <1>4, <2>1
  <2>3. Tail(queue)[i - 1] = queue[i]
    BY <1>1, <2>2
  <2> QED
    BY <1>1, <1>2, <1>4, <2>1, <2>2, <2>3
<1> QED
  BY <1>3, <1>4

(* thread_yield() queues its caller behind everybody else.                 *)
LEMMA YieldIsFIFO ==
  ASSUME SchedTypeOK, ThreadYield
  PROVE  FIFOStep
<1> DEFINE queue == IF running = idle_thread THEN ready_list
                                             ELSE Append(ready_list, running)
<1>1. queue \in Seq(Thread) /\ ready_list \in Seq(Thread)
  BY DEF SchedTypeOK
<1>2. Len(ready_list) <= Len(queue)
  BY <1>1 DEF SchedTypeOK
<1>3. \A i \in 1..Len(ready_list) : queue[i] = ready_list[i]
  BY <1>1 DEF SchedTypeOK
<1> QED
  BY <1>1, <1>2, <1>3, ScheduleIsFIFO DEF ThreadYield

(* A step that leaves the queue alone or adds to its end overtakes nobody. *)
LEMMA OthersKeepOrder ==
  ASSUME SchedTypeOK,
         \/ ready_list' = ready_list
         \/ \E t \in Thread : ready_list' = Append(ready_list, t)
  PROVE  FIFOStep
<1>1. ready_list \in Seq(Thread) /\ Len(ready_list) \in Nat
  BY DEF SchedTypeOK
<1>2. CASE ready_list' = ready_list
  BY <1>1, <1>2 DEF FIFOStep
<1>3. CASE \E t \in Thread : ready_list' = Append(ready_list, t)
  <2>1. PICK t \in Thread : ready_list' = Append(ready_list, t)
    BY <1>3
  <2>2. Len(ready_list') = Len(ready_list) + 1
    BY <1>1, <2>1
  <2>3. \A i \in 1..Len(ready_list) : ready_list'[i] = ready_list[i]
    BY <1>1, <2>1
  <2> QED
    BY <1>1, <2>2, <2>3 DEF FIFOStep
<1> QED
  BY <1>2, <1>3

(* No step of the scheduler overtakes a thread in the queue.               *)
LEMMA StepIsFIFO == SchedInv /\ [SchedNext]_schedVars => FIFOStep
<1> SUFFICES ASSUME SchedInv, [SchedNext]_schedVars PROVE FIFOStep
  OBVIOUS
<1> USE ThreadAssumption DEF SchedInv
<1>1. CASE ThreadStart \/ \E t \in Thread : ThreadUnblock(t)
  BY <1>1, OthersKeepOrder DEF ThreadStart, ThreadUnblock
<1>2. CASE SetIdle \/ (\E t \in Thread : InitThread(t)) \/ UNCHANGED schedVars
  BY <1>2, OthersKeepOrder DEF SetIdle, InitThread, schedVars
<1>3. CASE ThreadBlock \/ ThreadExit
  BY <1>3, ScheduleIsFIFO DEF ThreadBlock, ThreadExit, SchedTypeOK
<1>4. CASE ThreadYield
  BY <1>4, YieldIsFIFO
<1>5. CASE ThreadTick
  BY <1>4, <1>5, YieldIsFIFO, OthersKeepOrder DEF ThreadTick
<1> QED
  BY <1>1, <1>2, <1>3, <1>4, <1>5 DEF SchedNext, IdleBlock

(* The run queue is a FIFO whatever threads and interrupts do. *)
THEOREM SchedRoundRobin == SchedSpec => RoundRobin
<1>1. SchedInv /\ [SchedNext]_schedVars => [FIFOStep]_schedVars
  BY StepIsFIFO
<1> QED
  BY <1>1, SchedInvariant, PTL DEF SchedSpec, RoundRobin, FIFOStep

-----------------------------------------------------------------------------
(* schedule() picks the announced idle thread only off an empty queue,     *)
(* since that thread is never on it.                                       *)
LEMMA ScheduleSkipsIdle ==
  ASSUME SchedInv, idle_thread = Idle, running # Idle,
         NEW queue \in Seq(Thread), NEW st, Schedule(queue, st), running' = Idle,
         \A t \in Thread : InList(queue, t) => InList(ready_list, t) \/ t = running,
         Distinct(queue)
  PROVE  queue = << >>
<1> SUFFICES ASSUME queue # << >> PROVE FALSE
  OBVIOUS
<1>1. InList(queue, Idle)
  BY TailElements DEF Schedule, NextThreadToRun
<1> QED
  BY <1>1, ThreadAssumption DEF SchedInv, ReadyListExact

(* Nothing that could run is passed over for the idle thread. *)
THEOREM SchedIdleOnly == SchedSpec => IdleOnlyIfNothingReady
<1> DEFINE A == idle_thread = Idle /\ running' = Idle /\ running # Idle
                  => ready_list = << >>
<1>1. SchedInv /\ [SchedNext]_schedVars => [A]_schedVars
  <2> SUFFICES ASSUME SchedInv, SchedNext, idle_thread = Idle, running' = Idle,
                      running # Idle
               PROVE  ready_list = << >>
    BY DEF SchedNext
  <2>1. CASE ThreadBlock \/ ThreadExit
    BY <2>1, ScheduleSkipsIdle
       DEF ThreadBlock, ThreadExit, SchedInv, SchedTypeOK, NoDuplicates
  <2>2. CASE ThreadYield
    <3> DEFINE queue == Append(ready_list, running)
    <3>1. ~InList(ready_list, running)
      BY DEF SchedInv, SchedTypeOK, OneRunning, ReadyListExact
    <3>2. /\ queue \in Seq(Thread)
          /\ Distinct(queue)
          /\ \A t : InList(queue, t) <=> InList(ready_list, t) \/ t = running
      BY <3>1, AppendElements DEF SchedInv, SchedTypeOK, NoDuplicates
    <3>3. Schedule(queue, [status EXCEPT ![running] = "READY"])
      BY <2>2 DEF ThreadYield
    <3>4. queue = << >>
      BY <3>2, <3>3, ScheduleSkipsIdle
    <3> QED
      BY <3>2, <3>4, EmptyList
  <2>3. CASE UNCHANGED running
    BY <2>3
  <2> QED
    BY <2>1, <2>2, <2>3
       DEF SchedNext, IdleBlock, ThreadStart, SetIdle, ThreadTick, InitThread,
           ThreadUnblock
<1> QED
  BY <1>1, SchedInvariant, PTL DEF SchedSpec, IdleOnlyIfNothingReady

-----------------------------------------------------------------------------
(* What the waiter lists depend on in a thread's status. *)
Sleeps(t, b) == (status'[t] = "BLOCKED") <=> b
Vacant(t, b) == (status'[t] = "FREE") <=> b

SameStatus == \A u \in Thread \ {Idle} :
                 /\ Sleeps(u, status[u] = "BLOCKED")
                 /\ Vacant(u, status[u] = "FREE")

-----------------------------------------------------------------------------
(* How the scheduler's operations change who sleeps. *)

(* What a switch does to the threads other than idle: the one switched to  *)
(* was READY, and the others have the status they were given.              *)
LEMMA ScheduleStatus ==
  ASSUME idle_thread \in {NoThread, Idle},
         NEW queue \in Seq(Thread), NEW st \in [Thread -> Status], Distinct(queue),
         \A t \in Thread : InList(queue, t) => st[t] = "READY",
         queue = << >> => idle_thread = Idle,
         Schedule(queue, st)
  PROVE  \A u \in Thread \ {Idle} :
            Sleeps(u, st[u] = "BLOCKED") /\ Vacant(u, st[u] = "FREE")
<1> DEFINE next == NextThreadToRun(queue)
<1>1. next \in Thread /\ (next # Idle => st[next] = "READY")
  BY TailElements, ThreadAssumption DEF NextThreadToRun
<1>2. status' = [st EXCEPT ![next] = "RUNNING"]
  BY DEF Schedule
<1> QED
  BY <1>1, <1>2 DEF Sleeps, Vacant

(* thread_block() puts its caller to sleep and wakes nobody.               *)
LEMMA BlockStatus ==
  ASSUME SchedInv, ThreadBlock, running # Idle
  PROVE  \A u \in Thread \ {Idle} :
            /\ Sleeps(u, status[u] = "BLOCKED" \/ u = running)
            /\ Vacant(u, status[u] = "FREE")
<1> DEFINE st == [status EXCEPT ![running] = "BLOCKED"]
<1>1. st \in [Thread -> Status]
  BY DEF SchedInv, SchedTypeOK, Status
<1>2. \A t \in Thread : InList(ready_list, t) => st[t] = "READY"
  BY DEF SchedInv, SchedTypeOK, OneRunning, ReadyListExact
<1>3. ready_list = << >> => idle_thread = Idle
  BY IdleIsThere DEF ThreadBlock
<1>4. \A u \in Thread \ {Idle} :
         Sleeps(u, st[u] = "BLOCKED") /\ Vacant(u, st[u] = "FREE")
  BY <1>1, <1>2, <1>3, ScheduleStatus
     DEF ThreadBlock, SchedInv, SchedTypeOK, NoDuplicates
<1>5. status[running] = "RUNNING"
  BY DEF SchedInv, SchedTypeOK, OneRunning
<1> QED
  BY <1>4, <1>5 DEF SchedInv, SchedTypeOK, Sleeps, Vacant

(* The idle thread's thread_block() puts nobody else to sleep.             *)
LEMMA IdleBlockStatus ==
  ASSUME SchedInv, IdleBlock
  PROVE  SameStatus
<1> DEFINE st == [status EXCEPT ![running] = "BLOCKED"]
<1>1. st \in [Thread -> Status]
  BY DEF SchedInv, SchedTypeOK, Status
<1>2. \A t \in Thread : InList(ready_list, t) => st[t] = "READY"
  BY DEF SchedInv, SchedTypeOK, OneRunning, ReadyListExact
<1>3. \A u \in Thread \ {Idle} :
         Sleeps(u, st[u] = "BLOCKED") /\ Vacant(u, st[u] = "FREE")
  BY <1>1, <1>2, ScheduleStatus
     DEF IdleBlock, ThreadBlock, SchedInv, SchedTypeOK, NoDuplicates
<1> QED
  BY <1>3 DEF IdleBlock, SchedInv, SchedTypeOK, SameStatus, Sleeps, Vacant

(* thread_yield() neither wakes a thread nor puts one to sleep.            *)
LEMMA YieldStatus ==
  ASSUME SchedInv, ThreadYield
  PROVE  SameStatus
<1> USE ThreadAssumption
<1> DEFINE st == [status EXCEPT ![running] = "READY"]
           queue == IF running = idle_thread THEN ready_list
                                             ELSE Append(ready_list, running)
<1>1. st \in [Thread -> Status]
  BY DEF SchedInv, SchedTypeOK, Status
<1>2. ~InList(ready_list, running)
  BY DEF SchedInv, SchedTypeOK, OneRunning, ReadyListExact
<1>3. queue \in Seq(Thread) /\ Distinct(queue)
  BY <1>2, AppendElements DEF SchedInv, SchedTypeOK, NoDuplicates
<1>4. \A t \in Thread : InList(queue, t) => st[t] = "READY"
  BY AppendElements DEF SchedInv, SchedTypeOK, OneRunning, ReadyListExact
<1>5. queue = << >> => idle_thread = Idle
  BY AppendElements DEF SchedInv, SchedTypeOK, InList
<1>6. \A u \in Thread \ {Idle} :
         Sleeps(u, st[u] = "BLOCKED") /\ Vacant(u, st[u] = "FREE")
  BY <1>1, <1>3, <1>4, <1>5, ScheduleStatus
     DEF ThreadYield, SchedInv, SchedTypeOK
<1>7. status[running] = "RUNNING"
  BY DEF SchedInv, SchedTypeOK, OneRunning
<1> QED
  BY <1>6, <1>7 DEF SchedInv, SchedTypeOK, SameStatus, Sleeps, Vacant

(* Nor does the timer interrupt.                                           *)
LEMMA TickStatus ==
  ASSUME SchedInv, ThreadTick
  PROVE  SameStatus
<1>1. CASE ThreadYield
  BY <1>1, YieldStatus
<1>2. CASE UNCHANGED status
  BY <1>2 DEF SameStatus, Sleeps, Vacant
<1> QED
  BY <1>1, <1>2 DEF ThreadTick

(* thread_exit() frees at most its caller's page and wakes nobody.         *)
LEMMA ExitStatus ==
  ASSUME SchedInv, ThreadExit
  PROVE  \A u \in Thread \ {Idle} :
            /\ Sleeps(u, status[u] = "BLOCKED")
            /\ status'[u] = "FREE" => status[u] = "FREE" \/ u = running
<1> DEFINE gone == IF running = Main THEN "DYING" ELSE "FREE"
           st == [status EXCEPT ![running] = gone]
<1>1. st \in [Thread -> Status]
  BY DEF SchedInv, SchedTypeOK, Status
<1>2. \A t \in Thread : InList(ready_list, t) => st[t] = "READY"
  BY DEF SchedInv, SchedTypeOK, OneRunning, ReadyListExact
<1>3. ready_list = << >> => idle_thread = Idle
  BY IdleIsThere DEF ThreadExit
<1>4. \A u \in Thread \ {Idle} :
         Sleeps(u, st[u] = "BLOCKED") /\ Vacant(u, st[u] = "FREE")
  BY <1>1, <1>2, <1>3, ScheduleStatus
     DEF ThreadExit, SchedInv, SchedTypeOK, NoDuplicates
<1>5. status[running] = "RUNNING"
  BY DEF SchedInv, SchedTypeOK, OneRunning
<1> QED
  BY <1>4, <1>5 DEF SchedInv, SchedTypeOK, Sleeps, Vacant

(* thread_unblock(t) wakes t and nobody else.                              *)
LEMMA UnblockStatus ==
  ASSUME SchedInv, NEW t \in Thread, ThreadUnblock(t)
  PROVE  \A u \in Thread \ {Idle} :
            /\ Sleeps(u, status[u] = "BLOCKED" /\ u # t)
            /\ Vacant(u, status[u] = "FREE")
  BY DEF ThreadUnblock, SchedInv, SchedTypeOK, Sleeps, Vacant

(* A step that leaves the scheduler alone changes no status.               *)
LEMMA QuietStatus ==
  ASSUME UNCHANGED schedVars
  PROVE  SameStatus
  BY DEF schedVars, SameStatus, Sleeps, Vacant

-----------------------------------------------------------------------------
(* The list a sema_up() pops from belongs to a thread it may unblock. *)
LEMMA FirstWaiter ==
  ASSUME WaitInv, NEW s \in Sema, waiters[s] # << >>
  PROVE  /\ Head(waiters[s]) \in Thread \ {Idle}
         /\ status[Head(waiters[s])] = "BLOCKED"
         /\ pc[Head(waiters[s])] = "down"
         /\ arg[Head(waiters[s])] = s
<1>1. waiters[s] \in Seq(Thread) /\ Distinct(waiters[s])
  BY DEF WaitInv, SynchTypeOK, WaitsOnce
<1>2. Head(waiters[s]) \in Thread /\ InList(waiters[s], Head(waiters[s]))
  BY <1>1, TailElements
<1> QED
  BY <1>2 DEF WaitInv, WaitersExact, CallsConsistent

(* To the scheduler sema_up() is a thread_unblock() of a blocked thread,   *)
(* or nothing.                                                             *)
LEMMA UpIsSched ==
  ASSUME WaitInv, NEW s \in Sema, SemaUp(s)
  PROVE  UNCHANGED schedVars \/ \E t \in Thread \ {Idle} : ThreadUnblock(t)
  BY FirstWaiter DEF SemaUp

(* To the scheduler sema_down() is a thread_block(), or nothing.           *)
LEMMA DownIsSched ==
  ASSUME NEW t, NEW s, SemaDown(t, s)
  PROVE  UNCHANGED schedVars \/ ThreadBlock
  BY DEF SemaDown, Decrement, WaitOn

(* Every step of this module is one that the scheduler allows. *)
LEMMA StepIsSched == WaitInv /\ [SynchNext]_synchVars => [SchedNext]_schedVars
<1> SUFFICES ASSUME WaitInv, [SynchNext]_synchVars PROVE [SchedNext]_schedVars
  OBVIOUS
<1> USE ThreadAssumption, SemaAssumption
<1>0. running \in Thread
  BY DEF WaitInv, SchedInv, SchedTypeOK
<1>1. CASE StartThreads
  BY <1>1 DEF StartThreads, SchedNext
<1>2. CASE AwaitIdle
  BY <1>2, DownIsSched DEF AwaitIdle, SchedNext
<1>3. CASE IdleAnnounce
  BY <1>3 DEF IdleAnnounce, SchedNext
<1>4. CASE IdleLoop
  BY <1>4 DEF IdleLoop, SchedNext
<1>5. CASE Tick
  BY <1>5 DEF Tick, SchedNext
<1>6. CASE \E s \in Public : IntrSemaUp(s)
  BY <1>6, UpIsSched DEF IntrSemaUp, SchedNext
<1>7. CASE Retest(running)
  <2>1. running # Idle
    BY <1>7 DEF Retest, WaitInv, CallsConsistent
  <2> QED
    BY <1>7, <2>1, DownIsSched DEF Retest, SchedNext
<1>8. CASE SetHolder(running)
  BY <1>8 DEF SetHolder
<1>9. CASE FinishUp(running)
  <2>1. arg[running] \in Sema
    BY <1>0, <1>9 DEF FinishUp, WaitInv, CallsConsistent
  <2> QED
    BY <1>9, <2>1, UpIsSched DEF FinishUp, SchedNext
<1>10. CASE UnblockNew(running)
  <2>1. arg[running] \in Thread \ {Idle}
    BY <1>0, <1>10 DEF UnblockNew, WaitInv, CallsConsistent
  <2> QED
    BY <1>10, <2>1 DEF UnblockNew, SchedNext
<1>11. CASE running # Idle /\ Call(running)
  <2>1. CASE \E s \in Public : CallSemaDown(running, s)
    BY <1>11, <2>1, DownIsSched DEF CallSemaDown, SchedNext
  <2>2. CASE \E s \in Public : CallTryDown(running, s)
    BY <2>2 DEF CallTryDown, Decrement
  <2>3. CASE \E s \in Public : CallSemaUp(running, s)
    BY <2>3, UpIsSched DEF CallSemaUp, SchedNext
  <2>4. CASE \E l \in Lock : LockAcquire(running, l)
    BY <1>11, <2>4, DownIsSched DEF LockAcquire, SchedNext
  <2>5. CASE \E l \in Lock : LockTryAcquire(running, l) \/ LockRelease(running, l)
    BY <2>5 DEF LockTryAcquire, Decrement, LockRelease
  <2>6. CASE \E u \in Thread : CreateThread(running, u)
    BY <2>6 DEF CreateThread, SchedNext
  <2>7. CASE Yield(running) \/ Exit(running)
    BY <1>11, <2>7 DEF Yield, Exit, SchedNext
  <2> QED
    BY <1>11, <2>1, <2>2, <2>3, <2>4, <2>5, <2>6, <2>7 DEF Call
<1>12. CASE UNCHANGED synchVars
  BY <1>12 DEF synchVars
<1> QED
  BY <1>1, <1>2, <1>3, <1>4, <1>5, <1>6, <1>7, <1>8, <1>9, <1>10, <1>11, <1>12
     DEF SynchNext, Continue

-----------------------------------------------------------------------------
(* Each kind of step preserves WaitInv.  The scheduler's part of it is     *)
(* StepIsSched with SchedInvStep, so SchedInv' is among the assumptions.   *)

(* A unit that can be taken belongs to nobody, the taker included. *)
LEMMA FreeUnit ==
  ASSUME SynchInv, NEW t \in Thread, NEW s \in Sema, value[s] > 0
  PROVE  s \notin locks[t]
<1> SUFFICES ASSUME s \in locks[t] PROVE FALSE
  OBVIOUS
<1>1. s \in Lock /\ Owns(t, s)
  BY DEF SynchInv, WaitInv, SynchTypeOK, Owns
<1>2. value[s] = 0
  BY <1>1 DEF SynchInv, LockInv, LockValue
<1> QED
  BY <1>2

(* What CallsConsistent says of t alone. *)
OwnCallConsistent(t) ==
  /\ t = Idle => pc[t] \in {"run", "releasing"}
  /\ t = Idle /\ pc[t] = "releasing" => arg[t] = IdleStarted
  /\ pc[t] \in {"start", "starting"} => t = Main
  /\ pc[t] = "down" => arg[t] \in Sema
  /\ pc[t] = "acquired" => arg[t] \in Lock \ locks[t]
  /\ pc[t] = "releasing" => arg[t] \in (Lock \ locks[t]) \cup {IdleStarted}
  /\ t # Idle /\ status[t] = "FREE" => pc[t] = "run"

(* A step that moves one awake thread and unblocks only sleepers. *)
LEMMA OneThreadMoves ==
  ASSUME WaitInv, NEW t \in Thread, status[t] # "BLOCKED",
         \A u \in Thread \ {t} :
            pc'[u] = pc[u] /\ arg'[u] = arg[u] /\ locks'[u] = locks[u],
         OwnCallConsistent(t)', pc'[t] # "creating" \/ UNCHANGED <<pc, arg>>,
         \A u \in Thread \ {Idle, t} : status'[u] = "FREE" => status[u] = "FREE",
         \A u \in Thread \ {Idle} :
            status[u] = "BLOCKED" /\ pc[u] = "run" => status'[u] = "BLOCKED"
  PROVE  CallsConsistent'
<1> USE ThreadAssumption
<1>1. CallsConsistent
  BY DEF WaitInv
<1>2. /\ pc'[Idle] \in {"run", "releasing"}
      /\ pc'[Idle] = "releasing" => arg'[Idle] = IdleStarted
  BY <1>1 DEF CallsConsistent, OwnCallConsistent
<1>3. ASSUME NEW v \in Thread
      PROVE  /\ pc'[v] \in {"start", "starting"} => v = Main
             /\ pc'[v] = "down" => arg'[v] \in Sema
             /\ pc'[v] = "acquired" => arg'[v] \in Lock \ locks'[v]
             /\ pc'[v] = "releasing" => arg'[v] \in (Lock \ locks'[v]) \cup {IdleStarted}
             /\ v # Idle /\ status'[v] = "FREE" => pc'[v] = "run"
  BY <1>1 DEF CallsConsistent, OwnCallConsistent
<1>4. ASSUME NEW v \in Thread, pc'[v] = "creating"
      PROVE  /\ arg'[v] \in Thread \ {Idle}
             /\ status'[arg'[v]] = "BLOCKED" /\ pc'[arg'[v]] = "run"
             /\ \A u \in Thread : pc'[u] = "creating" /\ arg'[u] = arg'[v] => u = v
  <2>1. pc[v] = "creating" /\ arg'[v] = arg[v]
    BY <1>4
  <2>2. /\ arg[v] \in Thread \ {Idle}
        /\ status[arg[v]] = "BLOCKED" /\ pc[arg[v]] = "run"
        /\ \A u \in Thread : pc[u] = "creating" /\ arg[u] = arg[v] => u = v
    BY <1>1, <2>1 DEF CallsConsistent
  <2>3. arg[v] # t
    BY <2>2
  <2> QED
    BY <2>1, <2>2, <2>3
<1> QED
  BY <1>2, <1>3, <1>4 DEF CallsConsistent

(* A sema_down() that finds the value positive preserves WaitInv.          *)
LEMMA DecrementKeeps ==
  ASSUME SynchInv, SchedInv', NEW t \in Thread, t = running, t # Idle, NEW s \in Sema, NEW label,
         \/ label = "run"
         \/ label = "acquired" /\ s \in Lock,
         pc[t] \in {"run", "down", "starting"},
         Decrement(t, s, label)
  PROVE  WaitInv'
<1> USE ThreadAssumption, SemaAssumption
<1>1. /\ t \in Thread /\ status[t] = "RUNNING"
      /\ value[s] \in Nat
  BY DEF SynchInv, WaitInv, SchedInv, SchedTypeOK, OneRunning, SynchTypeOK
<1>2. s \notin locks[t]
  BY <1>1, FreeUnit DEF Decrement
<1>3. UNCHANGED schedVars
  BY DEF Decrement
<1>4. SynchTypeOK'
  BY <1>1 DEF Decrement, Goto, SynchInv, WaitInv, SchedInv, SynchTypeOK, PC
<1>5. CallsConsistent'
  <2>1. OwnCallConsistent(t)'
    BY <1>1, <1>2, <1>3
       DEF Decrement, Goto, SynchInv, WaitInv, SynchTypeOK, OwnCallConsistent, schedVars
  <2> QED
    BY <1>1, <1>3, <2>1, OneThreadMoves
       DEF Decrement, Goto, SynchInv, WaitInv, SynchTypeOK, schedVars
<1>6. WaitersExact' /\ WaitsOnce'
  BY <1>1, <1>3
     DEF Decrement, Goto, SynchInv, WaitInv, SynchTypeOK, WaitersExact, WaitsOnce, schedVars
<1> QED
  BY <1>4, <1>5, <1>6 DEF WaitInv

(* A sema_down() that goes to sleep preserves WaitInv: the caller is       *)
(* appended to one list and blocked in one step.                           *)
LEMMA WaitOnKeeps ==
  ASSUME SynchInv, SchedInv', NEW t \in Thread, t = running, t # Idle, NEW s \in Sema,
         pc[t] \in {"run", "down", "starting"},
         WaitOn(t, s)
  PROVE  WaitInv'
<1> USE ThreadAssumption, SemaAssumption
<1>1. t \in Thread /\ status[t] = "RUNNING"
  BY DEF SynchInv, WaitInv, SchedInv, SchedTypeOK, OneRunning
<1>2. \A u \in Thread \ {Idle} :
         /\ Sleeps(u, status[u] = "BLOCKED" \/ u = t)
         /\ Vacant(u, status[u] = "FREE")
  BY BlockStatus DEF WaitOn, SynchInv, WaitInv
<1>3. ~InList(waiters[s], t)
  BY <1>1 DEF SynchInv, WaitInv, WaitersExact
<1>4. /\ waiters' = [waiters EXCEPT ![s] = Append(@, t)]
      /\ waiters \in [Sema -> Seq(Thread)]
      /\ pc' = [pc EXCEPT ![t] = "down"]
      /\ arg' = [arg EXCEPT ![t] = s]
      /\ UNCHANGED <<value, holder, locks>>
  BY DEF WaitOn, Goto, SynchInv, WaitInv, SynchTypeOK
<1>5. \A u : InList(waiters'[s], u) <=> InList(waiters[s], u) \/ u = t
  BY <1>1, <1>4, AppendElements
<1>6. SynchTypeOK'
  BY <1>1, <1>4 DEF SynchInv, WaitInv, SchedInv, SynchTypeOK, PC
<1>7. CallsConsistent'
  <2>1. OwnCallConsistent(t)'
    BY <1>1, <1>2, <1>4
       DEF SynchInv, WaitInv, SynchTypeOK, OwnCallConsistent, Vacant
  <2> QED
    BY <1>1, <1>2, <1>4, <2>1, OneThreadMoves
       DEF SynchInv, WaitInv, SynchTypeOK, Sleeps, Vacant
<1>8. WaitersExact'
  <2> SUFFICES ASSUME NEW r \in Sema, NEW u \in Thread
               PROVE  InList(waiters'[r], u) <=>
                        status'[u] = "BLOCKED" /\ pc'[u] = "down" /\ arg'[u] = r
    BY DEF WaitersExact
  <2>1. InList(waiters[r], u) <=> status[u] = "BLOCKED" /\ pc[u] = "down" /\ arg[u] = r
    BY DEF SynchInv, WaitInv, WaitersExact
  <2>2. u = Idle => pc'[u] # "down" /\ pc[u] # "down" /\ u # t
    BY <1>4 DEF SynchInv, WaitInv, SynchTypeOK, CallsConsistent
  <2>3. CASE r = s
    BY <1>1, <1>2, <1>3, <1>4, <1>5, <2>1, <2>2, <2>3
       DEF SynchInv, WaitInv, SynchTypeOK, Sleeps
  <2>4. CASE r # s
    BY <1>1, <1>2, <1>4, <2>1, <2>2, <2>4
       DEF SynchInv, WaitInv, SynchTypeOK, Sleeps
  <2> QED
    BY <2>3, <2>4
<1>9. WaitsOnce'
  BY <1>1, <1>3, <1>4, AppendElements DEF SynchInv, WaitInv, WaitsOnce
<1> QED
  BY <1>6, <1>7, <1>8, <1>9 DEF WaitInv

(* What sema_up() does to lists and sleepers. *)
IsFirst(s, u) == waiters[s] # << >> /\ u = Head(waiters[s])

(* What sema_up(s) does to lists and sleepers: the first waiter of s is    *)
(* taken off its list and woken, and nobody else is touched.               *)
LEMMA UpEffect ==
  ASSUME WaitInv, NEW s \in Sema, SemaUp(s)
  PROVE  /\ waiters' \in [Sema -> Seq(Thread)]
         /\ \A r \in Sema : Distinct(waiters'[r])
         /\ \A r \in Sema, u \in Thread :
              InList(waiters'[r], u) <=> InList(waiters[r], u) /\ ~(r = s /\ IsFirst(s, u))
         /\ \A u \in Thread \ {Idle} :
              /\ Sleeps(u, status[u] = "BLOCKED" /\ ~IsFirst(s, u))
              /\ Vacant(u, status[u] = "FREE")
<1>1. waiters \in [Sema -> Seq(Thread)] /\ \A r \in Sema : Distinct(waiters[r])
  BY DEF WaitInv, SynchTypeOK, WaitsOnce
<1>2. CASE waiters[s] = << >>
  <2>1. UNCHANGED schedVars /\ waiters' = waiters
    BY <1>2 DEF SemaUp
  <2> QED
    BY <1>1, <1>2, <2>1, QuietStatus DEF IsFirst, SameStatus
<1>3. CASE waiters[s] # << >>
  <2>1. /\ waiters' = [waiters EXCEPT ![s] = Tail(@)]
        /\ ThreadUnblock(Head(waiters[s]))
    BY <1>3 DEF SemaUp
  <2>2. /\ Tail(waiters[s]) \in Seq(Thread) /\ Distinct(Tail(waiters[s]))
        /\ Head(waiters[s]) \in Thread
        /\ \A u : InList(Tail(waiters[s]), u) <=>
                    InList(waiters[s], u) /\ u # Head(waiters[s])
    BY <1>1, <1>3, TailElements
  <2>3. \A u \in Thread \ {Idle} :
           /\ Sleeps(u, status[u] = "BLOCKED" /\ u # Head(waiters[s]))
           /\ Vacant(u, status[u] = "FREE")
    BY <2>1, <2>2, UnblockStatus DEF WaitInv
  <2> QED
    BY <1>1, <1>3, <2>1, <2>2, <2>3 DEF IsFirst
<1> QED
  BY <1>2, <1>3

(* sema_up() keeps the types.                                              *)
LEMMA UpTypes ==
  ASSUME WaitInv, SchedInv', NEW s \in Sema, SemaUp(s)
  PROVE  SchedTypeOK' /\ value' \in [Sema -> Nat] /\ waiters' \in [Sema -> Seq(Thread)]
<1>1. value' \in [Sema -> Nat]
  BY DEF SemaUp, WaitInv, SynchTypeOK
<1>2. waiters' \in [Sema -> Seq(Thread)]
  BY UpEffect
<1> QED
  BY <1>1, <1>2 DEF SchedInv

(* After sema_up() the lists still hold exactly the sleepers, each once.   *)
LEMMA UpLists ==
  ASSUME SynchInv, NEW s \in Sema, SemaUp(s),
         \A u \in Thread : pc[u] # "releasing" => pc'[u] = pc[u] /\ arg'[u] = arg[u],
         \A u \in Thread : pc[u] = "releasing" => pc'[u] # "down"
  PROVE  WaitersExact' /\ WaitsOnce'
<1> USE ThreadAssumption
<1>1. WaitInv
  BY DEF SynchInv
<1>2. WaitsOnce'
  BY <1>1, UpEffect DEF WaitsOnce
<1>3. ASSUME NEW r \in Sema, NEW u \in Thread
      PROVE  InList(waiters'[r], u) <=>
               status'[u] = "BLOCKED" /\ pc'[u] = "down" /\ arg'[u] = r
  <2>1. InList(waiters[r], u) <=> status[u] = "BLOCKED" /\ pc[u] = "down" /\ arg[u] = r
    BY <1>1 DEF WaitInv, WaitersExact
  <2>2. InList(waiters'[r], u) <=> InList(waiters[r], u) /\ ~(r = s /\ IsFirst(s, u))
    BY <1>1, UpEffect
  <2>3. IsFirst(s, u) => arg[u] = s /\ pc[u] = "down"
    BY <1>1, FirstWaiter DEF IsFirst
  <2>4. u # Idle => (status'[u] = "BLOCKED" <=> status[u] = "BLOCKED" /\ ~IsFirst(s, u))
    BY <1>1, UpEffect DEF Sleeps
  <2>5. pc'[u] = "down" <=> pc[u] = "down"
    OBVIOUS
  <2>6. pc[u] = "down" => u # Idle /\ arg'[u] = arg[u]
    BY <1>1 DEF WaitInv, CallsConsistent
  <2> QED
    BY <2>1, <2>2, <2>3, <2>4, <2>5, <2>6
<1> QED
  BY <1>2, <1>3 DEF WaitersExact

(* A sema_up() outside lock_release() preserves WaitInv.                   *)
LEMMA UpKeeps ==
  ASSUME SynchInv, SchedInv', NEW s \in Sema, SemaUp(s),
         UNCHANGED <<holder, pcVars, locks>>
  PROVE  WaitInv'
<1> USE ThreadAssumption, SemaAssumption
<1>1. WaitInv /\ UNCHANGED <<pc, arg>>
  BY DEF SynchInv, pcVars
<1>2. SynchTypeOK'
  BY <1>1, UpTypes DEF WaitInv, SynchTypeOK
<1>3. \A u \in Thread \ {Idle} :
         /\ Sleeps(u, status[u] = "BLOCKED" /\ ~IsFirst(s, u))
         /\ Vacant(u, status[u] = "FREE")
  BY <1>1, UpEffect
<1>4. \A u \in Thread : IsFirst(s, u) => pc[u] = "down"
  BY <1>1, FirstWaiter DEF IsFirst
<1>5. CallsConsistent'
  BY <1>1, <1>3, <1>4 DEF WaitInv, CallsConsistent, Sleeps, Vacant
<1>6. WaitersExact' /\ WaitsOnce'
  BY <1>1, UpLists
<1> QED
  BY <1>2, <1>5, <1>6 DEF WaitInv

(* The sema_up() that ends lock_release() or idle()'s announcement         *)
(* preserves WaitInv.                                                      *)
LEMMA FinishUpKeeps ==
  ASSUME SynchInv, SchedInv', NEW t \in Thread, t = running, FinishUp(t)
  PROVE  WaitInv'
<1> USE ThreadAssumption, SemaAssumption
<1> DEFINE s == arg[t]
<1>1. WaitInv /\ t \in Thread
  BY DEF SynchInv, WaitInv, SchedInv, SchedTypeOK
<1>2. s \in Sema /\ SemaUp(s)
  BY <1>1 DEF FinishUp, WaitInv, CallsConsistent
<1>3. /\ pc[t] = "releasing"
      /\ pc' = [pc EXCEPT ![t] = "run"]
      /\ arg' = [arg EXCEPT ![t] = NoThread]
      /\ UNCHANGED <<holder, locks>>
  BY DEF FinishUp, Goto
<1>4. SynchTypeOK'
  BY <1>1, <1>2, <1>3, UpTypes DEF WaitInv, SynchTypeOK, PC
<1>5. \A u \in Thread \ {Idle} :
         /\ Sleeps(u, status[u] = "BLOCKED" /\ ~IsFirst(s, u))
         /\ Vacant(u, status[u] = "FREE")
  BY <1>1, <1>2, UpEffect
<1>6. \A u \in Thread : IsFirst(s, u) => pc[u] = "down"
  BY <1>1, <1>2, FirstWaiter DEF IsFirst
<1>7. CallsConsistent'
  <2>1. status[t] = "RUNNING" /\ status'[t] = "RUNNING"
    BY <1>1 DEF FinishUp, SemaUp, ThreadUnblock, schedVars, WaitInv, SchedInv,
                SchedTypeOK, OneRunning
  <2>2. OwnCallConsistent(t)'
    <3>1. pc'[t] = "run"
      BY <1>1, <1>3 DEF WaitInv, SynchTypeOK
    <3> QED
      BY <3>1 DEF OwnCallConsistent
  <2> QED
    BY <1>1, <1>3, <1>5, <1>6, <2>1, <2>2, OneThreadMoves
       DEF WaitInv, SynchTypeOK, Sleeps, Vacant
<1>8. WaitersExact' /\ WaitsOnce'
  BY <1>1, <1>2, <1>3, UpLists DEF WaitInv, SynchTypeOK
<1> QED
  BY <1>4, <1>7, <1>8 DEF WaitInv

(* Steps that leave semaphores alone and put nobody to sleep. *)
LEMMA QuietKeeps ==
  ASSUME SynchInv, SchedInv', UNCHANGED <<semaVars, holder, pcVars, locks>>,
         \A u \in Thread \ {Idle} :
            /\ Sleeps(u, status[u] = "BLOCKED")
            /\ status'[u] = "FREE" => status[u] = "FREE" \/ pc[u] = "run"
  PROVE  WaitInv'
<1> USE ThreadAssumption
<1>1. UNCHANGED <<value, waiters, holder, pc, arg, locks>>
  BY DEF semaVars, pcVars
<1>2. SynchTypeOK'
  BY <1>1 DEF SynchInv, WaitInv, SchedInv, SynchTypeOK
<1>3. CallsConsistent'
  BY <1>1 DEF SynchInv, WaitInv, CallsConsistent, Sleeps
<1>4. WaitersExact' /\ WaitsOnce'
  BY <1>1 DEF SynchInv, WaitInv, CallsConsistent, WaitersExact, WaitsOnce, Sleeps
<1> QED
  BY <1>2, <1>3, <1>4 DEF WaitInv

(* Steps of one thread that only move it, or its locks. *)
LEMMA MoveKeeps ==
  ASSUME SynchInv, SchedInv', UNCHANGED semaVars, SynchTypeOK',
         NEW t \in Thread, status[t] # "BLOCKED",
         \A u \in Thread \ {t} :
            pc'[u] = pc[u] /\ arg'[u] = arg[u] /\ locks'[u] = locks[u],
         OwnCallConsistent(t)', pc'[t] \notin {"creating", "down"}, pc[t] # "down",
         SameStatus
  PROVE  WaitInv'
<1> USE ThreadAssumption
<1>1. CallsConsistent'
  BY OneThreadMoves DEF SynchInv, WaitInv, SameStatus, Sleeps, Vacant
<1>2. WaitersExact' /\ WaitsOnce'
  BY <1>1 DEF SynchInv, WaitInv, CallsConsistent, WaitersExact, WaitsOnce, SameStatus,
              Sleeps, semaVars
<1> QED
  BY <1>1, <1>2 DEF WaitInv

(* The last statement of lock_acquire() preserves WaitInv.                 *)
LEMMA SetHolderKeeps ==
  ASSUME SynchInv, SchedInv', NEW t \in Thread, t = running, SetHolder(t)
  PROVE  WaitInv'
<1> USE ThreadAssumption, SemaAssumption
<1>1. /\ t \in Thread /\ status[t] = "RUNNING"
      /\ arg[t] \in Lock
  BY DEF SetHolder, SynchInv, WaitInv, SchedInv, SchedTypeOK, OneRunning, CallsConsistent
<1>2. SynchTypeOK'
  BY <1>1 DEF SetHolder, Goto, semaVars, SynchInv, WaitInv, SchedInv, SynchTypeOK, PC
<1>3. OwnCallConsistent(t)'
  <2>1. pc'[t] = "run"
    BY DEF SetHolder, Goto, SynchInv, WaitInv, SynchTypeOK
  <2> QED
    BY <2>1 DEF OwnCallConsistent
<1> QED
  BY <1>1, <1>2, <1>3, MoveKeeps, QuietStatus
     DEF SetHolder, Goto, SynchInv, WaitInv, SynchTypeOK

(* The first half of lock_release() preserves WaitInv.                     *)
LEMMA LockReleaseKeeps ==
  ASSUME SynchInv, SchedInv', NEW t \in Thread, t = running, t # Idle, NEW l \in Lock, LockRelease(t, l)
  PROVE  WaitInv'
<1> USE ThreadAssumption, SemaAssumption
<1>1. t \in Thread /\ status[t] = "RUNNING"
  BY DEF SynchInv, WaitInv, SchedInv, SchedTypeOK, OneRunning
<1>2. SynchTypeOK'
  BY <1>1 DEF LockRelease, Goto, semaVars, SynchInv, WaitInv, SchedInv, SynchTypeOK, PC
<1>3. OwnCallConsistent(t)'
  BY <1>1 DEF LockRelease, Goto, schedVars, SynchInv, WaitInv, SynchTypeOK,
              OwnCallConsistent
<1> QED
  BY <1>1, <1>2, <1>3, MoveKeeps, QuietStatus
     DEF LockRelease, Goto, SynchInv, WaitInv, SynchTypeOK

(* thread_start()'s creation of the idle thread preserves WaitInv.         *)
LEMMA StartThreadsKeeps ==
  ASSUME SynchInv, SchedInv', StartThreads
  PROVE  WaitInv'
<1> USE ThreadAssumption, SemaAssumption
<1>1. /\ pc \in [Thread -> PC] /\ arg \in [Thread -> Sema \cup Thread \cup {NoThread}]
      /\ pc' = [pc EXCEPT ![Main] = "starting"]
      /\ arg' = [arg EXCEPT ![Main] = NoThread]
      /\ UNCHANGED <<value, waiters, holder, locks>>
  BY DEF StartThreads, Goto, semaVars, SynchInv, WaitInv, SynchTypeOK
<1>2. SynchTypeOK'
  BY <1>1 DEF SynchInv, WaitInv, SchedInv, SynchTypeOK, PC
<1>3. SameStatus
  BY DEF StartThreads, ThreadStart, SynchInv, WaitInv, SchedInv, SchedTypeOK, SameStatus,
         Sleeps, Vacant
<1>4. status[Main] # "BLOCKED" /\ status[Main] # "FREE"
  BY DEF StartThreads, ThreadStart, SynchInv, WaitInv, SchedInv, OneRunning, IdleBeforeStart
<1>5. OwnCallConsistent(Main)'
  BY <1>1, <1>3, <1>4 DEF OwnCallConsistent, SameStatus, Vacant
<1> QED
  BY <1>1, <1>2, <1>3, <1>4, <1>5, MoveKeeps DEF StartThreads, semaVars

(* idle()'s first statement preserves WaitInv.                             *)
LEMMA IdleAnnounceKeeps ==
  ASSUME SynchInv, SchedInv', IdleAnnounce
  PROVE  WaitInv'
<1> USE ThreadAssumption, SemaAssumption
<1>1. /\ pc \in [Thread -> PC] /\ arg \in [Thread -> Sema \cup Thread \cup {NoThread}]
      /\ pc' = [pc EXCEPT ![Idle] = "releasing"]
      /\ arg' = [arg EXCEPT ![Idle] = IdleStarted]
      /\ UNCHANGED <<status, value, waiters, holder, locks>>
  BY DEF IdleAnnounce, SetIdle, Goto, semaVars, SynchInv, WaitInv, SynchTypeOK
<1>2. SynchTypeOK'
  BY <1>1 DEF SynchInv, WaitInv, SchedInv, SynchTypeOK, PC
<1>3. SameStatus
  BY <1>1 DEF SameStatus, Sleeps, Vacant
<1>4. status[Idle] # "BLOCKED" /\ pc[Idle] # "down"
  BY DEF IdleAnnounce, SetIdle, SynchInv, WaitInv, SchedInv, OneRunning, CallsConsistent
<1>5. OwnCallConsistent(Idle)'
  BY <1>1 DEF OwnCallConsistent
<1> QED
  BY <1>1, <1>2, <1>3, <1>4, <1>5, MoveKeeps DEF IdleAnnounce

(* thread_create() up to thread_unblock() preserves WaitInv: the new       *)
(* thread has one creator and stays blocked.                               *)
LEMMA CreateThreadKeeps ==
  ASSUME SynchInv, SchedInv', NEW t \in Thread, t = running, t # Idle,
         NEW u \in Thread, CreateThread(t, u)
  PROVE  WaitInv'
<1> USE ThreadAssumption, SemaAssumption
<1>1. /\ pc \in [Thread -> PC] /\ arg \in [Thread -> Sema \cup Thread \cup {NoThread}]
      /\ status \in [Thread -> Status]
      /\ pc[t] = "run" /\ status[u] = "FREE" /\ status[t] = "RUNNING"
      /\ status' = [status EXCEPT ![u] = "BLOCKED"]
      /\ pc' = [pc EXCEPT ![t] = "creating"]
      /\ arg' = [arg EXCEPT ![t] = u]
      /\ UNCHANGED <<value, waiters, holder, locks>>
  BY DEF CreateThread, InitThread, Goto, semaVars, SynchInv, WaitInv, SynchTypeOK, SchedInv,
         SchedTypeOK, OneRunning
<1>2. u # Idle /\ u # t /\ pc[u] = "run"
  BY <1>1 DEF CreateThread, InitThread, Booted, SynchInv, WaitInv, CallsConsistent
<1>3. SynchTypeOK'
  BY <1>1 DEF SynchInv, WaitInv, SchedInv, SynchTypeOK, PC
<1>4. CallsConsistent'
  <2>1. CallsConsistent
    BY DEF SynchInv, WaitInv
  <2>2. ASSUME NEW v \in Thread, pc[v] = "creating" PROVE arg[v] # u /\ arg[v] # t
    BY <1>1, <2>1, <2>2 DEF CallsConsistent
  <2> QED
    BY <1>1, <1>2, <2>1, <2>2 DEF CallsConsistent
<1>5. WaitersExact' /\ WaitsOnce'
  BY <1>1, <1>2 DEF SynchInv, WaitInv, WaitersExact, WaitsOnce
<1> QED
  BY <1>3, <1>4, <1>5 DEF WaitInv

(* The creator's thread_unblock() preserves WaitInv: the new thread is on  *)
(* no waiter list.                                                         *)
LEMMA UnblockNewKeeps ==
  ASSUME SynchInv, SchedInv', NEW t \in Thread, t = running, UnblockNew(t)
  PROVE  WaitInv'
<1> USE ThreadAssumption, SemaAssumption
<1> DEFINE u == arg[t]
<1>1. /\ pc \in [Thread -> PC] /\ arg \in [Thread -> Sema \cup Thread \cup {NoThread}]
      /\ status \in [Thread -> Status]
      /\ pc[t] = "creating" /\ status[t] = "RUNNING"
      /\ status' = [status EXCEPT ![u] = "READY"]
      /\ pc' = [pc EXCEPT ![t] = "run"]
      /\ arg' = [arg EXCEPT ![t] = NoThread]
      /\ UNCHANGED <<value, waiters, holder, locks>>
  BY DEF UnblockNew, ThreadUnblock, Goto, semaVars, SynchInv, WaitInv, SynchTypeOK, SchedInv,
         SchedTypeOK, OneRunning
<1>2. /\ u \in Thread \ {Idle} /\ pc[u] = "run"
      /\ \A v \in Thread : pc[v] = "creating" /\ arg[v] = u => v = t
  BY <1>1 DEF SynchInv, WaitInv, CallsConsistent
<1>3. SynchTypeOK'
  BY <1>1 DEF SynchInv, WaitInv, SchedInv, SynchTypeOK, PC
<1>4. CallsConsistent'
  BY <1>1, <1>2 DEF SynchInv, WaitInv, CallsConsistent
<1>5. WaitersExact' /\ WaitsOnce'
  BY <1>1, <1>2 DEF SynchInv, WaitInv, WaitersExact, WaitsOnce
<1> QED
  BY <1>3, <1>4, <1>5 DEF WaitInv

(* sema_down() preserves WaitInv, whichever way its test goes.             *)
LEMMA DownKeeps ==
  ASSUME SynchInv, SchedInv', NEW t \in Thread, t = running, t # Idle, NEW s \in Sema,
         pc[t] \in {"run", "down", "starting"}, SemaDown(t, s)
  PROVE  WaitInv'
<1>1. CASE Decrement(t, s, AfterDown(s))
  BY <1>1, DecrementKeeps DEF AfterDown
<1>2. CASE WaitOn(t, s)
  BY <1>2, WaitOnKeeps
<1> QED
  BY <1>1, <1>2 DEF SemaDown

(* Every step preserves the part of the invariant about sleeping and       *)
(* waking.                                                                 *)
LEMMA WaitInvStep ==
  ASSUME SynchInv, [SynchNext]_synchVars
  PROVE  WaitInv'
<1> USE ThreadAssumption, SemaAssumption
<1>0. SchedInv'
  BY StepIsSched, SchedInvStep DEF SynchInv, WaitInv
<1>1. PICK t \in Thread : t = running
  BY DEF SynchInv, WaitInv, SchedInv, SchedTypeOK
<1>2. CASE StartThreads \/ IdleAnnounce
  BY <1>0, <1>2, StartThreadsKeeps, IdleAnnounceKeeps
<1>3. CASE AwaitIdle
  BY <1>0, <1>1, <1>3, DownKeeps DEF AwaitIdle
<1>4. CASE IdleLoop
  BY <1>0, <1>4, IdleBlockStatus, QuietKeeps
     DEF IdleLoop, SynchInv, WaitInv, SameStatus, Vacant
<1>5. CASE Tick
  BY <1>0, <1>5, TickStatus, QuietKeeps
     DEF Tick, SynchInv, WaitInv, SameStatus, Vacant
<1>6. CASE \E s \in Public : IntrSemaUp(s)
  BY <1>0, <1>6, UpKeeps DEF IntrSemaUp
<1>7. CASE Retest(t)
  <2>1. arg[t] \in Sema /\ t # Idle
    BY <1>7 DEF Retest, SynchInv, WaitInv, CallsConsistent
  <2> QED
    BY <1>0, <1>1, <1>7, <2>1, DownKeeps DEF Retest
<1>8. CASE SetHolder(t) \/ FinishUp(t) \/ UnblockNew(t)
  BY <1>0, <1>1, <1>8, SetHolderKeeps, FinishUpKeeps, UnblockNewKeeps
<1>9. CASE t # Idle /\ Call(t)
  <2>1. CASE \E s \in Public : CallSemaDown(t, s)
    BY <1>0, <1>1, <1>9, <2>1, DownKeeps DEF CallSemaDown
  <2>2. CASE \E s \in Public : CallTryDown(t, s)
    BY <1>0, <1>1, <1>9, <2>2, DecrementKeeps DEF CallTryDown
  <2>3. CASE \E s \in Public : CallSemaUp(t, s)
    BY <1>0, <2>3, UpKeeps DEF CallSemaUp
  <2>4. CASE \E l \in Lock : LockAcquire(t, l)
    BY <1>0, <1>1, <1>9, <2>4, DownKeeps DEF LockAcquire
  <2>5. CASE \E l \in Lock : LockTryAcquire(t, l)
    BY <1>0, <1>1, <1>9, <2>5, DecrementKeeps DEF LockTryAcquire
  <2>6. CASE \E l \in Lock : LockRelease(t, l)
    BY <1>0, <1>1, <1>9, <2>6, LockReleaseKeeps
  <2>7. CASE \E u \in Thread : CreateThread(t, u)
    BY <1>0, <1>1, <1>9, <2>7, CreateThreadKeeps
  <2>8. CASE Yield(t)
    BY <1>0, <2>8, YieldStatus, QuietKeeps
       DEF Yield, SynchInv, WaitInv, SameStatus, Vacant
  <2>9. CASE Exit(t)
    BY <1>0, <1>1, <2>9, ExitStatus, QuietKeeps DEF Exit, SynchInv, WaitInv
  <2> QED
    BY <1>9, <2>1, <2>2, <2>3, <2>4, <2>5, <2>6, <2>7, <2>8, <2>9 DEF Call
<1>10. CASE UNCHANGED synchVars
  BY <1>0, <1>10, QuietStatus, QuietKeeps
     DEF synchVars, semaVars, pcVars, SameStatus, Vacant
<1> QED
  BY <1>1, <1>2, <1>3, <1>4, <1>5, <1>6, <1>7, <1>8, <1>9, <1>10 DEF SynchNext, Continue

-----------------------------------------------------------------------------
(* LockInv.  What matters of a step is whom it makes, or no longer makes,   *)
(* an owner.                                                                *)

(* A step that changes no lock's value, holder or owner preserves LockInv. *)
LEMMA LocksUntouched ==
  ASSUME LockInv, UNCHANGED <<holder, locks>>,
         \A l \in Lock : value'[l] = value[l],
         \A t \in Thread, l \in Lock : Owns(t, l)' <=> Owns(t, l)
  PROVE  LockInv'
<1>1. LockValue'
  BY DEF LockInv, LockValue
<1>2. MutualExclusion' /\ HolderExact'
  BY DEF LockInv, MutualExclusion, HolderExact
<1> QED
  BY <1>1, <1>2 DEF LockInv

(* A decrement makes its caller the one owner of a lock that had none.     *)
LEMMA DecrementLock ==
  ASSUME SynchInv, NEW t \in Thread, NEW s \in Sema,
         pc[t] \notin {"acquired", "releasing"},
         Decrement(t, s, AfterDown(s))
  PROVE  LockInv'
<1>1. /\ pc \in [Thread -> PC] /\ arg \in [Thread -> Sema \cup Thread \cup {NoThread}]
      /\ value \in [Sema -> Nat]
  BY DEF SynchInv, WaitInv, SynchTypeOK
<1>2. LockInv
  BY DEF SynchInv
<1>3. CASE s \notin Lock
  <2>1. \A l \in Lock : value'[l] = value[l]
    BY <1>1, <1>3, SemaAssumption DEF Decrement
  <2>2. \A u \in Thread, l \in Lock : Owns(u, l)' <=> Owns(u, l)
    BY <1>1, <1>3 DEF Decrement, Goto, AfterDown, Owns
  <2> QED
    BY <1>2, <2>1, <2>2, LocksUntouched DEF Decrement
<1>4. CASE s \in Lock
  <2>1. value[s] = 1 /\ \A u \in Thread : ~Owns(u, s)
    BY <1>2, <1>4 DEF LockInv, LockValue, Decrement
  <2>2. /\ Owns(t, s)'
        /\ \A u \in Thread, l \in Lock : Owns(u, l)' <=> Owns(u, l) \/ (u = t /\ l = s)
    BY <1>1, <1>4 DEF Decrement, Goto, AfterDown, Owns
  <2>3. \A l \in Lock : value'[l] = IF l = s THEN 0 ELSE value[l]
    BY <1>1, <2>1, SemaAssumption DEF Decrement
  <2>4. LockValue'
    BY <1>2, <2>1, <2>2, <2>3 DEF LockInv, LockValue
  <2>5. MutualExclusion'
    BY <1>2, <2>1, <2>2 DEF LockInv, MutualExclusion
  <2>6. HolderExact'
    BY <1>2 DEF Decrement, LockInv, HolderExact
  <2> QED
    BY <2>4, <2>5, <2>6 DEF LockInv
<1> QED
  BY <1>3, <1>4

(* Going to sleep on a semaphore changes no owner.                         *)
LEMMA WaitOnLock ==
  ASSUME SynchInv, NEW t \in Thread, NEW s \in Sema,
         pc[t] \notin {"acquired", "releasing"}, WaitOn(t, s)
  PROVE  LockInv'
<1>1. \A u \in Thread, l \in Lock : Owns(u, l)' <=> Owns(u, l)
  BY DEF WaitOn, Goto, Owns, SynchInv, WaitInv, SynchTypeOK
<1> QED
  BY <1>1, LocksUntouched DEF WaitOn, SynchInv

(* sema_down() preserves LockInv, whichever way its test goes.             *)
LEMMA DownLock ==
  ASSUME SynchInv, NEW t \in Thread, NEW s \in Sema,
         pc[t] \notin {"acquired", "releasing"}, SemaDown(t, s)
  PROVE  LockInv'
  BY DecrementLock, WaitOnLock DEF SemaDown

(* A sema_up() of a semaphore outside locks preserves LockInv.             *)
LEMMA UpLock ==
  ASSUME SynchInv, NEW s \in Sema \ Lock, SemaUp(s), UNCHANGED <<holder, pcVars, locks>>
  PROVE  LockInv'
<1>1. \A l \in Lock : value'[l] = value[l]
  BY SemaAssumption DEF SemaUp, SynchInv, WaitInv, SynchTypeOK
<1>2. \A u \in Thread, l \in Lock : Owns(u, l)' <=> Owns(u, l)
  BY DEF pcVars, Owns
<1> QED
  BY <1>1, <1>2, LocksUntouched DEF SynchInv

(* The sema_up() of lock_release() takes the lock from its one owner.      *)
LEMMA FinishUpLock ==
  ASSUME SynchInv, NEW t \in Thread, FinishUp(t)
  PROVE  LockInv'
<1> DEFINE s == arg[t]
<1>1. /\ pc \in [Thread -> PC] /\ arg \in [Thread -> Sema \cup Thread \cup {NoThread}]
      /\ value \in [Sema -> Nat]
      /\ s \in (Lock \ locks[t]) \cup {IdleStarted}
      /\ pc[t] = "releasing"
      /\ pc' = [pc EXCEPT ![t] = "run"]
      /\ arg' = [arg EXCEPT ![t] = NoThread]
      /\ value' = [value EXCEPT ![s] = @ + 1]
      /\ UNCHANGED <<holder, locks>>
  BY DEF FinishUp, SemaUp, Goto, SynchInv, WaitInv, SynchTypeOK, CallsConsistent
<1>2. LockInv
  BY DEF SynchInv
<1>3. CASE s \notin Lock
  <2>1. \A l \in Lock : value'[l] = value[l]
    BY <1>1, <1>3, SemaAssumption
  <2>2. \A u \in Thread, l \in Lock : Owns(u, l)' <=> Owns(u, l)
    BY <1>1, <1>3 DEF Owns
  <2> QED
    BY <1>1, <1>2, <2>1, <2>2, LocksUntouched
<1>4. CASE s \in Lock
  <2>1. value[s] = 0 /\ \A u \in Thread : Owns(u, s) => u = t
    BY <1>1, <1>2, <1>4 DEF LockInv, LockValue, MutualExclusion, Owns
  <2>2. \A u \in Thread, l \in Lock : Owns(u, l)' <=> Owns(u, l) /\ ~(u = t /\ l = s)
    <3>1. \A l \in Lock : Owns(t, l)' <=> Owns(t, l) /\ l # s
      BY <1>1, <1>4, SemaAssumption DEF Owns
    <3>2. \A u \in Thread \ {t}, l \in Lock : Owns(u, l)' <=> Owns(u, l)
      BY <1>1 DEF Owns
    <3> QED
      BY <3>1, <3>2
  <2>3. \A l \in Lock : value'[l] = IF l = s THEN 1 ELSE value[l]
    BY <1>1, <2>1, SemaAssumption
  <2>4. LockValue'
    BY <1>2, <2>1, <2>2, <2>3 DEF LockInv, LockValue
  <2>5. MutualExclusion'
    BY <1>2, <2>2 DEF LockInv, MutualExclusion
  <2>6. HolderExact'
    BY <1>1, <1>2 DEF LockInv, HolderExact
  <2> QED
    BY <2>4, <2>5, <2>6 DEF LockInv
<1> QED
  BY <1>3, <1>4

(* Setting lock->holder preserves LockInv: its one owner sets it.          *)
LEMMA SetHolderLock ==
  ASSUME SynchInv, NEW t \in Thread, SetHolder(t)
  PROVE  LockInv'
<1> DEFINE s == arg[t]
<1>1. /\ pc \in [Thread -> PC] /\ arg \in [Thread -> Sema \cup Thread \cup {NoThread}]
      /\ locks \in [Thread -> SUBSET Lock]
      /\ holder \in [Lock -> Thread \cup {NoThread}]
      /\ s \in Lock
      /\ pc[t] = "acquired"
      /\ pc' = [pc EXCEPT ![t] = "run"]
      /\ arg' = [arg EXCEPT ![t] = NoThread]
      /\ holder' = [holder EXCEPT ![s] = t]
      /\ locks' = [locks EXCEPT ![t] = @ \cup {s}]
      /\ value' = value
  BY DEF SetHolder, semaVars, Goto, SynchInv, WaitInv, SynchTypeOK, CallsConsistent
<1>2. LockInv
  BY DEF SynchInv
<1>3. \A u \in Thread, l \in Lock : Owns(u, l)' <=> Owns(u, l)
  BY <1>1 DEF Owns
<1>4. LockValue' /\ MutualExclusion'
  BY <1>1, <1>2, <1>3 DEF LockInv, LockValue, MutualExclusion
<1>5. \A u \in Thread \ {t} : s \notin locks[u]
  BY <1>1, <1>2 DEF LockInv, MutualExclusion, Owns
<1>6. HolderExact'
  BY <1>1, <1>2, <1>5 DEF LockInv, HolderExact
<1> QED
  BY <1>4, <1>6 DEF LockInv

(* Clearing lock->holder preserves LockInv: the caller still owns the lock *)
(* until its sema_up().                                                    *)
LEMMA LockReleaseLock ==
  ASSUME SynchInv, NEW t \in Thread, NEW s \in Lock, LockRelease(t, s)
  PROVE  LockInv'
<1>1. /\ pc \in [Thread -> PC] /\ arg \in [Thread -> Sema \cup Thread \cup {NoThread}]
      /\ locks \in [Thread -> SUBSET Lock]
      /\ holder \in [Lock -> Thread \cup {NoThread}]
      /\ pc[t] = "run" /\ s \in locks[t]
      /\ pc' = [pc EXCEPT ![t] = "releasing"]
      /\ arg' = [arg EXCEPT ![t] = s]
      /\ holder' = [holder EXCEPT ![s] = NoThread]
      /\ locks' = [locks EXCEPT ![t] = @ \ {s}]
      /\ value' = value
  BY DEF LockRelease, semaVars, Goto, SynchInv, WaitInv, SynchTypeOK
<1>2. LockInv
  BY DEF SynchInv
<1>3. \A u \in Thread, l \in Lock : Owns(u, l)' <=> Owns(u, l)
  BY <1>1 DEF Owns
<1>4. LockValue' /\ MutualExclusion'
  BY <1>1, <1>2, <1>3 DEF LockInv, LockValue, MutualExclusion
<1>5. \A u \in Thread \ {t} : s \notin locks[u]
  BY <1>1, <1>2 DEF LockInv, MutualExclusion, Owns
<1>6. HolderExact'
  BY <1>1, <1>2, <1>5, ThreadAssumption DEF LockInv, HolderExact
<1> QED
  BY <1>4, <1>6 DEF LockInv

(* A step of a thread that is not in a lock function, to such a place. *)
LEMMA MoveLock ==
  ASSUME SynchInv, NEW t \in Thread, UNCHANGED <<semaVars, holder, locks>>,
         pc[t] \notin {"acquired", "releasing"},
         NEW label, NEW x, Goto(t, label, x),
         label \notin {"acquired", "releasing"} \/ x \notin Lock
  PROVE  LockInv'
<1>1. \A u \in Thread, l \in Lock : Owns(u, l)' <=> Owns(u, l)
  BY DEF Goto, Owns, SynchInv, WaitInv, SynchTypeOK
<1> QED
  BY <1>1, LocksUntouched DEF SynchInv, semaVars

(* Every step preserves the part of the invariant about locks.             *)
LEMMA LockInvStep ==
  ASSUME SynchInv, [SynchNext]_synchVars
  PROVE  LockInv'
<1> USE ThreadAssumption, SemaAssumption
<1>1. PICK t \in Thread : t = running
  BY DEF SynchInv, WaitInv, SchedInv, SchedTypeOK
<1>2. CASE StartThreads
  BY <1>2, MoveLock DEF StartThreads
<1>3. CASE IdleAnnounce
  <2>1. pc[Idle] = "run" \/ arg[Idle] = IdleStarted
    BY DEF SynchInv, WaitInv, CallsConsistent
  <2>2. \A u \in Thread, l \in Lock : Owns(u, l)' <=> Owns(u, l)
    BY <1>3, <2>1 DEF IdleAnnounce, Goto, Owns, SynchInv, WaitInv, SynchTypeOK
  <2> QED
    BY <1>3, <2>2, LocksUntouched DEF IdleAnnounce, semaVars, SynchInv
<1>4. CASE AwaitIdle
  BY <1>4, DownLock DEF AwaitIdle
<1>5. CASE IdleLoop \/ Tick \/ Yield(t) \/ Exit(t) \/ UNCHANGED synchVars
  <2>1. UNCHANGED <<value, holder, pc, arg, locks>>
    BY <1>5 DEF IdleLoop, Tick, Yield, Exit, synchVars, semaVars, pcVars
  <2> QED
    BY <2>1, LocksUntouched DEF Owns, SynchInv
<1>6. CASE \E s \in Public : IntrSemaUp(s) \/ CallSemaUp(t, s)
  BY <1>6, UpLock DEF IntrSemaUp, CallSemaUp
<1>7. CASE Retest(t)
  <2>1. arg[t] \in Sema
    BY <1>7 DEF Retest, SynchInv, WaitInv, CallsConsistent
  <2> QED
    BY <1>7, <2>1, DownLock DEF Retest
<1>8. CASE SetHolder(t) \/ FinishUp(t)
  BY <1>8, SetHolderLock, FinishUpLock
<1>9. CASE UnblockNew(t) \/ \E u \in Thread : CreateThread(t, u)
  BY <1>9, MoveLock DEF UnblockNew, CreateThread
<1>10. CASE \E s \in Public : CallSemaDown(t, s) \/ CallTryDown(t, s)
  BY <1>10, DownLock, DecrementLock DEF CallSemaDown, CallTryDown, AfterDown
<1>11. CASE \E l \in Lock : LockAcquire(t, l) \/ LockTryAcquire(t, l)
  BY <1>11, DownLock, DecrementLock DEF LockAcquire, LockTryAcquire, AfterDown
<1>12. CASE \E l \in Lock : LockRelease(t, l)
  BY <1>12, LockReleaseLock
<1> QED
  BY <1>1, <1>2, <1>3, <1>4, <1>5, <1>6, <1>7, <1>8, <1>9, <1>10, <1>11, <1>12
     DEF SynchNext, Continue, Call

-----------------------------------------------------------------------------
(* The invariant holds after lock_init(), sema_init() and thread_init().   *)
LEMMA SynchInvInit == SynchInit => SynchInv
<1> SUFFICES ASSUME SynchInit PROVE SynchInv
  OBVIOUS
<1> USE ThreadAssumption, SemaAssumption
<1>1. SchedInv
  BY SchedInvInit DEF SynchInit
<1>2. SynchTypeOK
  <2>1. SchedTypeOK
    BY <1>1 DEF SchedInv
  <2>2. value \in [Sema -> Nat] /\ waiters \in [Sema -> Seq(Thread)]
    BY DEF SynchInit
  <2>3. /\ holder \in [Lock -> Thread \cup {NoThread}]
        /\ pc \in [Thread -> PC]
        /\ arg \in [Thread -> Sema \cup Thread \cup {NoThread}]
        /\ locks \in [Thread -> SUBSET Lock]
    BY DEF SynchInit, PC
  <2> QED
    BY <2>1, <2>2, <2>3 DEF SynchTypeOK
<1>5. CallsConsistent
  BY DEF SynchInit, SchedInit, CallsConsistent
<1>3. WaitersExact /\ WaitsOnce
  BY EmptyList DEF SynchInit, WaitersExact, WaitsOnce, Distinct
<1>4. LockInv
  BY DEF SynchInit, LockInv, LockValue, MutualExclusion, HolderExact, Owns
<1> QED
  BY <1>1, <1>2, <1>3, <1>4, <1>5 DEF SynchInv, WaitInv

(* The invariant holds in every reachable state.                           *)
THEOREM SynchInvariant == SynchSpec => []SynchInv
<1>1. SynchInv /\ [SynchNext]_synchVars => SynchInv'
  BY WaitInvStep, LockInvStep DEF SynchInv
<1> QED
  BY <1>1, SynchInvInit, PTL DEF SynchSpec

(* Threads that use semaphores and locks keep the scheduler's interface. *)
THEOREM SynchKeepsScheduler == SynchSpec => KeepsScheduler
<1>1. SynchInit => SchedInit
  BY DEF SynchInit
<1>2. SynchInv /\ [SynchNext]_synchVars => [SchedNext]_schedVars
  BY StepIsSched DEF SynchInv
<1> QED
  BY <1>1, <1>2, SynchInvariant, PTL DEF SynchSpec, SchedSpec, KeepsScheduler

(* Every variable keeps its type.                                          *)
THEOREM SynchTypeCorrect == SynchSpec => []SynchTypeOK
<1>1. SynchInv => SynchTypeOK
  BY DEF SynchInv, WaitInv
<1> QED
  BY <1>1, SynchInvariant, PTL

(* A waiter list holds exactly the threads blocked in its sema_down(). *)
THEOREM SynchWaitersExact == SynchSpec => []WaitersExact
<1>1. SynchInv => WaitersExact
  BY DEF SynchInv, WaitInv
<1> QED
  BY <1>1, SynchInvariant, PTL

(* At most one thread is between a lock's two halves. *)
THEOREM SynchMutualExclusion == SynchSpec => []MutualExclusion
<1>1. SynchInv => MutualExclusion
  BY DEF SynchInv, LockInv
<1> QED
  BY <1>1, SynchInvariant, PTL

(* No thread's list element is on a waiter list twice. *)
THEOREM SynchWaitsOnce == SynchSpec => []WaitsOnce
<1>1. SynchInv => WaitsOnce
  BY DEF SynchInv, WaitInv
<1> QED
  BY <1>1, SynchInvariant, PTL

(* Nobody frees or runs a thread whose creator is still building it, and   *)
(* the idle thread never sleeps on a semaphore.                            *)
THEOREM SynchCallsConsistent == SynchSpec => []CallsConsistent
<1>1. SynchInv => CallsConsistent
  BY DEF SynchInv, WaitInv
<1> QED
  BY <1>1, SynchInvariant, PTL

(* A lock's semaphore is 0 exactly while the lock has an owner. *)
THEOREM SynchLockValue == SynchSpec => []LockValue
<1>1. SynchInv => LockValue
  BY DEF SynchInv, LockInv
<1> QED
  BY <1>1, SynchInvariant, PTL

(* lock->holder is right whenever lock_release() may assert it. *)
THEOREM SynchHolderExact == SynchSpec => []HolderExact
<1>1. SynchInv => HolderExact
  BY DEF SynchInv, LockInv
<1> QED
  BY <1>1, SynchInvariant, PTL

-----------------------------------------------------------------------------
(* Callers see an abstract lock: l is added to locks[t] by SetHolder, when  *)
(* t is its one owner, and removed by LockRelease.                          *)

(* The last statement of lock_acquire() is an acquire of the abstract      *)
(* lock.                                                                   *)
LEMMA AcquireIsAbstract ==
  ASSUME SynchInv, NEW t \in Thread, SetHolder(t)
  PROVE  Abstract!Next
<1>1. arg[t] \in Lock \ locks[t] /\ Owns(t, arg[t])
  BY DEF SetHolder, Owns, SynchInv, WaitInv, CallsConsistent
<1>2. \A u \in Thread : arg[t] \notin locks[u]
  BY <1>1 DEF SynchInv, LockInv, MutualExclusion, Owns
<1>3. Abstract!Acquire(t, arg[t])
  BY <1>2 DEF SetHolder, Abstract!Acquire
<1> QED
  BY <1>1, <1>3 DEF Abstract!Next

(* Only lock_acquire() and lock_release() change what a thread holds.      *)
LEMMA OthersKeepLocks ==
  ASSUME SynchInv, [SynchNext]_synchVars
  PROVE  \/ UNCHANGED locks
         \/ SetHolder(running)
         \/ \E l \in Lock : LockRelease(running, l)
<1>1. \A t, s : SemaDown(t, s) => UNCHANGED locks
  BY DEF SemaDown, Decrement, WaitOn
<1> QED
  BY <1>1
     DEF SynchNext, StartThreads, AwaitIdle, IdleAnnounce, IdleLoop, Tick, IntrSemaUp,
         Continue, Retest, FinishUp, UnblockNew, Call, CallSemaDown, CallTryDown, CallSemaUp,
         LockAcquire, LockTryAcquire, Decrement, CreateThread, Yield, Exit, synchVars

(* Locks implement the abstract lock: acquired only while nobody has them, *)
(* released only by the thread that has them.                              *)
THEOREM SynchImplementsLocks == SynchSpec => ImplementsLocks
<1>1. SynchInit => Abstract!Init
  BY DEF SynchInit, Abstract!Init
<1>2. SynchInv /\ [SynchNext]_synchVars => [Abstract!Next]_locks
  <2> SUFFICES ASSUME SynchInv, [SynchNext]_synchVars PROVE [Abstract!Next]_locks
    OBVIOUS
  <2>1. PICK t \in Thread : t = running
    BY DEF SynchInv, WaitInv, SchedInv, SchedTypeOK
  <2>2. CASE SetHolder(t)
    BY <2>2, AcquireIsAbstract
  <2>3. ASSUME NEW l \in Lock, LockRelease(t, l) PROVE Abstract!Next
    <3>1. Abstract!Release(t, l)
      BY <2>3 DEF LockRelease, Abstract!Release
    <3> QED
      BY <3>1 DEF Abstract!Next
  <2> QED
    BY <2>1, <2>2, <2>3, OthersKeepLocks
<1> QED
  BY <1>1, <1>2, SynchInvariant, PTL DEF SynchSpec, ImplementsLocks, Abstract!Spec

-----------------------------------------------------------------------------
(* NoLostWakeup.  sema_up() adds one unit and, if anybody sleeps, one woken *)
(* thread; a thread that takes a unit, woken or not, takes one of each at   *)
(* most; and a woken thread goes back to sleep only if it finds no unit.    *)

(* The woken threads of a semaphore can be counted.                        *)
LEMMA WokenFinite ==
  ASSUME NEW s
  PROVE  IsFiniteSet(Woken(s)) /\ Cardinality(Woken(s)) \in Nat
  BY SemaAssumption, FS_Subset, FS_CardinalityType DEF Woken

(* A step that changes no semaphore and wakes nobody inside sema_down(). *)
LEMMA QuietWake ==
  ASSUME NoLostWakeup, UNCHANGED semaVars,
         \A u \in Thread :
            /\ pc'[u] = "down" <=> pc[u] = "down"
            /\ pc[u] = "down" =>
                 arg'[u] = arg[u] /\ (status'[u] = "BLOCKED" <=> status[u] = "BLOCKED")
  PROVE  NoLostWakeup'
<1>1. \A s \in Sema : Woken(s)' = Woken(s)
  BY DEF Woken
<1> QED
  BY <1>1 DEF NoLostWakeup, semaVars

(* A step of a thread outside sema_down() that wakes nobody loses no       *)
(* wakeup.                                                                 *)
LEMMA SameStatusWake ==
  ASSUME SynchInv, NoLostWakeup, UNCHANGED semaVars, SameStatus,
         NEW t \in Thread, pc[t] # "down", NEW label, NEW x, label # "down",
         Goto(t, label, x)
  PROVE  NoLostWakeup'
<1>1. \A u \in Thread : pc[u] = "down" => u # Idle
  BY DEF SynchInv, WaitInv, CallsConsistent
<1> QED
  BY <1>1, QuietWake
     DEF Goto, SameStatus, Sleeps, SynchInv, WaitInv, SynchTypeOK

(* A decrement loses no wakeup: it lowers the value by one and at most its *)
(* caller leaves the woken threads.                                        *)
LEMMA DecrementWake ==
  ASSUME SynchInv, NoLostWakeup, NEW t \in Thread, NEW s \in Sema, NEW label,
         label # "down", pc[t] = "down" => arg[t] = s,
         Decrement(t, s, label)
  PROVE  NoLostWakeup'
<1>1. /\ pc \in [Thread -> PC] /\ arg \in [Thread -> Sema \cup Thread \cup {NoThread}]
      /\ value \in [Sema -> Nat] /\ value[s] > 0
      /\ value' = [value EXCEPT ![s] = @ - 1]
      /\ pc' = [pc EXCEPT ![t] = label]
      /\ \A u \in Thread \ {t} : arg'[u] = arg[u]
      /\ UNCHANGED <<status, waiters>>
  BY DEF Decrement, Goto, schedVars, SynchInv, WaitInv, SynchTypeOK
<1>2. ASSUME NEW r \in Sema, r # s, waiters'[r] # << >>
      PROVE  value'[r] <= Cardinality(Woken(r)')
  <2>1. Woken(r)' = Woken(r)
    BY <1>1, <1>2 DEF Woken
  <2> QED
    BY <1>1, <1>2, <2>1 DEF NoLostWakeup
<1>3. ASSUME waiters'[s] # << >> PROVE value'[s] <= Cardinality(Woken(s)')
  <2>1. Woken(s)' = Woken(s) \ {t}
    BY <1>1 DEF Woken
  <2>2. Cardinality(Woken(s) \ {t}) >= Cardinality(Woken(s)) - 1
    BY WokenFinite, FS_RemoveElement
  <2>3. value[s] <= Cardinality(Woken(s))
    BY <1>1, <1>3 DEF NoLostWakeup
  <2>4. Cardinality(Woken(s)) \in Nat /\ Cardinality(Woken(s) \ {t}) \in Nat
    BY WokenFinite, FS_RemoveElement, FS_CardinalityType
  <2> QED
    BY <1>1, <2>1, <2>2, <2>3, <2>4
<1> QED
  BY <1>2, <1>3 DEF NoLostWakeup

(* Going to sleep loses no wakeup, since the value is then 0.              *)
LEMMA WaitOnWake ==
  ASSUME SynchInv, NoLostWakeup, NEW t \in Thread, t = running, t # Idle, NEW s \in Sema,
         pc[t] = "down" => arg[t] = s,
         WaitOn(t, s)
  PROVE  NoLostWakeup'
<1>1. /\ pc \in [Thread -> PC] /\ arg \in [Thread -> Sema \cup Thread \cup {NoThread}]
      /\ value[s] = 0 /\ value' = value
      /\ waiters' = [waiters EXCEPT ![s] = Append(@, t)]
      /\ waiters \in [Sema -> Seq(Thread)]
      /\ pc' = [pc EXCEPT ![t] = "down"]
      /\ arg' = [arg EXCEPT ![t] = s]
  BY DEF WaitOn, Goto, SynchInv, WaitInv, SynchTypeOK
<1>2. \A u \in Thread \ {Idle, t} : status'[u] = "BLOCKED" <=> status[u] = "BLOCKED"
  BY BlockStatus DEF WaitOn, Sleeps, SynchInv, WaitInv
<1>3. pc[Idle] # "down"
  BY DEF SynchInv, WaitInv, CallsConsistent
<1>4. ASSUME NEW r \in Sema, r # s, waiters'[r] # << >>
      PROVE  value'[r] <= Cardinality(Woken(r)')
  <2>1. Woken(r)' = Woken(r)
    BY <1>1, <1>2, <1>3, <1>4 DEF Woken
  <2> QED
    BY <1>1, <1>4, <2>1 DEF NoLostWakeup
<1>5. value'[s] <= Cardinality(Woken(s)')
  <2>1. IsFiniteSet(Woken(s)')
    BY SemaAssumption, FS_Subset DEF Woken
  <2>2. Cardinality(Woken(s)') \in Nat
    BY <2>1, FS_CardinalityType
  <2> QED
    BY <1>1, <2>2
<1> QED
  BY <1>4, <1>5 DEF NoLostWakeup

(* sema_down() loses no wakeup, whichever way its test goes.               *)
LEMMA DownWake ==
  ASSUME SynchInv, NoLostWakeup, NEW t \in Thread, t = running, t # Idle, NEW s \in Sema,
         pc[t] = "down" => arg[t] = s, SemaDown(t, s)
  PROVE  NoLostWakeup'
  BY DecrementWake, WaitOnWake DEF SemaDown, AfterDown

(* sema_up() loses no wakeup: it raises the value by one and, if anybody   *)
(* sleeps, adds a woken thread.                                            *)
LEMMA UpWake ==
  ASSUME SynchInv, NoLostWakeup, NEW s \in Sema, SemaUp(s),
         \A u \in Thread : /\ pc'[u] = "down" <=> pc[u] = "down"
                           /\ pc[u] = "down" => arg'[u] = arg[u]
  PROVE  NoLostWakeup'
<1>1. value \in [Sema -> Nat] /\ value' = [value EXCEPT ![s] = @ + 1]
  BY DEF SemaUp, SynchInv, WaitInv, SynchTypeOK
<1>2. \A u \in Thread : pc[u] = "down" =>
         (status'[u] = "BLOCKED" <=> status[u] = "BLOCKED" /\ ~IsFirst(s, u))
  BY UpEffect DEF Sleeps, SynchInv, WaitInv, CallsConsistent
<1>3. waiters \in [Sema -> Seq(Thread)]
  BY DEF SynchInv, WaitInv, SynchTypeOK
<1>4. ASSUME NEW r \in Sema, r # s, waiters'[r] # << >>
      PROVE  value'[r] <= Cardinality(Woken(r)')
  <2>1. \A u \in Thread : IsFirst(s, u) => arg[u] = s
    BY FirstWaiter DEF IsFirst, SynchInv
  <2>2. Woken(r)' = Woken(r)
    BY <1>2, <1>4, <2>1 DEF Woken
  <2>3. waiters'[r] = waiters[r]
    BY <1>3, <1>4 DEF SemaUp
  <2> QED
    BY <1>1, <1>4, <2>2, <2>3 DEF NoLostWakeup
<1>5. ASSUME waiters'[s] # << >> PROVE value'[s] <= Cardinality(Woken(s)')
  <2>1. waiters[s] # << >>
    BY <1>3, <1>5 DEF SemaUp
  <2> DEFINE w == Head(waiters[s])
  <2>2. /\ w \in Thread /\ status[w] = "BLOCKED" /\ pc[w] = "down" /\ arg[w] = s
        /\ \A u : IsFirst(s, u) <=> u = w
    BY <2>1, FirstWaiter DEF IsFirst, SynchInv
  <2>3. Woken(s)' = Woken(s) \cup {w} /\ w \notin Woken(s)
    BY <1>2, <2>2 DEF Woken
  <2>4. Cardinality(Woken(s)') = Cardinality(Woken(s)) + 1
    BY <2>3, WokenFinite, FS_AddElement
  <2> QED
    BY <1>1, <2>1, <2>4, WokenFinite DEF NoLostWakeup
<1> QED
  BY <1>4, <1>5 DEF NoLostWakeup

(* No step loses a wakeup.                                                 *)
LEMMA NoLostWakeupStep ==
  ASSUME SynchInv, NoLostWakeup, [SynchNext]_synchVars
  PROVE  NoLostWakeup'
<1> USE ThreadAssumption, SemaAssumption
<1>1. PICK t \in Thread : t = running
  BY DEF SynchInv, WaitInv, SchedInv, SchedTypeOK
<1>2. SchedInv /\ \A u \in Thread : pc[u] = "down" => u # Idle
  BY DEF SynchInv, WaitInv, CallsConsistent
<1>3. CASE StartThreads
  <2>1. SameStatus
    BY <1>2, <1>3 DEF StartThreads, ThreadStart, SchedInv, SchedTypeOK, SameStatus,
                      Sleeps, Vacant
  <2> QED
    BY <1>3, <2>1, SameStatusWake DEF StartThreads
<1>4. CASE IdleAnnounce
  <2>1. SameStatus
    BY <1>4 DEF IdleAnnounce, SetIdle, SameStatus, Sleeps, Vacant
  <2> QED
    BY <1>2, <1>4, <2>1, SameStatusWake DEF IdleAnnounce
<1>5. CASE AwaitIdle
  BY <1>5, DownWake DEF AwaitIdle
<1>6. CASE IdleLoop \/ Tick \/ Yield(t) \/ UNCHANGED synchVars
  <2>1. SameStatus
    BY <1>2, <1>6, IdleBlockStatus, TickStatus, YieldStatus, QuietStatus
       DEF IdleLoop, Tick, Yield, synchVars
  <2>2. UNCHANGED <<value, waiters, pc, arg>>
    BY <1>6 DEF IdleLoop, Tick, Yield, synchVars, semaVars, pcVars
  <2> QED
    BY <1>2, <2>1, <2>2, QuietWake DEF SameStatus, Sleeps, semaVars
<1>7. CASE Exit(t)
  BY <1>2, <1>7, ExitStatus, QuietWake DEF Exit, pcVars, Sleeps
<1>8. CASE \E s \in Public : IntrSemaUp(s) \/ CallSemaUp(t, s)
  BY <1>8, UpWake DEF IntrSemaUp, CallSemaUp, pcVars
<1>9. CASE Retest(t)
  <2>1. arg[t] \in Sema
    BY <1>9 DEF Retest, SynchInv, WaitInv, CallsConsistent
  <2> QED
    BY <1>1, <1>2, <1>9, <2>1, DownWake DEF Retest
<1>10. CASE SetHolder(t)
  BY <1>10, QuietStatus, SameStatusWake DEF SetHolder
<1>11. CASE FinishUp(t)
  <2>1. arg[t] \in Sema
    BY <1>11 DEF FinishUp, SynchInv, WaitInv, CallsConsistent
  <2> QED
    BY <1>11, <2>1, UpWake DEF FinishUp, Goto, SynchInv, WaitInv, SynchTypeOK
<1>12. CASE UnblockNew(t)
  <2>1. arg[t] \in Thread /\ pc[arg[t]] = "run"
    BY <1>12 DEF UnblockNew, SynchInv, WaitInv, CallsConsistent
  <2> QED
    BY <1>2, <1>12, <2>1, QuietWake
       DEF UnblockNew, ThreadUnblock, Goto, SchedInv, SchedTypeOK, SynchInv, WaitInv,
           SynchTypeOK
<1>13. ASSUME NEW u \in Thread, CreateThread(t, u) PROVE NoLostWakeup'
  <2>1. status' = [status EXCEPT ![u] = "BLOCKED"] /\ status[u] = "FREE"
    BY <1>13 DEF CreateThread, InitThread
  <2>2. pc[u] # "down"
    BY <2>1 DEF SynchInv, WaitInv, CallsConsistent
  <2> QED
    BY <1>2, <1>13, <2>1, <2>2, QuietWake
       DEF CreateThread, Goto, SchedInv, SchedTypeOK, SynchInv, WaitInv, SynchTypeOK
<1>14. CASE t # Idle /\ \E s \in Public : CallSemaDown(t, s) \/ CallTryDown(t, s)
  BY <1>1, <1>14, DownWake, DecrementWake DEF CallSemaDown, CallTryDown
<1>15. CASE t # Idle /\ \E l \in Lock : LockAcquire(t, l) \/ LockTryAcquire(t, l)
  BY <1>1, <1>15, DownWake, DecrementWake DEF LockAcquire, LockTryAcquire
<1>16. CASE \E l \in Lock : LockRelease(t, l)
  BY <1>16, QuietStatus, SameStatusWake DEF LockRelease
<1> QED
  BY <1>1, <1>3, <1>4, <1>5, <1>6, <1>7, <1>8, <1>9, <1>10, <1>11, <1>12, <1>13, <1>14,
     <1>15, <1>16
     DEF SynchNext, Continue, Call

(* No wakeup is lost, for any number of semaphores and threads. *)
THEOREM SynchNoLostWakeup == SynchSpec => []NoLostWakeup
<1>1. SynchInit => NoLostWakeup
  BY DEF SynchInit, NoLostWakeup
<1>2. SynchInv /\ NoLostWakeup /\ [SynchNext]_synchVars => NoLostWakeup'
  BY NoLostWakeupStep
<1> QED
  BY <1>1, <1>2, SynchInvariant, PTL DEF SynchSpec
=============================================================================
