------------------------------ MODULE Threads ------------------------------
(***************************************************************************)
(* The scheduler of threads/thread.c: thread states, the run queue, the    *)
(* idle thread and timer preemption on one CPU.  Code that runs with       *)
(* interrupts off is one action; between two actions the timer may preempt *)
(* the running thread.  Why a thread blocks, and who unblocks it, is left  *)
(* open here: module Synch adds semaphores and locks on top.               *)
(***************************************************************************)
EXTENDS Naturals, Sequences

CONSTANTS
  Thread,      \* the pages that can hold a struct thread
  Main,        \* initial_thread
  Idle,        \* the thread created by thread_start() to run idle()
  NoThread,    \* the null pointer
  TimeSlice    \* the literal 100 that thread_tick() compares with

ASSUME ThreadAssumption ==
  /\ Main \in Thread
  /\ Idle \in Thread
  /\ Main # Idle
  /\ NoThread \notin Thread
  /\ TimeSlice \in Nat \ {0}

(* struct thread's status; "FREE" is a page that holds no thread. *)
Status == {"FREE", "RUNNING", "READY", "BLOCKED", "DYING"}

VARIABLES
  status,        \* t->status
  running,       \* the thread whose stack the CPU is on
  ready_list,    \* the run queue, oldest first
  idle_thread,   \* set by idle() when it first runs
  thread_ticks   \* timer ticks since the last switch

schedVars == <<status, running, ready_list, idle_thread, thread_ticks>>

InList(q, t) == \E i \in 1..Len(q) : q[i] = t

Distinct(q) == \A i, j \in 1..Len(q) : q[i] = q[j] => i = j

(* Interrupts stay off until thread_start() has queued the idle thread. *)
Booted == status[Idle] # "FREE"

SchedInit ==
  /\ status = [t \in Thread |-> IF t = Main THEN "RUNNING" ELSE "FREE"]
  /\ running = Main
  /\ ready_list = << >>
  /\ idle_thread = NoThread
  /\ thread_ticks = 0

-----------------------------------------------------------------------------
NextThreadToRun(queue) == IF queue = << >> THEN idle_thread ELSE Head(queue)

(* schedule() and thread_schedule_tail(): the caller has already given the *)
(* running thread its new status st and pushed it on the queue if it stays *)
(* runnable.                                                               *)
Schedule(queue, st) ==
  LET next == NextThreadToRun(queue) IN
  /\ running' = next
  /\ ready_list' = IF queue = << >> THEN << >> ELSE Tail(queue)
  /\ status' = [st EXCEPT ![next] = "RUNNING"]
  /\ thread_ticks' = 0
  /\ UNCHANGED idle_thread

ThreadBlock ==
  /\ Booted
  /\ Schedule(ready_list, [status EXCEPT ![running] = "BLOCKED"])

(* Mutant: list_push_front(). *)
ThreadUnblockFront(t) ==
  /\ status[t] = "BLOCKED"
  /\ ready_list' = <<t>> \o ready_list
  /\ status' = [status EXCEPT ![t] = "READY"]
  /\ UNCHANGED <<running, idle_thread, thread_ticks>>

ThreadUnblock(t) ==
  /\ status[t] = "BLOCKED"
  /\ ready_list' = Append(ready_list, t)
  /\ status' = [status EXCEPT ![t] = "READY"]
  /\ UNCHANGED <<running, idle_thread, thread_ticks>>

(* Mutant: list_push_front(). *)
ThreadYieldFront ==
  /\ Booted
  /\ Schedule(IF running = idle_thread THEN ready_list ELSE <<running>> \o ready_list,
              [status EXCEPT ![running] = "READY"])

ThreadYield ==
  /\ Booted
  /\ Schedule(IF running = idle_thread THEN ready_list
                                       ELSE Append(ready_list, running),
              [status EXCEPT ![running] = "READY"])

(* The page of a dying thread is freed by the thread switched to, within   *)
(* the same stretch of disabled interrupts; initial_thread's page never is. *)
ThreadExit ==
  /\ Booted
  /\ running # Idle
  /\ Schedule(ready_list,
              [status EXCEPT ![running] = IF running = Main THEN "DYING" ELSE "FREE"])

(* thread_create() and fork_create() up to thread_unblock(): the new page  *)
(* holds a blocked thread that no list but all_list knows.                 *)
InitThread(t) ==
  /\ Booted
  /\ status[t] = "FREE"
  /\ status' = [status EXCEPT ![t] = "BLOCKED"]
  /\ UNCHANGED <<running, ready_list, idle_thread, thread_ticks>>

(* Mutant: the idle thread is READY without being on the run queue. *)
ThreadStartUnqueued ==
  /\ ~Booted
  /\ status' = [status EXCEPT ![Idle] = "READY"]
  /\ UNCHANGED <<running, ready_list, idle_thread, thread_ticks>>

(* thread_start() creates the idle thread before it enables interrupts. *)
ThreadStart ==
  /\ ~Booted
  /\ status' = [status EXCEPT ![Idle] = "READY"]
  /\ ready_list' = Append(ready_list, Idle)
  /\ UNCHANGED <<running, idle_thread, thread_ticks>>

(* idle()'s first statement. *)
SetIdle ==
  /\ running = Idle
  /\ idle_thread = NoThread
  /\ idle_thread' = Idle
  /\ UNCHANGED <<status, running, ready_list, thread_ticks>>

(* One turn of idle()'s loop: reached only once idle_thread is set. *)
IdleBlock ==
  /\ running = Idle
  /\ idle_thread = Idle
  /\ ThreadBlock

(* The timer interrupt: thread_tick(), and thread_yield() on the way out   *)
(* of intr_handler() when the slice is used up.                            *)
ThreadTick ==
  /\ Booted
  /\ IF thread_ticks + 1 >= TimeSlice
     THEN ThreadYield
     ELSE /\ thread_ticks' = thread_ticks + 1
          /\ UNCHANGED <<status, running, ready_list, idle_thread>>

-----------------------------------------------------------------------------
SchedNext ==
  \/ ThreadStart
  \/ SetIdle
  \/ IdleBlock
  \/ running # Idle /\ ThreadBlock
  \/ running # Idle /\ ThreadYield
  \/ ThreadExit
  \/ ThreadTick
  \/ \E t \in Thread : InitThread(t)
  \/ \E t \in Thread \ {Idle} : ThreadUnblock(t)

SchedSpec == SchedInit /\ [][SchedNext]_schedVars

(* thread_start() is called; ticks never stop. *)
SchedFairness == WF_schedVars(ThreadStart) /\ WF_schedVars(ThreadTick)

FairSchedSpec == SchedSpec /\ SchedFairness

-----------------------------------------------------------------------------
(* Every variable has its type; in particular the thread that schedule()   *)
(* switches to is a thread, as it asserts, even before idle() has run.     *)
SchedTypeOK ==
  /\ status \in [Thread -> Status]
  /\ running \in Thread
  /\ ready_list \in Seq(Thread)
  /\ idle_thread \in {NoThread, Idle}
  /\ thread_ticks \in Nat

(* Exactly the thread the CPU is on is in state THREAD_RUNNING. *)
OneRunning == \A t \in Thread : status[t] = "RUNNING" <=> t = running

(* The run queue holds exactly the READY threads, except the idle thread   *)
(* once it has announced itself: thread_yield() makes it READY without     *)
(* queueing it, and only next_thread_to_run() may bring it back.           *)
ReadyListExact ==
  \A t \in Thread :
     InList(ready_list, t) <=> status[t] = "READY" /\ t # idle_thread

(* No thread's list element is in the run queue twice. *)
NoDuplicates == Distinct(ready_list)

(* Main has the CPU until the idle thread is queued, and until idle() has  *)
(* run once the idle thread is on the run queue or has the CPU, so that    *)
(* next_thread_to_run() never returns a null idle_thread.                  *)
IdleBeforeStart ==
  /\ Booted \/ running = Main
  /\ IF idle_thread = NoThread THEN status[Idle] \in {"FREE", "READY", "RUNNING"}
                               ELSE Booted

(* With the properties above, the invariant that every step preserves. *)
SchedInv ==
  /\ SchedTypeOK
  /\ OneRunning
  /\ ReadyListExact
  /\ NoDuplicates
  /\ IdleBeforeStart

(* The run queue is a FIFO: nobody is overtaken while in it, and a thread  *)
(* leaves it only from its front and only to run.                          *)
RoundRobin ==
  [][\A i \in 1..Len(ready_list) :
        \/ i <= Len(ready_list') /\ ready_list'[i] = ready_list[i]
        \/ i > 1 /\ i - 1 <= Len(ready_list') /\ ready_list'[i - 1] = ready_list[i]
        \/ i = 1 /\ running' = ready_list[i]]_schedVars

(* The CPU goes to the idle thread only when nothing else can run. *)
IdleOnlyIfNothingReady ==
  [][idle_thread = Idle /\ running' = Idle /\ running # Idle
       => ready_list = << >>]_schedVars

(* Every thread on the run queue gets the CPU, whatever the others do. *)
EveryReadyThreadRuns ==
  \A t \in Thread : (InList(ready_list, t)) ~> (running = t)
=============================================================================
