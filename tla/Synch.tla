------------------------------- MODULE Synch -------------------------------
(***************************************************************************)
(* threads/synch.c on top of the scheduler: semaphores, with their waiter  *)
(* lists, and locks, called by threads that obey the assertions of the     *)
(* interface and do anything else.  sema_down(), sema_try_down() and       *)
(* sema_up() run with interrupts off and are one action each; lock_acquire *)
(* and lock_release touch lock->holder outside them, so the timer can      *)
(* preempt between their two halves.                                       *)
(***************************************************************************)
EXTENDS Threads, FiniteSets

CONSTANTS
  Sema,          \* all semaphores, the ones inside locks included
  Lock,          \* a lock is named by its semaphore
  IdleStarted,   \* thread_start()'s local semaphore
  Public,        \* semaphores any thread and any interrupt handler may use
  SemaInit,      \* initial value of the semaphores that are not in locks
  MaxValue       \* bound on a semaphore's value in this model

ASSUME SemaAssumption ==
  /\ IsFiniteSet(Thread)
  /\ Lock \subseteq Sema
  /\ IdleStarted \in Sema \ Lock
  /\ Public \subseteq Sema \ (Lock \cup {IdleStarted})
  /\ SemaInit \in Nat
  /\ MaxValue \in Nat \ {0}

VARIABLES
  value,     \* sema->value
  waiters,   \* sema->waiters, oldest first
  holder,    \* lock->holder
  pc,        \* where a thread is inside these functions
  arg,       \* the semaphore, or the new thread, it is working on
  locks      \* the locks a thread has acquired and not begun to release

semaVars  == <<value, waiters>>
pcVars    == <<pc, arg>>
synchVars == <<schedVars, value, waiters, holder, pc, arg, locks>>

PC == {"start", "starting", "run", "down", "acquired", "releasing", "creating"}

SynchInit ==
  /\ SchedInit
  /\ value = [s \in Sema |-> IF s \in Lock THEN 1
                             ELSE IF s = IdleStarted THEN 0 ELSE SemaInit]
  /\ waiters = [s \in Sema |-> << >>]
  /\ holder = [l \in Lock |-> NoThread]
  /\ pc = [t \in Thread |-> IF t = Main THEN "start" ELSE "run"]
  /\ arg = [t \in Thread |-> NoThread]
  /\ locks = [t \in Thread |-> {}]

Goto(t, label, x) ==
  /\ pc' = [pc EXCEPT ![t] = label]
  /\ arg' = [arg EXCEPT ![t] = x]

(* A thread woken inside sema_down() goes back to its while test with      *)
(* interrupts still off.                                                   *)
InterruptsOn == Booted /\ pc[running] # "down"

-----------------------------------------------------------------------------
(* sema_down() up to its return or to the switch away from the caller; the *)
(* caller goes on at label once the value has been decremented.            *)
Decrement(t, s, label) ==
  /\ value[s] > 0
  /\ value' = [value EXCEPT ![s] = @ - 1]
  /\ Goto(t, label, IF label = "run" THEN NoThread ELSE s)
  /\ UNCHANGED <<schedVars, waiters, holder, locks>>

WaitOn(t, s) ==
  /\ value[s] = 0
  /\ waiters' = [waiters EXCEPT ![s] = Append(@, t)]
  /\ Goto(t, "down", s)
  /\ ThreadBlock
  /\ UNCHANGED <<value, holder, locks>>

AfterDown(s) == IF s \in Lock THEN "acquired" ELSE "run"

SemaDown(t, s) == Decrement(t, s, AfterDown(s)) \/ WaitOn(t, s)

(* Mutant: the waiter is woken but stays on the list. *)
SemaUpNoPop(s) ==
  /\ value' = [value EXCEPT ![s] = @ + 1]
  /\ UNCHANGED waiters
  /\ IF waiters[s] = << >> \/ status[Head(waiters[s])] # "BLOCKED"
     THEN UNCHANGED schedVars
     ELSE ThreadUnblock(Head(waiters[s]))

(* Mutant: a waiter is woken only when the value was 0. *)
SemaUpIfZero(s) ==
  /\ value' = [value EXCEPT ![s] = @ + 1]
  /\ IF waiters[s] = << >> \/ value[s] > 0
     THEN UNCHANGED <<schedVars, waiters>>
     ELSE /\ waiters' = [waiters EXCEPT ![s] = Tail(@)]
          /\ ThreadUnblock(Head(waiters[s]))

(* Mutant: nobody is woken. *)
SemaUpSilent(s) ==
  /\ value' = [value EXCEPT ![s] = @ + 1]
  /\ UNCHANGED <<schedVars, waiters>>

(* sema_up(): the first waiter, if any, becomes runnable; it finds out in  *)
(* its own time whether the value is still positive.                       *)
SemaUp(s) ==
  /\ value' = [value EXCEPT ![s] = @ + 1]
  /\ IF waiters[s] = << >>
     THEN UNCHANGED <<schedVars, waiters>>
     ELSE /\ waiters' = [waiters EXCEPT ![s] = Tail(@)]
          /\ ThreadUnblock(Head(waiters[s]))

-----------------------------------------------------------------------------
(* Steps of the running thread t.                                          *)

(* Mutant: if instead of while, so that the woken thread takes the unit     *)
(* without looking.                                                         *)
RetestOnce(t) ==
  /\ pc[t] = "down"
  /\ value' = [value EXCEPT ![arg[t]] = IF @ > 0 THEN @ - 1 ELSE 0]
  /\ Goto(t, AfterDown(arg[t]), IF AfterDown(arg[t]) = "run" THEN NoThread ELSE arg[t])
  /\ UNCHANGED <<schedVars, waiters, holder, locks>>

(* The while test of sema_down() after thread_block() has returned. *)
Retest(t) == pc[t] = "down" /\ SemaDown(t, arg[t])

CallSemaDown(t, s) == pc[t] = "run" /\ SemaDown(t, s)

CallTryDown(t, s) == pc[t] = "run" /\ Decrement(t, s, "run")

CallSemaUp(t, s) ==
  /\ pc[t] = "run"
  /\ value[s] < MaxValue
  /\ SemaUp(s)
  /\ UNCHANGED <<holder, pcVars, locks>>

LockAcquire(t, l) ==
  /\ pc[t] = "run"
  /\ holder[l] # t
  /\ SemaDown(t, l)

LockTryAcquire(t, l) ==
  /\ pc[t] = "run"
  /\ holder[l] # t
  /\ Decrement(t, l, "acquired")

(* lock->holder = thread_current (), the last statement of both. *)
SetHolder(t) ==
  /\ pc[t] = "acquired"
  /\ holder' = [holder EXCEPT ![arg[t]] = t]
  /\ locks' = [locks EXCEPT ![t] = @ \cup {arg[t]}]
  /\ Goto(t, "run", NoThread)
  /\ UNCHANGED <<schedVars, semaVars>>

LockRelease(t, l) ==
  /\ pc[t] = "run"
  /\ l \in locks[t]
  /\ holder' = [holder EXCEPT ![l] = NoThread]
  /\ locks' = [locks EXCEPT ![t] = @ \ {l}]
  /\ Goto(t, "releasing", l)
  /\ UNCHANGED <<schedVars, semaVars>>

(* The sema_up() at the end of lock_release(), or the one in idle(). *)
FinishUp(t) ==
  /\ pc[t] = "releasing"
  /\ SemaUp(arg[t])
  /\ Goto(t, "run", NoThread)
  /\ UNCHANGED <<holder, locks>>

CreateThread(t, u) ==
  /\ pc[t] = "run"
  /\ InitThread(u)
  /\ Goto(t, "creating", u)
  /\ UNCHANGED <<semaVars, holder, locks>>

UnblockNew(t) ==
  /\ pc[t] = "creating"
  /\ ThreadUnblock(arg[t])
  /\ Goto(t, "run", NoThread)
  /\ UNCHANGED <<semaVars, holder, locks>>

Yield(t) ==
  /\ pc[t] = "run"
  /\ ThreadYield
  /\ UNCHANGED <<semaVars, holder, pcVars, locks>>

(* A thread that still holds a lock does not exit: kernel code returns     *)
(* through its lock_release() calls.                                       *)
Exit(t) ==
  /\ pc[t] = "run"
  /\ locks[t] = {}
  /\ ThreadExit
  /\ UNCHANGED <<semaVars, holder, pcVars, locks>>

(* The running thread goes on inside a function, or calls one. *)
Continue(t) == Retest(t) \/ SetHolder(t) \/ FinishUp(t) \/ UnblockNew(t)

Call(t) ==
  \/ \E s \in Public : CallSemaDown(t, s) \/ CallTryDown(t, s) \/ CallSemaUp(t, s)
  \/ \E l \in Lock : LockAcquire(t, l) \/ LockTryAcquire(t, l) \/ LockRelease(t, l)
  \/ \E u \in Thread : CreateThread(t, u)
  \/ Yield(t)
  \/ Exit(t)

-----------------------------------------------------------------------------
(* thread_start(): the idle thread is queued with interrupts off, then main *)
(* waits for it.                                                            *)
StartThreads ==
  /\ pc[Main] = "start"
  /\ ThreadStart
  /\ Goto(Main, "starting", NoThread)
  /\ UNCHANGED <<semaVars, holder, locks>>

AwaitIdle ==
  /\ running = Main
  /\ pc[Main] = "starting"
  /\ SemaDown(Main, IdleStarted)

(* Mutant: idle() does not up idle_started. *)
IdleAnnounceSilent ==
  /\ SetIdle
  /\ UNCHANGED <<semaVars, holder, pcVars, locks>>

(* idle(). *)
IdleAnnounce ==
  /\ SetIdle
  /\ Goto(Idle, "releasing", IdleStarted)
  /\ UNCHANGED <<semaVars, holder, locks>>

(* Mutant: idle() blocks before it has set idle_thread. *)
IdleLoopEarly ==
  /\ running = Idle
  /\ pc[Idle] = "run"
  /\ ThreadBlock
  /\ UNCHANGED <<semaVars, holder, pcVars, locks>>

IdleLoop ==
  /\ pc[Idle] = "run"
  /\ IdleBlock
  /\ UNCHANGED <<semaVars, holder, pcVars, locks>>

(* External interrupts: the timer, and a device handler that ups a         *)
(* semaphore, as the IDE handler does.                                     *)
Tick ==
  /\ InterruptsOn
  /\ ThreadTick
  /\ UNCHANGED <<semaVars, holder, pcVars, locks>>

IntrSemaUp(s) ==
  /\ InterruptsOn
  /\ value[s] < MaxValue
  /\ SemaUp(s)
  /\ UNCHANGED <<holder, pcVars, locks>>

SynchNext ==
  \/ StartThreads
  \/ AwaitIdle
  \/ IdleAnnounce
  \/ IdleLoop
  \/ Tick
  \/ \E s \in Public : IntrSemaUp(s)
  \/ Continue(running)
  \/ running # Idle /\ Call(running)

SynchSpec == SynchInit /\ [][SynchNext]_synchVars

-----------------------------------------------------------------------------
(* Threads that sema_up() has taken off the waiter list of s and that have *)
(* not yet tested its value.                                               *)
Woken(s) == {t \in Thread : pc[t] = "down" /\ arg[t] = s /\ status[t] # "BLOCKED"}

(* t is between lock_acquire's decrement and lock_release's increment. *)
Owns(t, l) ==
  \/ l \in locks[t]
  \/ pc[t] \in {"acquired", "releasing"} /\ arg[t] = l

(* Every variable has its type. *)
SynchTypeOK ==
  /\ SchedTypeOK
  /\ value \in [Sema -> Nat]
  /\ waiters \in [Sema -> Seq(Thread)]
  /\ holder \in [Lock -> Thread \cup {NoThread}]
  /\ pc \in [Thread -> PC]
  /\ arg \in [Thread -> Sema \cup Thread \cup {NoThread}]
  /\ locks \in [Thread -> SUBSET Lock]

(* Where each thread is in this module's functions agrees with what it is   *)
(* working on: only main boots, the idle thread never calls sema_down(), a  *)
(* thread under construction has one creator and stays blocked until that   *)
(* creator unblocks it, and a freed page is in none of these functions.     *)
CallsConsistent ==
  /\ pc[Idle] \in {"run", "releasing"}
  /\ pc[Idle] = "releasing" => arg[Idle] = IdleStarted
  /\ \A t \in Thread :
       /\ pc[t] \in {"start", "starting"} => t = Main
       /\ pc[t] = "down" => arg[t] \in Sema
       /\ pc[t] = "acquired" => arg[t] \in Lock \ locks[t]
       /\ pc[t] = "releasing" => arg[t] \in (Lock \ locks[t]) \cup {IdleStarted}
       /\ pc[t] = "creating" =>
            /\ arg[t] \in Thread \ {Idle}
            /\ status[arg[t]] = "BLOCKED" /\ pc[arg[t]] = "run"
            /\ \A u \in Thread : pc[u] = "creating" /\ arg[u] = arg[t] => u = t
       /\ t # Idle /\ status[t] = "FREE" => pc[t] = "run"

(* thread.h says struct thread's one list element can be in the run queue  *)
(* or in one semaphore's waiter list, never in both: the waiters of s are  *)
(* exactly the threads blocked in sema_down(s).                            *)
WaitersExact ==
  \A s \in Sema, t \in Thread :
     InList(waiters[s], t) <=> status[t] = "BLOCKED" /\ pc[t] = "down" /\ arg[t] = s

(* No list element is in a waiter list twice. *)
WaitsOnce == \A s \in Sema : Distinct(waiters[s])

(* While somebody still sleeps on s, every unit of its value has a woken   *)
(* thread on its way to test it: no wakeup is lost, even though sema_up()  *)
(* wakes one thread per call and a third thread may take the value first.  *)
NoLostWakeup ==
  \A s \in Sema : waiters[s] # << >> => value[s] <= Cardinality(Woken(s))

(* A lock's semaphore is 1 exactly when nobody is between its two          *)
(* decrementing and incrementing halves, and 0 otherwise.                  *)
LockValue ==
  \A l \in Lock :
     value[l] = IF \E t \in Thread : Owns(t, l) THEN 0 ELSE 1

(* At most one thread at a time is between the decrement and the increment *)
(* of a lock.                                                              *)
MutualExclusion ==
  \A l \in Lock : \A t, u \in Thread : Owns(t, l) /\ Owns(u, l) => t = u

(* lock->holder names the thread that has the lock for as long as that     *)
(* thread may call lock_release(), which asserts it, although both writes  *)
(* of holder happen with interrupts on.                                    *)
HolderExact ==
  \A l \in Lock, t \in Thread : l \in locks[t] <=> holder[l] = t

(* The invariant that every step preserves: the first part is about         *)
(* sleeping and waking, the second about locks.                             *)
WaitInv == SchedInv /\ SynchTypeOK /\ CallsConsistent /\ WaitersExact /\ WaitsOnce

LockInv == LockValue /\ MutualExclusion /\ HolderExact

SynchInv == WaitInv /\ LockInv

(* Callers see each lock as the abstract one: acquired only while nobody   *)
(* has it, released only by who has it.                                    *)
Abstract == INSTANCE AbstractLocks WITH held <- locks
ImplementsLocks == Abstract!Spec

(* Threads that use semaphores and locks respect the scheduler's interface: *)
(* nobody unblocks the idle thread or a thread that is not blocked, the     *)
(* idle thread blocks only in its loop, and every switch is one Threads     *)
(* allows, so that what holds of Threads holds here.                        *)
KeepsScheduler == SchedSpec

(* thread_start()'s handshake with the idle thread terminates: idle() has  *)
(* announced itself and main is no longer in its sema_down (&idle_started). *)
BootCompletes ==
  <>(/\ idle_thread = Idle
     /\ pc[Main] \notin {"start", "starting"}
     /\ ~(pc[Main] = "down" /\ arg[Main] = IdleStarted))

(* A free lock that somebody waits for is taken by someone. *)
FreeLockIsTaken ==
  \A l \in Lock :
     (value[l] = 1 /\ waiters[l] # << >>) ~> (value[l] = 0 \/ waiters[l] = << >>)
=============================================================================
