------------------------------ MODULE Monitor ------------------------------
(***************************************************************************)
(* The condition variables of threads/synch.c.  A waiter brings its own    *)
(* semaphore, initialised to 0 on its stack for one wait; cond_wait() puts *)
(* it on the condition's list, releases the monitor lock, downs the        *)
(* semaphore and reacquires the lock, and can be preempted between any two *)
(* of these.                                                               *)
(***************************************************************************)
EXTENDS Synch

CONSTANTS
  Cond,         \* condition variables
  MonitorLock,  \* the lock each is used with
  Waiter        \* the semaphore in each thread's struct semaphore_elem

ASSUME MonitorAssumption ==
  /\ Cond # {}
  /\ MonitorLock \in [Cond -> Lock]
  /\ Waiter \in [Thread -> Sema \ (Lock \cup Public \cup {IdleStarted})]
  /\ \A t, u \in Thread : Waiter[t] = Waiter[u] => t = u
  /\ SemaInit = 0

VARIABLES
  condWaiters,  \* cond->waiters, by the thread that owns the element
  condPc,       \* where a thread is inside cond_wait or cond_broadcast
  condArg       \* the condition it was called with

condVars    == <<condWaiters, condPc, condArg>>
monitorVars == <<synchVars, condVars>>

CondPC == {"none", "queued", "released", "signalled", "broadcast"}

MonitorInit ==
  /\ SynchInit
  /\ condWaiters = [c \in Cond |-> << >>]
  /\ condPc = [t \in Thread |-> "none"]
  /\ condArg = [t \in Thread |-> CHOOSE c \in Cond : TRUE]

CondGoto(t, label) ==
  /\ condPc' = [condPc EXCEPT ![t] = label]
  /\ UNCHANGED condArg

Ready(t, label) == pc[t] = "run" /\ condPc[t] = label

-----------------------------------------------------------------------------
(* cond_wait(), statement by statement. *)
CondWait(t, c) ==
  /\ Ready(t, "none")
  /\ MonitorLock[c] \in locks[t]
  /\ value' = [value EXCEPT ![Waiter[t]] = 0]
  /\ waiters' = [waiters EXCEPT ![Waiter[t]] = << >>]
  /\ condWaiters' = [condWaiters EXCEPT ![c] = Append(@, t)]
  /\ condPc' = [condPc EXCEPT ![t] = "queued"]
  /\ condArg' = [condArg EXCEPT ![t] = c]
  /\ UNCHANGED <<schedVars, holder, pcVars, locks>>

CondRelease(t) ==
  /\ Ready(t, "queued")
  /\ LockRelease(t, MonitorLock[condArg[t]])
  /\ CondGoto(t, "released")
  /\ UNCHANGED condWaiters

CondSleep(t) ==
  /\ Ready(t, "released")
  /\ SemaDown(t, Waiter[t])
  /\ CondGoto(t, "signalled")
  /\ UNCHANGED condWaiters

CondReacquire(t) ==
  /\ Ready(t, "signalled")
  /\ LockAcquire(t, MonitorLock[condArg[t]])
  /\ CondGoto(t, "none")
  /\ UNCHANGED condWaiters

(* Mutant: list_front() instead of list_pop_front(). *)
SignalNoPop(t, c) ==
  /\ MonitorLock[c] \in locks[t]
  /\ condWaiters[c] # << >>
  /\ value[Waiter[Head(condWaiters[c])]] < 2
  /\ SemaUp(Waiter[Head(condWaiters[c])])
  /\ UNCHANGED <<holder, pcVars, locks, condVars>>

(* Mutant: a thread that does not sleep yet is passed over. *)
SignalSleeper(t, c) ==
  /\ MonitorLock[c] \in locks[t]
  /\ condWaiters[c] # << >>
  /\ condWaiters' = [condWaiters EXCEPT ![c] = Tail(@)]
  /\ LET w == Waiter[Head(condWaiters[c])] IN
       IF waiters[w] = << >> THEN UNCHANGED <<schedVars, semaVars>> ELSE SemaUp(w)
  /\ UNCHANGED <<holder, pcVars, locks, condPc, condArg>>

(* cond_signal() with a waiter present. *)
Signal(t, c) ==
  /\ MonitorLock[c] \in locks[t]
  /\ condWaiters[c] # << >>
  /\ condWaiters' = [condWaiters EXCEPT ![c] = Tail(@)]
  /\ SemaUp(Waiter[Head(condWaiters[c])])
  /\ UNCHANGED <<holder, pcVars, locks, condPc, condArg>>

CondSignal(t, c) == Ready(t, "none") /\ Signal(t, c)

(* cond_broadcast(): its loop can be preempted between two signals. *)
CondBroadcast(t, c) ==
  /\ Ready(t, "none")
  /\ MonitorLock[c] \in locks[t]
  /\ condPc' = [condPc EXCEPT ![t] = "broadcast"]
  /\ condArg' = [condArg EXCEPT ![t] = c]
  /\ UNCHANGED <<synchVars, condWaiters>>

BroadcastNext(t) == Ready(t, "broadcast") /\ Signal(t, condArg[t])

(* Mutant: the broadcast waits until those it has woken have the lock. *)
BroadcastEndAwaits(t) ==
  /\ Ready(t, "broadcast")
  /\ condWaiters[condArg[t]] = << >>
  /\ waiters[MonitorLock[condArg[t]]] = << >>
  /\ CondGoto(t, "none")
  /\ UNCHANGED <<synchVars, condWaiters>>

BroadcastEnd(t) ==
  /\ Ready(t, "broadcast")
  /\ condWaiters[condArg[t]] = << >>
  /\ CondGoto(t, "none")
  /\ UNCHANGED <<synchVars, condWaiters>>

-----------------------------------------------------------------------------
CondStep(t) ==
  \/ CondRelease(t)
  \/ CondSleep(t)
  \/ CondReacquire(t)
  \/ BroadcastNext(t)
  \/ BroadcastEnd(t)

CondCall(t) ==
  \E c \in Cond : CondWait(t, c) \/ CondSignal(t, c) \/ CondBroadcast(t, c)

(* A step of Synch: a thread inside cond_wait() only goes on with the      *)
(* function of Synch it is in.                                             *)
OtherStep ==
  /\ \/ StartThreads
     \/ AwaitIdle
     \/ IdleAnnounce
     \/ IdleLoop
     \/ Tick
     \/ \E s \in Public : IntrSemaUp(s)
     \/ Continue(running)
     \/ running # Idle /\ condPc[running] = "none" /\ Call(running)
  /\ UNCHANGED condVars

MonitorNext == CondStep(running) \/ CondCall(running) \/ OtherStep

MonitorSpec == MonitorInit /\ [][MonitorNext]_monitorVars

(* The clock ticks; a thread that is scheduled again and again finishes    *)
(* the function of Synch or of this module it is in, a slice being many    *)
(* instructions long.                                                      *)
MonitorFairness ==
  /\ WF_monitorVars(StartThreads /\ UNCHANGED condVars)
  /\ WF_monitorVars(Tick /\ UNCHANGED condVars)
  /\ SF_monitorVars((IdleAnnounce \/ AwaitIdle) /\ UNCHANGED condVars)
  /\ \A t \in Thread :
       /\ SF_monitorVars(running = t /\ Continue(t) /\ UNCHANGED condVars)
       /\ SF_monitorVars(running = t /\ CondStep(t))

FairMonitorSpec == MonitorSpec /\ MonitorFairness

-----------------------------------------------------------------------------
InCondWait(t) == condPc[t] \in {"queued", "released", "signalled"}

Signalled(t) == \A c \in Cond : ~InList(condWaiters[c], t)

(* Every variable has its type. *)
MonitorTypeOK ==
  /\ SynchTypeOK
  /\ condWaiters \in [Cond -> Seq(Thread)]
  /\ condPc \in [Thread -> CondPC]
  /\ condArg \in [Thread -> Cond]

(* "Atomically releases LOCK and waits": a thread that has called          *)
(* cond_wait() and not been signalled is on the condition's list from      *)
(* before its release on; one that has been signalled finds its semaphore  *)
(* at 1, even if the signal came before it went to sleep.                  *)
NoLostSignal ==
  \A t \in Thread :
     /\ condPc[t] \in {"queued", "released"} /\ Signalled(t) => value[Waiter[t]] = 1
     /\ Signalled(t) => ~InList(waiters[Waiter[t]], t)

(* Nobody else uses a waiter's semaphore: it never exceeds 1, and when     *)
(* sema_init() runs for the next wait it discards no value and no sleeper. *)
(* (The variables' types are part of it.)                                  *)
WaiterPrivate ==
  /\ MonitorTypeOK
  /\ \A t \in Thread :
     /\ value[Waiter[t]] <= 1
     /\ ~InCondWait(t) => value[Waiter[t]] = 0 /\ waiters[Waiter[t]] = << >>

(* A broadcast ends although its caller is preempted between signals. *)
BroadcastEnds == \A t \in Thread : (condPc[t] = "broadcast") ~> (condPc[t] # "broadcast")
=============================================================================
