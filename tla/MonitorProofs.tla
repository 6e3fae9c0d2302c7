--------------------------- MODULE MonitorProofs ---------------------------
(***************************************************************************)
(* Condition variables for any number of threads, monitors and conditions. *)
(* A waiter's semaphore is used by its owner and by whoever takes the      *)
(* owner off the condition's list, and by nobody else (Touches); so its    *)
(* value is 1 exactly between that moment and the owner's decrement.  The  *)
(* invariant of semaphores and locks is kept: the sema_init() of a new     *)
(* wait finds the semaphore as it would leave it.                          *)
(***************************************************************************)
EXTENDS Monitor, SynchProofs

(* t has called cond_wait() and has not come back from its sema_down(). *)
Sleeping(t) == condPc[t] = "signalled" /\ pc[t] = "down"
Pending(t)  == condPc[t] \in {"queued", "released"} \/ Sleeping(t)

(* The element of t: where its thread is, and what its semaphore holds. *)
Element(t) ==
  /\ condPc[t] \in {"queued", "broadcast"} => pc[t] = "run"
  /\ condPc[t] = "released" => pc[t] \in {"run", "releasing"}
  /\ condPc[t] = "signalled" => pc[t] = "run" \/ (pc[t] = "down" /\ arg[t] = Waiter[t])
  /\ value[Waiter[t]] = IF Pending(t) /\ Signalled(t) THEN 1 ELSE 0
  /\ \A u \in Thread : InList(waiters[Waiter[t]], u) => u = t /\ Sleeping(t) /\ ~Signalled(t)
  /\ ~Pending(t) => Signalled(t)
  /\ \A u \in Thread : pc[u] = "down" /\ arg[u] = Waiter[t] => u = t /\ condPc[t] = "signalled"

(* A thread is on the list of one condition, once. *)
Lists ==
  \A c \in Cond :
     /\ Distinct(condWaiters[c])
     /\ \A t \in Thread : InList(condWaiters[c], t) => condArg[t] = c

(* The idle thread uses no monitor. *)
IdleApart == locks[Idle] = {} /\ condPc[Idle] = "none"

MonitorInv ==
  /\ SynchInv /\ MonitorTypeOK
  /\ \A t \in Thread : Element(t)
  /\ Lists /\ IdleApart

-----------------------------------------------------------------------------
(* What a step of Synch touches: one thread, and one semaphore that is a   *)
(* lock's, public, or the one the thread is already asleep on.             *)
SharedSema == Lock \cup Public \cup {IdleStarted}

Touches(v, s) ==
  /\ \A u \in Thread \ {v} : pc'[u] = pc[u] /\ arg'[u] = arg[u]
  /\ \A r \in Sema \ {s} : value'[r] = value[r] /\ waiters'[r] = waiters[r]
  /\ \/ s \in SharedSema
     \/ Retest(v) /\ s = arg[v]
  /\ pc'[v] = "down" => arg'[v] = s \/ (pc'[v] = pc[v] /\ arg'[v] = arg[v])
  /\ locks'[Idle] \subseteq locks[Idle]

(* When the thread it moves is inside a function of Synch. *)
Within(v, s) ==
  \/ pc[v] \in {"start", "starting", "acquired", "creating"}
  \/ pc[v] = "releasing" /\ pc'[v] = "run"
  \/ pc[v] = "down" /\ Retest(v) /\ s = arg[v]
  \/ v = Idle
  \/ pc'[v] = pc[v] /\ arg'[v] = arg[v]

LEMMA DownTouches ==
  ASSUME SynchInv, NEW t \in Thread, NEW s \in Sema, SemaDown(t, s),
         s \in SharedSema \/ (Retest(t) /\ s = arg[t])
  PROVE  Touches(t, s)
  BY SemaAssumption
     DEF SemaDown, Decrement, WaitOn, Goto, Touches, SynchInv, WaitInv, SynchTypeOK, AfterDown

LEMMA UpTouches ==
  ASSUME SynchInv, NEW s \in Sema, SemaUp(s)
  PROVE  \A r \in Sema \ {s} : value'[r] = value[r] /\ waiters'[r] = waiters[r]
  BY DEF SemaUp, SynchInv, WaitInv, SynchTypeOK

(* Steps that touch no semaphore. *)
LEMMA QuietTouches ==
  ASSUME NEW v \in Thread, UNCHANGED <<value, waiters>>,
         \A u \in Thread \ {v} : pc'[u] = pc[u] /\ arg'[u] = arg[u],
         pc'[v] = "down" => pc'[v] = pc[v] /\ arg'[v] = arg[v],
         locks'[Idle] \subseteq locks[Idle]
  PROVE  Touches(v, IdleStarted)
  BY DEF Touches, SharedSema

LEMMA SynchTouches ==
  ASSUME SynchInv, IdleApart, OtherStep
  PROVE  \E v \in Thread, s \in Sema :
            Touches(v, s) /\ (Within(v, s) \/ condPc[v] = "none")
<1> USE ThreadAssumption, SemaAssumption
<1>0. /\ pc \in [Thread -> PC] /\ arg \in [Thread -> Sema \cup Thread \cup {NoThread}]
      /\ value \in [Sema -> Nat] /\ waiters \in [Sema -> Seq(Thread)]
      /\ locks \in [Thread -> SUBSET Lock] /\ CallsConsistent
  BY DEF SynchInv, WaitInv, SynchTypeOK
<1>1. PICK t \in Thread : t = running
  BY DEF SynchInv, WaitInv, SchedInv, SchedTypeOK
<1>2. CASE StartThreads
  <2>1. Touches(Main, IdleStarted)
    BY <1>0, <1>2, QuietTouches DEF StartThreads, Goto, semaVars
  <2> QED
    BY <1>0, <1>2, <2>1 DEF StartThreads, Within
<1>3. CASE AwaitIdle
  <2>1. Touches(Main, IdleStarted)
    <3>1. IdleStarted \in SharedSema /\ IdleStarted \in Sema /\ SemaDown(Main, IdleStarted)
      BY <1>3 DEF AwaitIdle, SharedSema
    <3> QED
      BY <3>1, DownTouches
  <2> QED
    BY <1>0, <1>3, <2>1 DEF AwaitIdle, Within
<1>4. CASE IdleAnnounce
  <2>1. Touches(Idle, IdleStarted)
    BY <1>0, <1>4, QuietTouches DEF IdleAnnounce, Goto, semaVars
  <2> QED
    BY <2>1 DEF Within
<1>5. CASE IdleLoop \/ Tick
  <2>1. Touches(t, IdleStarted)
    BY <1>0, <1>5, QuietTouches DEF IdleLoop, Tick, semaVars, pcVars
  <2> QED
    BY <1>0, <1>5, <2>1 DEF IdleLoop, Tick, pcVars, Within
<1>6. ASSUME NEW s \in Public, SemaUp(s), UNCHANGED <<holder, pcVars, locks>>
      PROVE  Touches(t, s) /\ Within(t, s)
  BY <1>0, <1>6, UpTouches DEF pcVars, Touches, Within, SharedSema
<1>7. CASE Retest(t)
  <2>1. arg[t] \in Sema
    BY <1>0, <1>7 DEF Retest, CallsConsistent
  <2>2. Touches(t, arg[t])
    BY <1>0, <1>7, <2>1, DownTouches DEF Retest
  <2> QED
    BY <1>0, <1>7, <2>1, <2>2 DEF Retest, Within
<1>8. CASE SetHolder(t)
  <2>1. t # Idle
    BY <1>0, <1>8 DEF SetHolder, CallsConsistent
  <2>2. Touches(t, IdleStarted)
    BY <1>0, <1>8, <2>1, QuietTouches DEF SetHolder, Goto, semaVars
  <2> QED
    BY <1>0, <1>8, <2>2 DEF SetHolder, Within
<1>9. CASE FinishUp(t)
  <2>1. arg[t] \in SharedSema /\ arg[t] \in Sema
    BY <1>0, <1>9 DEF FinishUp, CallsConsistent, SharedSema
  <2>2. Touches(t, arg[t])
    BY <1>0, <1>9, <2>1, UpTouches DEF FinishUp, Goto, Touches
  <2> QED
    BY <1>0, <1>9, <2>1, <2>2 DEF FinishUp, Goto, Within
<1>10. CASE UnblockNew(t)
  <2>1. Touches(t, IdleStarted)
    BY <1>0, <1>10, QuietTouches DEF UnblockNew, Goto, semaVars
  <2> QED
    BY <1>0, <1>10, <2>1 DEF UnblockNew, Within
<1>11. CASE t # Idle /\ condPc[t] = "none" /\ Call(t)
  <2>1. ASSUME NEW s \in Public, CallSemaDown(t, s)
        PROVE  Touches(t, s)
    <3>1. s \in SharedSema /\ s \in Sema /\ SemaDown(t, s)
      BY <2>1 DEF CallSemaDown, SharedSema
    <3> QED
      BY <3>1, DownTouches
  <2>2. ASSUME NEW s \in Lock, LockAcquire(t, s)
        PROVE  Touches(t, s)
    <3>1. s \in SharedSema /\ s \in Sema /\ SemaDown(t, s)
      BY <2>2 DEF LockAcquire, SharedSema
    <3> QED
      BY <3>1, DownTouches
  <2>3. ASSUME NEW s \in Public \cup Lock, CallTryDown(t, s) \/ LockTryAcquire(t, s)
        PROVE  Touches(t, s)
    BY <1>0, <2>3 DEF CallTryDown, LockTryAcquire, Decrement, Goto, Touches, SharedSema
  <2>4. ASSUME NEW s \in Public, CallSemaUp(t, s)
        PROVE  Touches(t, s)
    BY <1>0, <1>6, <2>4 DEF CallSemaUp
  <2>5. ASSUME NEW l \in Lock, LockRelease(t, l)
        PROVE  Touches(t, IdleStarted)
    BY <1>0, <1>11, <2>5, QuietTouches DEF LockRelease, Goto, semaVars
  <2>6. ASSUME NEW u \in Thread, CreateThread(t, u)
        PROVE  Touches(t, IdleStarted)
    BY <1>0, <2>6, QuietTouches DEF CreateThread, Goto, semaVars
  <2>7. ASSUME Yield(t) \/ Exit(t)
        PROVE  Touches(t, IdleStarted)
    BY <1>0, <2>7, QuietTouches DEF Yield, Exit, semaVars, pcVars
  <2>8. \E s \in Sema : Touches(t, s)
    BY <1>0, <1>11, <2>1, <2>2, <2>3, <2>4, <2>5, <2>6, <2>7 DEF Call
  <2> QED
    BY <1>1, <1>11, <2>8
<1> QED
  BY <1>1, <1>2, <1>3, <1>4, <1>5, <1>6, <1>7, <1>8, <1>9, <1>10, <1>11
     DEF OtherStep, Continue, IntrSemaUp

-----------------------------------------------------------------------------
(* The invariant of semaphores and locks survives what cond_wait() and     *)
(* cond_signal() do besides the calls of Synch.                            *)

(* A list without members is empty. *)
LEMMA NoMembers ==
  ASSUME NEW q \in Seq(Thread), \A u \in Thread : ~InList(q, u)
  PROVE  q = << >>
<1> SUFFICES ASSUME q # << >> PROVE FALSE
  OBVIOUS
<1>1. Len(q) \in Nat /\ Len(q) > 0 /\ q[1] \in Thread
  OBVIOUS
<1>2. InList(q, q[1])
  BY <1>1 DEF InList
<1> QED
  BY <1>1, <1>2

(* The semaphore of a thread that is not waiting is as sema_init() would   *)
(* leave it.                                                               *)
LEMMA Unused ==
  ASSUME MonitorInv, NEW t \in Thread, ~InCondWait(t)
  PROVE  value[Waiter[t]] = 0 /\ waiters[Waiter[t]] = << >>
<1>1. Element(t) /\ ~Pending(t) /\ Waiter[t] \in Sema /\ waiters \in [Sema -> Seq(Thread)]
  BY MonitorAssumption DEF MonitorInv, InCondWait, Pending, Sleeping, SynchInv, WaitInv, SynchTypeOK
<1>2. \A u \in Thread : ~InList(waiters[Waiter[t]], u)
  BY <1>1 DEF Element, Pending
<1> QED
  BY <1>1, <1>2, NoMembers DEF Element

LEMMA CondWaitInits ==
  ASSUME MonitorInv, NEW t \in Thread, NEW c \in Cond, CondWait(t, c)
  PROVE  UNCHANGED synchVars
<1>1. value[Waiter[t]] = 0 /\ waiters[Waiter[t]] = << >>
  BY Unused DEF CondWait, Ready, InCondWait
<1>2. value \in [Sema -> Nat] /\ waiters \in [Sema -> Seq(Thread)]
  BY DEF MonitorInv, SynchInv, WaitInv, SynchTypeOK
<1>3. value' = value /\ waiters' = waiters
  BY <1>1, <1>2 DEF CondWait
<1> QED
  BY <1>3 DEF CondWait, synchVars, pcVars

(* Every step of this module is one the scheduler allows. *)
LEMMA MonitorIsSched ==
  ASSUME MonitorInv, NEW t \in Thread, t = running, t # Idle,
         \/ \E s \in Sema : SemaDown(t, s)
         \/ \E s \in Sema : SemaUp(s)
         \/ UNCHANGED schedVars
  PROVE  SchedInv'
<1>1. [SchedNext]_schedVars
  <2>1. WaitInv
    BY DEF MonitorInv, SynchInv
  <2>2. ASSUME NEW s \in Sema, SemaDown(t, s) PROVE [SchedNext]_schedVars
    BY <2>2, DownIsSched DEF SchedNext
  <2>3. ASSUME NEW s \in Sema, SemaUp(s) PROVE [SchedNext]_schedVars
    BY <2>1, <2>3, UpIsSched DEF SchedNext
  <2> QED
    BY <2>2, <2>3
<1> QED
  BY <1>1, SchedInvStep DEF MonitorInv, SynchInv, WaitInv

LEMMA SynchPart ==
  ASSUME MonitorInv, [MonitorNext]_monitorVars
  PROVE  SynchInv'
<1> USE MonitorAssumption, SemaAssumption
<1>0. SynchInv /\ MonitorTypeOK
  BY DEF MonitorInv
<1>1. PICK t \in Thread : t = running
  BY <1>0 DEF SynchInv, WaitInv, SchedInv, SchedTypeOK
<1>2. ASSUME [SynchNext]_synchVars PROVE SynchInv'
  BY <1>0, <1>2, WaitInvStep, LockInvStep DEF SynchInv
<1>3. CASE OtherStep
  BY <1>2, <1>3 DEF OtherStep, SynchNext
<1>4. CASE \E c \in Cond : CondWait(t, c)
  BY <1>2, <1>4, CondWaitInits
<1>5. CASE UNCHANGED monitorVars
  BY <1>2, <1>5 DEF monitorVars
<1>6. t # Idle \/ OtherStep \/ UNCHANGED monitorVars
  BY <1>1 DEF MonitorInv, IdleApart, MonitorNext, CondStep, CondCall, CondRelease, CondSleep,
              CondReacquire, BroadcastNext, BroadcastEnd, CondWait, CondSignal, CondBroadcast,
              Signal, Ready
<1>7. CASE t # Idle /\ CondRelease(t)
  <2>1. MonitorLock[condArg[t]] \in Lock /\ LockRelease(t, MonitorLock[condArg[t]])
    BY <1>0, <1>7 DEF CondRelease, MonitorTypeOK
  <2>2. SchedInv'
    BY <1>1, <1>7, <2>1, MonitorIsSched DEF LockRelease
  <2> QED
    BY <1>0, <1>1, <1>7, <2>1, <2>2, LockReleaseKeeps, LockReleaseLock DEF SynchInv
<1>8. ASSUME NEW s \in Sema, t # Idle, pc[t] = "run", SemaDown(t, s)
      PROVE  SynchInv'
  <2>1. SchedInv'
    BY <1>1, <1>8, MonitorIsSched
  <2> QED
    BY <1>0, <1>1, <1>8, <2>1, DownKeeps, DownLock DEF SynchInv
<1>9. CASE t # Idle /\ CondSleep(t)
  BY <1>8, <1>9 DEF CondSleep, Ready
<1>10. CASE t # Idle /\ CondReacquire(t)
  <2>1. MonitorLock[condArg[t]] \in Lock
    BY <1>0 DEF MonitorTypeOK
  <2> QED
    BY <1>8, <1>10, <2>1 DEF CondReacquire, LockAcquire
<1>11. ASSUME NEW c \in Cond, t # Idle, Signal(t, c)
       PROVE  SynchInv'
  <2>1. Head(condWaiters[c]) \in Thread
    BY <1>0, <1>11, TailElements DEF MonitorTypeOK, Signal
  <2> DEFINE s == Waiter[Head(condWaiters[c])]
  <2>2. s \in Sema \ Lock /\ SemaUp(s) /\ UNCHANGED <<holder, pcVars, locks>>
    BY <1>11, <2>1 DEF Signal
  <2> HIDE DEF s
  <2>3. SchedInv'
    BY <1>1, <1>11, <2>2, MonitorIsSched
  <2> QED
    BY <1>0, <2>2, <2>3, UpKeeps, UpLock DEF SynchInv
<1>12. CASE BroadcastEnd(t) \/ \E c \in Cond : CondBroadcast(t, c)
  BY <1>2, <1>12 DEF BroadcastEnd, CondBroadcast
<1>13. CASE t # Idle /\ (BroadcastNext(t) \/ \E c \in Cond : CondSignal(t, c))
  BY <1>0, <1>11, <1>13 DEF BroadcastNext, CondSignal, MonitorTypeOK
<1> QED
  BY <1>1, <1>3, <1>4, <1>5, <1>6, <1>7, <1>9, <1>10, <1>12, <1>13
     DEF MonitorNext, CondStep, CondCall

-----------------------------------------------------------------------------
(* The elements.                                                           *)

(* An element whose thread stays where it is, and whose semaphore and list *)
(* are left alone.                                                         *)
SameSema(t) ==
  /\ value'[Waiter[t]] = value[Waiter[t]] /\ waiters'[Waiter[t]] = waiters[Waiter[t]]
  /\ \A u \in Thread : pc'[u] = "down" /\ arg'[u] = Waiter[t]
                         => pc[u] = "down" /\ arg[u] = Waiter[t]

LEMMA ElementKept ==
  ASSUME NEW t \in Thread, Element(t), SameSema(t), condPc'[t] = condPc[t],
         Signalled(t)' <=> Signalled(t),
         \/ pc'[t] = pc[t] /\ arg'[t] = arg[t]
         \/ condPc[t] = "none"
         \/ condPc[t] = "released" /\ pc[t] = "releasing" /\ pc'[t] = "run"
  PROVE  Element(t)'
  BY DEF Element, SameSema, Pending, Sleeping

(* Somebody else's semaphore is left alone. *)
LEMMA OtherSema ==
  ASSUME MonitorInv, NEW v \in Thread, NEW s \in Sema, Touches(v, s),
         NEW t \in Thread, Waiter[t] # s
  PROVE  SameSema(t)
  BY MonitorAssumption DEF Touches, SameSema

(* The owner of a semaphore goes through its sema_down().                  *)
LEMMA OwnDown ==
  ASSUME MonitorInv, NEW t \in Thread, SemaDown(t, Waiter[t]),
         (condPc[t] = "released" /\ pc[t] = "run") \/ Sleeping(t),
         condPc'[t] = "signalled", Signalled(t)' <=> Signalled(t)
  PROVE  /\ Element(t)'
         /\ \A u \in Thread \ {t} : SameSema(u) /\ pc'[u] = pc[u] /\ arg'[u] = arg[u]
<1> USE MonitorAssumption
<1> DEFINE w == Waiter[t]
<1>0. /\ w \in Sema \ Lock /\ Element(t) /\ Pending(t)
      /\ pc \in [Thread -> PC] /\ arg \in [Thread -> Sema \cup Thread \cup {NoThread}]
      /\ value \in [Sema -> Nat] /\ waiters \in [Sema -> Seq(Thread)]
      /\ \A u \in Thread \ {t} : Waiter[u] # w /\ Waiter[u] \in Sema
  BY DEF MonitorInv, SynchInv, WaitInv, SynchTypeOK, Pending
<1>1. CASE Decrement(t, w, "run")
  <2>1. /\ value[w] > 0 /\ value' = [value EXCEPT ![w] = @ - 1] /\ waiters' = waiters
        /\ pc' = [pc EXCEPT ![t] = "run"] /\ arg' = [arg EXCEPT ![t] = NoThread]
    BY <1>1 DEF Decrement, Goto
  <2>2. Signalled(t) /\ value[w] = 1
    BY <1>0, <2>1 DEF Element
  <2>3. value'[w] = 0 /\ pc'[t] = "run" /\ ~Pending(t)' /\ Signalled(t)' /\ ~Sleeping(t)'
    BY <1>0, <2>1, <2>2 DEF Pending, Sleeping
  <2>4. Element(t)'
    BY <1>0, <2>1, <2>2, <2>3 DEF Element
  <2>5. \A u \in Thread \ {t} : SameSema(u) /\ pc'[u] = pc[u] /\ arg'[u] = arg[u]
    BY <1>0, <2>1 DEF SameSema
  <2> QED
    BY <2>4, <2>5
<1>2. CASE WaitOn(t, w)
  <2>1. /\ value[w] = 0 /\ value' = value /\ waiters' = [waiters EXCEPT ![w] = Append(@, t)]
        /\ pc' = [pc EXCEPT ![t] = "down"] /\ arg' = [arg EXCEPT ![t] = w]
    BY <1>2 DEF WaitOn, Goto
  <2>2. ~Signalled(t)
    BY <1>0, <2>1 DEF Element
  <2>3. \A u \in Thread : InList(waiters'[w], u) => u = t
    <3>1. waiters'[w] = Append(waiters[w], t)
      BY <1>0, <2>1
    <3>2. \A u : InList(Append(waiters[w], t), u) <=> InList(waiters[w], u) \/ u = t
      BY <1>0, AppendElements
    <3> QED
      BY <1>0, <3>1, <3>2 DEF Element
  <2>4. pc'[t] = "down" /\ arg'[t] = w /\ Pending(t)' /\ ~Signalled(t)' /\ Sleeping(t)'
    BY <1>0, <2>1, <2>2 DEF Pending, Sleeping
  <2>5. \A u \in Thread : pc'[u] = "down" /\ arg'[u] = w => u = t
    BY <1>0, <2>1 DEF Element
  <2>6. Element(t)'
    BY <1>0, <2>1, <2>3, <2>4, <2>5 DEF Element
  <2>7. \A u \in Thread \ {t} : SameSema(u) /\ pc'[u] = pc[u] /\ arg'[u] = arg[u]
    BY <1>0, <2>1 DEF SameSema
  <2> QED
    BY <2>6, <2>7
<1> QED
  BY <1>0, <1>1, <1>2 DEF SemaDown, AfterDown

(* A step of Synch keeps every element.                                    *)
LEMMA OtherElements ==
  ASSUME MonitorInv, OtherStep
  PROVE  \A t \in Thread : Element(t)'
<1> USE MonitorAssumption
<1>1. PICK v \in Thread, s \in Sema :
         Touches(v, s) /\ (Within(v, s) \/ condPc[v] = "none")
  BY SynchTouches DEF MonitorInv
<1>2. /\ \A t \in Thread : Element(t) /\ condPc'[t] = condPc[t] /\ (Signalled(t)' <=> Signalled(t))
      /\ IdleApart
  BY DEF MonitorInv, OtherStep, condVars, Signalled
<1>3. CASE \A t \in Thread : Waiter[t] # s
  <2>1. \A t \in Thread : SameSema(t)
    BY <1>1, <1>3, OtherSema
  <2>2. \A t \in Thread \ {v} : Element(t)'
    BY <1>1, <1>2, <2>1, ElementKept DEF Touches
  <2>3. \/ pc'[v] = pc[v] /\ arg'[v] = arg[v]
        \/ condPc[v] = "none"
        \/ condPc[v] = "released" /\ pc[v] = "releasing" /\ pc'[v] = "run"
    <3>1. condPc[v] \in CondPC
      BY DEF MonitorInv, MonitorTypeOK
    <3>2. Element(v)
      BY <1>2
    <3>3. ASSUME Retest(v), s = arg[v], pc[v] = "down" PROVE condPc[v] = "none"
      BY <1>3, <3>1, <3>2, <3>3 DEF Element, CondPC
    <3> QED
      BY <1>1, <1>2, <3>1, <3>2, <3>3 DEF Within, IdleApart, Element, CondPC
  <2> QED
    BY <1>2, <2>1, <2>2, <2>3, ElementKept
<1>4. ASSUME NEW t \in Thread, Waiter[t] = s
      PROVE  \A u \in Thread : Element(u)'
  <2>1. Retest(v) /\ s = arg[v] /\ pc[v] = "down" /\ SemaDown(v, s)
    BY <1>1, <1>4 DEF Touches, SharedSema, Retest
  <2>2. v = t /\ condPc[t] = "signalled"
    BY <1>2, <1>4, <2>1 DEF Element
  <2>3. Element(t)' /\ \A u \in Thread \ {t} : SameSema(u) /\ pc'[u] = pc[u] /\ arg'[u] = arg[u]
    BY <1>2, <1>4, <2>1, <2>2, OwnDown DEF Sleeping
  <2> QED
    BY <1>2, <2>3, ElementKept
<1> QED
  BY <1>3, <1>4

-----------------------------------------------------------------------------
(* The steps of cond_wait(), cond_signal() and cond_broadcast().           *)
CondTypes ==
  /\ condWaiters \in [Cond -> Seq(Thread)]
  /\ condPc \in [Thread -> CondPC]
  /\ condArg \in [Thread -> Cond]

Rest == CondTypes /\ (\A t \in Thread : Element(t)) /\ Lists /\ IdleApart

LEMMA InvHolds ==
  ASSUME MonitorInv
  PROVE  /\ SynchInv /\ Rest
         /\ pc \in [Thread -> PC] /\ arg \in [Thread -> Sema \cup Thread \cup {NoThread}]
         /\ value \in [Sema -> Nat] /\ waiters \in [Sema -> Seq(Thread)]
         /\ locks \in [Thread -> SUBSET Lock]
  BY DEF MonitorInv, MonitorTypeOK, Rest, CondTypes, SynchInv, WaitInv, SynchTypeOK

(* Lists that are left alone, by a thread that keeps its condition.        *)
LEMMA SameLists ==
  ASSUME MonitorInv, NEW t \in Thread, UNCHANGED condWaiters,
         UNCHANGED condArg \/ (Signalled(t) /\ \E c \in Cond : condArg' = [condArg EXCEPT ![t] = c]),
         NEW label \in CondPC, condPc' = [condPc EXCEPT ![t] = label]
  PROVE  /\ CondTypes' /\ Lists' /\ \A u \in Thread : Signalled(u)' <=> Signalled(u)
         /\ condPc'[t] = label /\ \A u \in Thread \ {t} : condPc'[u] = condPc[u]
<1>1. CondTypes /\ Lists
  BY DEF MonitorInv, MonitorTypeOK, CondTypes
<1>2. CondTypes'
  BY <1>1 DEF CondTypes
<1>3. Lists'
  BY <1>1 DEF Lists, Signalled, CondTypes
<1> QED
  BY <1>1, <1>2, <1>3 DEF Signalled, CondTypes

LEMMA CondWaitStep ==
  ASSUME MonitorInv, NEW t \in Thread, t # Idle, NEW c \in Cond, CondWait(t, c)
  PROVE  Rest'
<1> USE MonitorAssumption
<1>1. UNCHANGED synchVars
  BY CondWaitInits
<1>2. Rest /\ Element(t)
  BY InvHolds DEF Rest
<1>3. /\ pc[t] = "run" /\ condPc[t] = "none"
      /\ condWaiters' = [condWaiters EXCEPT ![c] = Append(@, t)]
      /\ condPc' = [condPc EXCEPT ![t] = "queued"] /\ condArg' = [condArg EXCEPT ![t] = c]
  BY DEF CondWait, Ready
<1>4. /\ UNCHANGED <<value, waiters, pc, arg, locks>>
  BY <1>1 DEF synchVars
<1>5. ~Pending(t) /\ Signalled(t) /\ value[Waiter[t]] = 0
  BY <1>2, <1>3 DEF Pending, Sleeping, Element
<1>6. /\ Append(condWaiters[c], t) \in Seq(Thread)
      /\ \A u : InList(Append(condWaiters[c], t), u) <=> InList(condWaiters[c], u) \/ u = t
      /\ Distinct(Append(condWaiters[c], t))
  BY <1>2, <1>5, AppendElements DEF Rest, CondTypes, Lists, Signalled
<1>7. CondTypes'
  BY <1>2, <1>3, <1>6 DEF Rest, CondTypes, CondPC
<1>8. Lists'
  BY <1>2, <1>3, <1>5, <1>6 DEF Rest, CondTypes, Lists, Signalled
<1>9. ~Signalled(t)' /\ \A u \in Thread \ {t} : Signalled(u)' <=> Signalled(u)
  BY <1>2, <1>3, <1>6 DEF Rest, CondTypes, Signalled
<1>10. condPc'[t] = "queued" /\ \A u \in Thread \ {t} : condPc'[u] = condPc[u]
  BY <1>2, <1>3 DEF Rest, CondTypes
<1>11. Element(t)'
  BY <1>2, <1>3, <1>4, <1>5, <1>9, <1>10 DEF Element, Pending, Sleeping
<1>12. ASSUME NEW u \in Thread \ {t} PROVE Element(u)'
  <2>1. SameSema(u)
    BY <1>4 DEF SameSema
  <2> QED
    BY <1>2, <1>4, <1>9, <1>10, <2>1, ElementKept DEF Rest
<1>13. IdleApart'
  BY <1>2, <1>4, <1>10, ThreadAssumption DEF Rest, IdleApart
<1> QED
  BY <1>7, <1>8, <1>11, <1>12, <1>13 DEF Rest

LEMMA CondReleaseStep ==
  ASSUME MonitorInv, NEW t \in Thread, t # Idle, CondRelease(t)
  PROVE  Rest'
<1> USE MonitorAssumption
<1>1. /\ Rest /\ Element(t)
      /\ pc \in [Thread -> PC] /\ arg \in [Thread -> Sema \cup Thread \cup {NoThread}]
      /\ locks \in [Thread -> SUBSET Lock]
  BY InvHolds DEF Rest
<1>2. /\ pc[t] = "run" /\ condPc[t] = "queued" /\ UNCHANGED <<value, waiters, condWaiters, condArg>>
      /\ condPc' = [condPc EXCEPT ![t] = "released"]
      /\ pc' = [pc EXCEPT ![t] = "releasing"]
      /\ arg' = [arg EXCEPT ![t] = MonitorLock[condArg[t]]]
      /\ locks' = [locks EXCEPT ![t] = @ \ {MonitorLock[condArg[t]]}]
  BY DEF CondRelease, Ready, LockRelease, CondGoto, Goto, semaVars
<1>3. /\ CondTypes' /\ Lists' /\ \A u \in Thread : Signalled(u)' <=> Signalled(u)
      /\ condPc'[t] = "released" /\ \A u \in Thread \ {t} : condPc'[u] = condPc[u]
  BY <1>2, SameLists DEF CondPC
<1>4. pc'[t] = "releasing" /\ \A u \in Thread \ {t} : pc'[u] = pc[u] /\ arg'[u] = arg[u]
  BY <1>1, <1>2
<1>5. Element(t)'
  BY <1>1, <1>2, <1>3, <1>4 DEF Element, Pending, Sleeping
<1>6. ASSUME NEW u \in Thread \ {t} PROVE Element(u)'
  <2>1. SameSema(u)
    BY <1>2, <1>4 DEF SameSema
  <2> QED
    BY <1>1, <1>3, <1>4, <2>1, ElementKept DEF Rest
<1>7. IdleApart'
  BY <1>1, <1>2, <1>3, ThreadAssumption DEF Rest, IdleApart
<1> QED
  BY <1>3, <1>5, <1>6, <1>7 DEF Rest

LEMMA CondSleepStep ==
  ASSUME MonitorInv, NEW t \in Thread, t # Idle, CondSleep(t)
  PROVE  Rest'
<1> USE MonitorAssumption
<1>1. Rest
  BY InvHolds
<1>2. /\ pc[t] = "run" /\ condPc[t] = "released" /\ SemaDown(t, Waiter[t])
      /\ UNCHANGED <<condWaiters, condArg, locks>>
      /\ condPc' = [condPc EXCEPT ![t] = "signalled"]
  BY DEF CondSleep, Ready, SemaDown, Decrement, WaitOn, CondGoto
<1>3. /\ CondTypes' /\ Lists' /\ \A u \in Thread : Signalled(u)' <=> Signalled(u)
      /\ condPc'[t] = "signalled" /\ \A u \in Thread \ {t} : condPc'[u] = condPc[u]
  BY <1>2, SameLists DEF CondPC
<1>4. Element(t)' /\ \A u \in Thread \ {t} : SameSema(u) /\ pc'[u] = pc[u] /\ arg'[u] = arg[u]
  BY <1>2, <1>3, OwnDown
<1>5. \A u \in Thread \ {t} : Element(u)'
  BY <1>1, <1>3, <1>4, ElementKept DEF Rest
<1>6. IdleApart'
  BY <1>1, <1>2, <1>3, ThreadAssumption DEF Rest, IdleApart
<1> QED
  BY <1>3, <1>4, <1>5, <1>6 DEF Rest

LEMMA CondReacquireStep ==
  ASSUME MonitorInv, NEW t \in Thread, t # Idle, CondReacquire(t)
  PROVE  Rest'
<1> USE MonitorAssumption
<1>1. /\ Rest /\ Element(t) /\ SynchInv
      /\ pc \in [Thread -> PC] /\ arg \in [Thread -> Sema \cup Thread \cup {NoThread}]
  BY InvHolds DEF Rest
<1> DEFINE l == MonitorLock[condArg[t]]
<1>2. /\ pc[t] = "run" /\ condPc[t] = "signalled" /\ SemaDown(t, l)
      /\ UNCHANGED <<condWaiters, condArg, locks>>
      /\ condPc' = [condPc EXCEPT ![t] = "none"]
  BY DEF CondReacquire, LockAcquire, Ready, SemaDown, Decrement, WaitOn, CondGoto
<1>3. /\ CondTypes' /\ Lists' /\ \A u \in Thread : Signalled(u)' <=> Signalled(u)
      /\ condPc'[t] = "none" /\ \A u \in Thread \ {t} : condPc'[u] = condPc[u]
  BY <1>2, SameLists DEF CondPC
<1>4. l \in Lock /\ l \in Sema
  BY <1>1, SemaAssumption DEF Rest, CondTypes
<1> HIDE DEF l
<1>5. Touches(t, l)
  BY <1>1, <1>2, <1>4, DownTouches DEF SharedSema
<1>6. \A u \in Thread : SameSema(u)
  BY <1>4, <1>5, OtherSema
<1>7. \A u \in Thread \ {t} : pc'[u] = pc[u] /\ arg'[u] = arg[u]
  BY <1>5 DEF Touches
<1>8. \A u \in Thread \ {t} : Element(u)'
  BY <1>1, <1>3, <1>6, <1>7, ElementKept DEF Rest
<1>9. Signalled(t) /\ ~Pending(t)
  BY <1>1, <1>2 DEF Element, Pending, Sleeping
<1>10. Element(t)'
  <2>1. Waiter[t] # l
    BY <1>4
  <2>2. \A u \in Thread : ~InList(waiters'[Waiter[t]], u)
    BY <1>1, <1>6, <1>9 DEF Element, SameSema
  <2>3. value'[Waiter[t]] = 0
    BY <1>1, <1>6, <1>9 DEF Element, SameSema
  <2>4. ASSUME NEW u \in Thread, pc'[u] = "down", arg'[u] = Waiter[t]
        PROVE  FALSE
    <3>1. pc[u] = "down" /\ arg[u] = Waiter[t]
      BY <1>6, <2>4 DEF SameSema
    <3> QED
      BY <1>1, <1>2, <3>1 DEF Element
  <2> QED
    BY <1>3, <1>9, <2>2, <2>3, <2>4 DEF Element, Pending, Sleeping
<1>11. IdleApart'
  BY <1>1, <1>2, <1>3, ThreadAssumption DEF Rest, IdleApart
<1> QED
  BY <1>3, <1>8, <1>10, <1>11 DEF Rest

(* The thread at the head of the list is taken off it for good, and its    *)
(* semaphore, which was 0, goes to 1 and loses the sleeper it may have.    *)
LEMMA SignalStep ==
  ASSUME MonitorInv, NEW t \in Thread, t # Idle, NEW c \in Cond, Signal(t, c)
  PROVE  Rest'
<1> USE MonitorAssumption
<1>1. /\ Rest /\ SynchInv /\ WaitInv
      /\ value \in [Sema -> Nat] /\ waiters \in [Sema -> Seq(Thread)]
  BY InvHolds DEF SynchInv
<1>2. /\ condWaiters[c] # << >> /\ SemaUp(Waiter[Head(condWaiters[c])])
      /\ condWaiters' = [condWaiters EXCEPT ![c] = Tail(@)]
      /\ UNCHANGED <<pc, arg, locks, condPc, condArg>>
  BY DEF Signal, pcVars
<1>3. condWaiters[c] \in Seq(Thread) /\ Distinct(condWaiters[c])
  BY <1>1 DEF Rest, CondTypes, Lists
<1>4. PICK h \in Thread :
      /\ h = Head(condWaiters[c])
      /\ Tail(condWaiters[c]) \in Seq(Thread) /\ InList(condWaiters[c], h)
      /\ \A u : InList(Tail(condWaiters[c]), u) <=> InList(condWaiters[c], u) /\ u # h
      /\ Distinct(Tail(condWaiters[c]))
  BY <1>2, <1>3, TailElements
<1> DEFINE w == Waiter[h]
<1>5. CondTypes' /\ Lists'
  BY <1>1, <1>2, <1>4 DEF Rest, CondTypes, Lists
<1>6. ~Signalled(h) /\ Signalled(h)' /\ \A u \in Thread \ {h} : Signalled(u)' <=> Signalled(u)
  <2>1. ~Signalled(h)
    BY <1>4 DEF Signalled
  <2>2. \A d \in Cond \ {c} : ~InList(condWaiters[d], h)
    BY <1>1, <1>4 DEF Rest, Lists
  <2>3. condWaiters'[c] = Tail(condWaiters[c]) /\ \A d \in Cond \ {c} : condWaiters'[d] = condWaiters[d]
    BY <1>1, <1>2 DEF Rest, CondTypes
  <2> QED
    BY <1>4, <2>1, <2>2, <2>3 DEF Signalled
<1>7. Element(h) /\ Pending(h) /\ w \in Sema /\ value[w] = 0 /\ SemaUp(w)
  BY <1>1, <1>2, <1>4, <1>6 DEF Rest, Element
<1> HIDE DEF w
<1>8. value'[w] = 1
  BY <1>1, <1>7 DEF SemaUp
<1>9. \A u \in Thread : ~InList(waiters'[w], u)
  <2> SUFFICES ASSUME NEW u \in Thread, InList(waiters'[w], u) PROVE FALSE
    OBVIOUS
  <2>1. InList(waiters[w], u) /\ ~IsFirst(w, u)
    BY <1>1, <1>7, UpEffect
  <2>2. waiters[w] # << >> /\ InList(waiters[w], Head(waiters[w])) /\ Head(waiters[w]) \in Thread
    <3>1. waiters[w] \in Seq(Thread) /\ Distinct(waiters[w])
      BY <1>1, <1>7 DEF WaitInv, WaitsOnce
    <3>2. waiters[w] # << >>
      BY <2>1, EmptyList
    <3> QED
      BY <3>1, <3>2, TailElements
  <2>3. u = h /\ Head(waiters[w]) = h
    BY <1>7, <2>1, <2>2 DEF Element, w
  <2> QED
    BY <2>1, <2>2, <2>3 DEF IsFirst
<1>10. Element(h)'
  <2>1. Pending(h)'
    BY <1>2, <1>7 DEF Pending, Sleeping
  <2> QED
    BY <1>2, <1>6, <1>7, <1>8, <1>9, <2>1 DEF Element, Sleeping, w
<1>11. ASSUME NEW u \in Thread \ {h} PROVE Element(u)'
  <2>1. Waiter[u] # w /\ Waiter[u] \in Sema
    BY <1>4 DEF w
  <2>2. SameSema(u)
    BY <1>1, <1>2, <1>7, <2>1, UpTouches DEF SameSema
  <2> QED
    BY <1>1, <1>2, <1>6, <2>2, ElementKept DEF Rest
<1>12. IdleApart'
  BY <1>1, <1>2 DEF Rest, IdleApart
<1> QED
  BY <1>4, <1>5, <1>10, <1>11, <1>12 DEF Rest

LEMMA BroadcastStep ==
  ASSUME MonitorInv, NEW t \in Thread, t # Idle,
         (\E c \in Cond : CondBroadcast(t, c)) \/ BroadcastEnd(t)
  PROVE  Rest'
<1>1. Rest /\ Element(t)
  BY InvHolds DEF Rest
<1>2. /\ pc[t] = "run" /\ condPc[t] \in {"none", "broadcast"}
      /\ UNCHANGED <<synchVars, condWaiters>>
  BY DEF CondBroadcast, BroadcastEnd, Ready
<1>3. Signalled(t) /\ ~Pending(t)
  BY <1>1, <1>2 DEF Element, Pending, Sleeping
<1>4. PICK label \in {"none", "broadcast"} :
         /\ condPc' = [condPc EXCEPT ![t] = label]
         /\ UNCHANGED condArg \/ \E c \in Cond : condArg' = [condArg EXCEPT ![t] = c]
  BY DEF CondBroadcast, BroadcastEnd, CondGoto
<1>5. /\ CondTypes' /\ Lists' /\ \A u \in Thread : Signalled(u)' <=> Signalled(u)
      /\ condPc'[t] = label /\ \A u \in Thread \ {t} : condPc'[u] = condPc[u]
  BY <1>2, <1>3, <1>4, SameLists DEF CondPC
<1>6. UNCHANGED <<value, waiters, pc, arg, locks>>
  BY <1>2 DEF synchVars
<1>7. \A u \in Thread \ {t} : Element(u)'
  BY <1>1, <1>5, <1>6, ElementKept DEF Rest, SameSema
<1>8. Element(t)'
  BY <1>1, <1>2, <1>3, <1>5, <1>6 DEF Element, Pending, Sleeping
<1>9. IdleApart'
  BY <1>1, <1>5, <1>6, ThreadAssumption DEF Rest, IdleApart
<1> QED
  BY <1>5, <1>7, <1>8, <1>9 DEF Rest

LEMMA OtherRest ==
  ASSUME MonitorInv, OtherStep
  PROVE  Rest'
<1>1. Rest
  BY InvHolds
<1>2. CondTypes' /\ Lists'
  BY <1>1 DEF OtherStep, condVars, Rest, CondTypes, Lists
<1>3. locks'[Idle] = {} /\ condPc'[Idle] = "none"
  <2>1. locks'[Idle] \subseteq locks[Idle]
    BY <1>1, InvHolds, SynchTouches DEF Rest, Touches
  <2> QED
    BY <1>1, <2>1 DEF Rest, IdleApart, OtherStep, condVars
<1> QED
  BY <1>2, <1>3, OtherElements DEF Rest, IdleApart

(* Every step preserves the invariant.                                     *)
LEMMA MonitorInvStep ==
  ASSUME MonitorInv, [MonitorNext]_monitorVars
  PROVE  MonitorInv'
<1>1. SynchInv'
  BY SynchPart
<1>2. Rest'
  <2>1. PICK t \in Thread : t = running
    BY InvHolds DEF SynchInv, WaitInv, SchedInv, SchedTypeOK
  <2>2. Rest
    BY InvHolds
  <2>3. CASE OtherStep
    BY <2>3, OtherRest
  <2>4. CASE UNCHANGED monitorVars
    BY <2>2, <2>4
       DEF monitorVars, synchVars, condVars, Rest, CondTypes, Element, Pending, Sleeping,
           Signalled, Lists, IdleApart
  <2>5. CASE CondStep(t) \/ CondCall(t)
    <3>1. t # Idle
      BY <2>2, <2>5 DEF Rest, IdleApart, CondStep, CondCall, CondRelease, CondSleep, CondReacquire,
                        BroadcastNext, BroadcastEnd, CondWait, CondSignal, CondBroadcast, Signal, Ready
    <3>2. CASE CondStep(t)
      <4>1. condArg[t] \in Cond
        BY <2>2 DEF Rest, CondTypes
      <4> QED
        BY <3>1, <3>2, <4>1, CondReleaseStep, CondSleepStep, CondReacquireStep, SignalStep,
           BroadcastStep DEF CondStep, BroadcastNext
    <3>3. CASE CondCall(t)
      BY <3>1, <3>3, CondWaitStep, SignalStep, BroadcastStep DEF CondCall, CondSignal
    <3> QED
      BY <2>5, <3>2, <3>3
  <2> QED
    BY <2>1, <2>3, <2>4, <2>5 DEF MonitorNext
<1> QED
  BY <1>1, <1>2 DEF MonitorInv, MonitorTypeOK, Rest, CondTypes, SynchInv, WaitInv

LEMMA MonitorInvInit == MonitorInit => MonitorInv
<1> SUFFICES ASSUME MonitorInit PROVE MonitorInv
  OBVIOUS
<1> USE MonitorAssumption, ThreadAssumption
<1>1. SynchInv
  BY SynchInvInit DEF MonitorInit
<1>2. CondTypes
  BY DEF MonitorInit, CondTypes, CondPC
<1>3. \A t \in Thread : Signalled(t) /\ condPc[t] = "none"
  BY EmptyList DEF MonitorInit, Signalled
<1>4. Lists
  BY EmptyList DEF MonitorInit, Lists, Distinct
<1>5. \A t \in Thread : /\ value[Waiter[t]] = 0 /\ waiters[Waiter[t]] = << >>
                        /\ pc[t] # "down"
  BY DEF MonitorInit, SynchInit
<1>6. ASSUME NEW t \in Thread PROVE Element(t)
  <2>1. ~Pending(t)
    BY <1>3 DEF Pending, Sleeping
  <2>2. \A u \in Thread : ~InList(waiters[Waiter[t]], u) /\ pc[u] # "down"
    BY <1>5, EmptyList
  <2> QED
    BY <1>3, <1>5, <2>1, <2>2 DEF Element
<1>7. IdleApart
  BY <1>3 DEF IdleApart, MonitorInit, SynchInit
<1> QED
  BY <1>1, <1>2, <1>4, <1>6, <1>7 DEF MonitorInv, MonitorTypeOK, CondTypes, SynchInv, WaitInv

-----------------------------------------------------------------------------
(* The invariant holds in every reachable state.                           *)
THEOREM MonitorInvariant == MonitorSpec => []MonitorInv
<1>1. MonitorInv /\ [MonitorNext]_monitorVars => MonitorInv'
  BY MonitorInvStep
<1> QED
  BY <1>1, MonitorInvInit, PTL DEF MonitorSpec

(* cond_wait(), cond_signal() and cond_broadcast() break nothing that       *)
(* threads/synch.c promises of semaphores and locks: exact waiter lists,    *)
(* mutual exclusion, and a holder that names the owner.                     *)
THEOREM MonitorKeepsSynch == MonitorSpec => []SynchInv
<1>1. MonitorInv => SynchInv
  BY DEF MonitorInv
<1> QED
  BY <1>1, MonitorInvariant, PTL

(* The semaphore on a waiter's stack is used for one wait by one waiter.    *)
THEOREM WaiterPrivateThm == MonitorSpec => []WaiterPrivate
<1>1. ASSUME MonitorInv PROVE WaiterPrivate
  <2>1. ASSUME NEW t \in Thread
        PROVE  /\ value[Waiter[t]] <= 1
               /\ ~InCondWait(t) => value[Waiter[t]] = 0 /\ waiters[Waiter[t]] = << >>
    <3>1. Element(t)
      BY <1>1 DEF MonitorInv
    <3> QED
      BY <1>1, <3>1, Unused DEF Element
  <2> QED
    BY <1>1, <2>1 DEF WaiterPrivate, MonitorInv
<1> QED
  BY <1>1, MonitorInvariant, PTL

(* A signal sent between a waiter's release of the lock and its sema_down() *)
(* is kept in its semaphore, and a signalled thread does not sleep on.      *)
THEOREM NoLostSignalThm == MonitorSpec => []NoLostSignal
<1>1. ASSUME MonitorInv PROVE NoLostSignal
  <2>1. ASSUME NEW t \in Thread
        PROVE  /\ condPc[t] \in {"queued", "released"} /\ Signalled(t) => value[Waiter[t]] = 1
               /\ Signalled(t) => ~InList(waiters[Waiter[t]], t)
    <3>1. Element(t)
      BY <1>1 DEF MonitorInv
    <3> QED
      BY <3>1 DEF Element, Pending
  <2> QED
    BY <2>1 DEF NoLostSignal
<1> QED
  BY <1>1, MonitorInvariant, PTL
=============================================================================
