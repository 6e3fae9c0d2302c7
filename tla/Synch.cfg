SPECIFICATION SynchSpec
CONSTANTS
  Main = main
  Idle = idle
  Thread = {main, idle, t1, t2}
  NoThread = NoThread
  TimeSlice = 1
  Lock = {l1, l2}
  IdleStarted = idle_started
  Sema = {l1, l2, s1, idle_started}
  Public = {s1}
  SemaInit = 0
  MaxValue = 2
INVARIANTS SynchInv NoLostWakeup
PROPERTIES ImplementsLocks KeepsScheduler
