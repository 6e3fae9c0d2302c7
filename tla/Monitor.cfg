SPECIFICATION FairMonitorSpec
CONSTANTS
  main = main
  idle = idle
  t1 = t1
  t2 = t2
  l1 = l1
  c1 = c1
  w0 = w0
  w1 = w1
  w2 = w2
  w3 = w3
  Main = main
  Idle = idle
  Thread = {main, idle, t1, t2}
  NoThread = NoThread
  TimeSlice = 1
  Lock = {l1}
  IdleStarted = idle_started
  Sema = {l1, idle_started, w0, w1, w2, w3}
  Public = {}
  SemaInit = 0
  MaxValue = 1
  Cond = {c1}
  MonitorLock <- MCMonitorLock
  Waiter <- MCWaiter
INVARIANTS NoLostSignal WaiterPrivate
PROPERTIES BroadcastEnds BootCompletes FreeLockIsTaken
