SPECIFICATION PartsSpec
CONSTANTS
  Main = main
  Idle = idle
  Thread = {main, idle, t1, t2, t3}
  NoThread = NoThread
  TimeSlice = 2
  Printers = {r1, r2}
  BufSize = 3
  MessageBytes = 2
  MaxBytes = 4
  Nobody = Nobody
  IdeCaller = {k1, k2}
  IdeSector = {s1, s2}
  IdeValue = {v0, v1}
  NoCaller = NoCaller
  Allocator = {h1, h2}
  PoolPages = 3
  NoAllocator = NoAllocator
  Desc = {d16}
  BlocksPerArena = 2
  BigPages = {2}
  Files = {f1, f2}
  Direct = 1
  ListSize = 2
  SectorBytes = 2
  EntryBytes = 1
  DiskSectors = 14
  Lengths = {0, 1, 4, 9, 11}
INVARIANTS SchedInv WireInOrder MessagesWhole OneCompletionPerCommand PagesOwnedOnce BlocksExact BlocksFound SectorsAccounted
PROPERTIES RoundRobin EveryReadyThreadRuns PrinterProceeds ChannelReleased ImplementsDisk BlocksStay
CHECK_DEADLOCK FALSE
