SPECIFICATION FsSpec
CONSTANTS
  Process = {p1, p2}
  Name = {"a"}
  FsSectors = 8
  ByteBits = 6
  InodeSlots = 3
  MaxKept = 1
  Nil = Nil
SYMMETRY Symmetry
INVARIANTS SectorsOwnedOnce DiskMapSafe TreeSound OpenCountsExact
CHECK_DEADLOCK FALSE
