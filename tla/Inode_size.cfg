SPECIFICATION InodeSpec
CONSTANTS
  Files = {f1}
  Direct = 1
  ListSize = 3
  SectorBytes = 2
  EntryBytes = 1
  DiskSectors = 24
  Lengths = {0, 5, 13, 19, 21}
INVARIANTS MaximumReached
CHECK_DEADLOCK FALSE
