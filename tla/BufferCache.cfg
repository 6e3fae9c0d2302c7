SPECIFICATION FairSpec
CONSTANTS
  Client = {c1, c2}
  Sector = {a, b}
  Value = {zero, v1}
  Zero = zero
  NoSector = NoSector
  NoClient = NoClient
  cache_size = 1
INVARIANTS PinCounts LoadingExclusive
PROPERTIES EvictionEnds
