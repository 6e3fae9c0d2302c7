SPECIFICATION Spec
CONSTANTS
  Client = {c1, c2}
  Sector = {a, b, c}
  Value = {zero, v1}
  Zero = zero
  NoSector = NoSector
  NoClient = NoClient
  cache_size = 2
SYMMETRY Symmetry
CONSTRAINT BeforeRace
INVARIANTS Coherent SaveIsEnough
PROPERTIES ReadsLatest
