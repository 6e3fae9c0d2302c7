SPECIFICATION Spec
CONSTANTS
  Proc = {p, q}
  Segment = {data}
  Stack = stack
  Shm = shm
  Value = {image, zero, freed}
  Image = image
  Zero = zero
  Freed = freed
  UserPages = 4
  SwapPages = 2
  NoProc = NoProc
  NoPage = NoPage
INVARIANTS SharedPageKept
CHECK_DEADLOCK FALSE
