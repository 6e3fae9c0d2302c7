SPECIFICATION Spec
CONSTANTS
  Proc = {p, q}
  Segment = {data}
  Stack = stack
  Shm = shm
  Value = {zero, image}
  Image = image
  Zero = zero
  Freed = zero
  UserPages = 4
  SwapPages = 2
  NoProc = NoProc
  NoPage = NoPage
SYMMETRY Symmetry
INVARIANTS SwapExact FramesExact ShmFlagExact ParentWaits
PROPERTIES PagingTransparent
CHECK_DEADLOCK FALSE
