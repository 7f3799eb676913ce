CONSTANTS
  io = io
  w = w
  e1 = e1
  e2 = e2
  Sources = {e1, e2}
  NoSrc = NoSrc
  Threads = {io, w}
  IoThread = io
  NoThread = NoThread
  Interactive = FALSE
  MaxSwaps = 2
  MaxPresses = 2
  Contention = TRUE
SPECIFICATION Spec
SYMMETRY SourceSymmetry
INVARIANTS OnlyPressedAreCancelled NoStrayExit NoPressForgotten
CHECK_DEADLOCK FALSE
