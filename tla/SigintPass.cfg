CONSTANTS
  io = io
  w = w
  e1 = e1
  e2 = e2
  Sources = {e1}
  NoSrc = NoSrc
  Threads = {io, w}
  IoThread = io
  NoThread = NoThread
  Interactive = TRUE
  MaxSwaps = 1
  MaxPresses = 2
  Contention = FALSE
SPECIFICATION FairSpec

PROPERTY PressWakesParked
CHECK_DEADLOCK FALSE
