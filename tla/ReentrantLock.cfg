CONSTANTS
  a = a
  b = b
  c = c
  NoTask = NoTask
  Tasks = {a, b, c}
  Cancellable = {a}
  MAX_SPIN_ITERS = 1
  MaxDepth = 2
  MaxCalls = 1
SPECIFICATION FairSpec
INVARIANTS MutualExclusion NoLostWakeup CancelReachesParked
PROPERTIES CallsEnd ImplementsMutex
