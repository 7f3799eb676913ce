CONSTANTS
  t1 = t1
  t2 = t2
  t3 = t3
  k1 = k1
  k2 = k2
  Threads = {t1, t2, t3}
  Keys = {k1, k2}
  NoKey = NoKey
  MaxCalls = 2
SPECIFICATION FairSpec
INVARIANTS NoWaitCycle SleepsOnLease QueuedIsExact
PROPERTY ReserveEnds
