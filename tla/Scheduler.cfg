CONSTANTS
  t0 = t0
  t1 = t1
  t2 = t2
  shared = shared
  Threads = {t0, t1, t2}
  IoThread = t0
  Pool = {t1, t2}
  Shared = shared
  Nobody = Nobody
  MaxTasks = 1
SPECIFICATION Spec
SYMMETRY Symmetry
INVARIANTS NoStrandedTask RunningCount LoopYieldsLock LoopIsWatched
PROPERTY EmptyIsQuietOrUncounted
