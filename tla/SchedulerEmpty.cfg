CONSTANTS
  t0 = t0
  t1 = t1
  t2 = t2
  shared = shared
  Threads = {t0, t1}
  IoThread = t0
  Pool = {t0, t1}
  Shared = shared
  Nobody = Nobody
  MaxTasks = 1
SPECIFICATION Spec
PROPERTY EmptyIsQuiet
