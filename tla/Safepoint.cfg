CONSTANTS
  t0 = t0
  t1 = t1
  f = f
  Threads = {t0, t1, f}
  Foreign = {f}
  Suspender = t0
  Nobody = Nobody
  Listener = Listener
  MaxGC = 2
  MaxSuspend = 1
SPECIFICATION Spec
INVARIANTS WorldStopped StopIsSeen EndIsSeen
