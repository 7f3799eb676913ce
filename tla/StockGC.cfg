CONSTANTS
  a = a
  b = b
  i = i
  t0 = t0
  t1 = t1
  c0 = c0
  g = g
  Heap = {a, b}
  Watched = {a}
  Tasks = {a}
  MultiPass = {b}
  MaxPasses = 3
  MaxRemset = 4
  Image = {i}
  Thread = {t0, t1}
  Collector = {c0}
  Initiator = g
  WorkFactor = 1
  NULL = NULL
SPECIFICATION Spec
SYMMETRY Symmetry
INVARIANTS NoDangling MarkingIsOver WeakBeforeFinalizer
PROPERTY RememberedOnce
