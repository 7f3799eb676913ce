CONSTANTS
  r = r
  a = a
  b = b
  d = d
  k1 = k1
  k2 = k2
  k3 = k3
  Sources = {r, a, b, d}
  Parents <- Diamond
  Calls = {k1, k2, k3}
  Call <- ControlC
  Floors = {1}
SPECIFICATION Spec
INVARIANTS CancelMarksSubtree CancelWakesSubtree SubtreeClosed
