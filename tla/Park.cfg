CONSTANTS
  a = a
  b = b
  s1 = s1
  s2 = s2
  k1 = k1
  k2 = k2
  None = None
  Tasks = {a, b}
  Sources = {s1, s2}
  Cancellers = {k1, k2}
  Waits <- MovingWaits
  Cancels <- Escalation
  Threshold = 2
  MaxOps = 2
SPECIFICATION Spec
INVARIANTS OneOwnerOfWake ClaimIsGoverned CancelReachesParked QueueMatchesWaits FloorIsHonoured
SYMMETRY Symmetry
