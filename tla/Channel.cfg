CONSTANTS
  a = a
  b = b
  c = c
  NoTask = NoTask
  Tasks = {a, b, c}
  Sizes = {0, 1}
  MaxOps = 3
SPECIFICATION ChannelSpec
SYMMETRY TaskSymmetry
INVARIANTS TakersSeeItems WaitersSeeOffers NoWastedInvitation IterationIsComplete CloseReleases
