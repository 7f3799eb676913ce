CONSTANTS
  h1 = h1
  h2 = h2
  Thieves = {h1, h2}
  MaxItems = 4
  InitCap = 2
SPECIFICATION QueueSpec
SYMMETRY Symmetry
INVARIANTS HoldsTheRest
PROPERTIES ImplementsBag EmptyPopIsTrue
