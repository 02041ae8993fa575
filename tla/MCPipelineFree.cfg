CONSTANTS
  Workers = {w1, w2}
  Main = main
  Term = Term
  Null = Null
  MayFail = FALSE
  MaxPumps = 1
  MaxProducts = 2
  MaxExecutes = 1
SPECIFICATION Spec
INVARIANTS
  FreeFindsNoWork
CHECK_DEADLOCK FALSE
