CONSTANTS
  Workers = {w1, w2}
  Clients = {main}
  Owner = main
  Jobs = {job}
  Term = Term
  Null = Null
  MayFail = FALSE
  MaxWork = 3
SPECIFICATION Spec
INVARIANTS
  NoLateWorkDone
CHECK_DEADLOCK FALSE
