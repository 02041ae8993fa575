CONSTANTS
  Threads = {t1, t2}
  Items = {a}
  Nodes = {n1, n2}
  Null = Null
  Ordered = TRUE
SPECIFICATION Spec
INVARIANTS
  NoLostWakeup
CHECK_DEADLOCK FALSE
