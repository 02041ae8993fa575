\* A build or machine that may make the two stores of a push visible in either
\* order.
CONSTANTS
  Threads = {p, c}
  Pusher = p
  Popper = c
  Items = {a}
  Nodes = {n1, n2}
  Null = Null
  Ordered = FALSE
SPECIFICATION Spec
PROPERTIES
  ImplementsFifo
CHECK_DEADLOCK FALSE
