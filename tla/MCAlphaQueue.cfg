\* Four nodes: a push may be given the node a pop has freed while two others
\* are in the list and one is in the hands of the other thread.  Calls are not bounded.
CONSTANTS
  Threads = {p, c}
  Pusher = p
  Popper = c
  Items = {a, Null}
  Nodes = {n1, n2, n3, n4}
  Null = Null
  Ordered = TRUE
SPECIFICATION Spec
INVARIANTS
  ListIntact
  NoUseAfterFree
  NothingLeaked
PROPERTIES
  ImplementsFifo
\* Once the queue is freed nothing more may be called.
CHECK_DEADLOCK FALSE
