\* Two threads are at the same end or at one each; more would wait for the same
\* locks.  Two items show their order.  With three nodes a freed dummy comes back
\* while tail still points to it.
CONSTANTS
  Threads = {t1, t2}
  Items = {a, b}
  Nodes = {n1, n2, n3}
  Null = Null
  Ordered = TRUE
SPECIFICATION PushersRun
INVARIANTS
  ListIntact
  NoUseAfterFree
  NothingLeaked
PROPERTIES
  ImplementsFifo
  PushesGoOn
\* Pops may wait for an item nobody pushes, and a freed queue is not used.
CHECK_DEADLOCK FALSE
