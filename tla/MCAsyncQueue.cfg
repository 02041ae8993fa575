\* Three threads is the fewest with two parked pops, or a parked pop and a
\* parked free, beside a thread that signals.
CONSTANTS
  Threads = {t1, t2, t3}
  Items = {a, b}
  Null = Null
  MaxCalls = 2
SPECIFICATION FairSpec
INVARIANTS
  TypeOK
  NoLostWakeup
  DestroyedUnused
PROPERTIES
  ImplementsFifo
  ItemsReachPops
  DrainedFreeReturns
\* A pop may wait forever on a queue nobody fills: the system may stop there.
CHECK_DEADLOCK FALSE
