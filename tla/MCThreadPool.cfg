CONSTANTS
  Workers = {w1, w2, w3}
  Clients = {main, other}
  Owner = main
  Jobs = {job}
  Term = Term
  Null = Null
  MayFail = TRUE
  MaxWork = 3
SPECIFICATION FairSpec
INVARIANTS
  TypeOK
  NumThreadsAccurate
  OneSentinelOnItsWay
  NothingEarlyAbandoned
  AbortOnlyByLateUse
  FreedIsQuiet
PROPERTIES
  TerminateStops
  FreeEnds
\* The owner may never free the pool, and workers wait for work for ever.
CHECK_DEADLOCK FALSE
