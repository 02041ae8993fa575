CONSTANTS
  Workers = {w1, w2}
  Main = main
  Term = Term
  Null = Null
  MayFail = FALSE
  MaxPumps = 1
  MaxProducts = 3
  MaxExecutes = 2
SPECIFICATION FairSpec
INVARIANTS
  TypeOK
  ActiveLinesAccurate
  OneInletStagePerExecute
  StagesInOrder
  FreedDelivered
PROPERTIES
  StartedPipelineStops
CHECK_DEADLOCK FALSE
