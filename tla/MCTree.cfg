CONSTANTS
  Workers = {w1, w2}
  Users = {main, user}
  Main = main
  Vertices = {v}
  Term = Term
  Null = Null
  MayFail = TRUE
  SizeValues = 5
  MaxLines = 2
  MaxChildren = 3
SPECIFICATION FairSpec
INVARIANTS
  TypeOK
  ActiveLinesAccurate
  ListsSound
  OneLineFreesCleanly
PROPERTIES
  StartedTreeStops
CHECK_DEADLOCK FALSE
