\* Four nodes are a ring in which the oldest, its successor and the newest
\* differ, and a node freed and used again.
CONSTANTS
  Items = {a, b}
  Nodes = {n1, n2, n3, n4}
  Null = Null
SPECIFICATION Spec
INVARIANTS
  RingIntact
PROPERTIES
  ActsAsSequence
