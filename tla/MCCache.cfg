\* Four objects fill three slots with one to spare.  W is 2^3.
CONSTANTS
  Threads = {t1, t2, t3}
  Objects = {a, b, c, d}
  Null = Null
  N = 3
  W = 8
SPECIFICATION Spec
INVARIANTS
  TypeOK
  RingIntact
  OneHolder
PROPERTIES
  GivenUpOnlyWhenFull
SYMMETRY Symmetry
\* Nothing may be called on a destroyed cache.
CHECK_DEADLOCK FALSE
