CONSTANTS
  Threads = {t1, t2, t3}
  PMEnd = 13
  BIAS = 2
  Sizes = {1, 2, 4}
  NULL = NULL
SPECIFICATION Spec
SYMMETRY Symmetry
INVARIANTS BlocksApart ListIntact
PROPERTIES ImplementsAllocator
