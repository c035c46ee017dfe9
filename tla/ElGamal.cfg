SPECIFICATION Spec
CONSTANTS
  p = 23
  g = 2
  r = 7
  Size = 3
  NumThreads = 2
  Plains <- MCPlains
  Vectors <- MCVectors
  Rands = {0, 5}
INVARIANTS
  DecryptsInnerProduct
PROPERTIES
  TeamJoins
CHECK_DEADLOCK FALSE
