SPECIFICATION Spec
CONSTANTS
  MaxBatch = 14
  MaxProvers = 9
INVARIANTS
  SharesTile
  CmtSharesTile
  IdleIffBeyondBatch
