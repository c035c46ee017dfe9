SPECIFICATION Spec
CONSTANTS
  prime = 17
  BatchSize = 2
  NumVars = 2
  Chi = 3
  SizeIO = 2
  QapFile <- MCQapFile
  num_aij = 3
  num_bij = 4
  Builds <- MCBuilds
  NUM_REPS_PCP = 2
  NUM_REPS_LIN = 2
  Order = 2003
  Assignments <- MCAssignments
  PubSeeds <- MCPubSeeds
  PrivSeeds <- MCPrivSeeds
INVARIANTS
  ConsistencyQueryMatches
  HonestAccepted
  AlteredAnswerRefused
  DivisibilityDecides
CHECK_DEADLOCK FALSE
