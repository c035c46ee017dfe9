SPECIFICATION Spec
CONSTANTS
  prime = 13
  Apps = {"ginger", "hdist", "polyeval", "matrix", "matrix_q"}
  BatchSize = 2
  m = 2
  NumVars = 2
  NumIO = 2
  NumCons = 3
  F1_index <- MCF1_index
  Gamma12 <- MCGamma12
  Gamma0 <- MCGamma0
  NUM_REPS_PCP = 2
  NUM_REPS_LIN = 2
  Order = 6007
  SharedInput <- MCSharedInput
  Inputs <- MCInputs
  PubSeeds <- MCPubSeeds
  PrivSeed = 5
INVARIANTS
  ConsistencyQueryMatches
  HonestAccepted
  WrongOutputRefused
CHECK_DEADLOCK FALSE
