SPECIFICATION Spec
CONSTANTS
  prime = 5
  OutSize = 3
  InSize = 2
  Wirings <- MCWirings
  Inputs <- MCInputs
  Coins = {0, 1, 2, 4}
  StaleZ = {0, 3}
INVARIANTS
  RoundPolyCorrect
  PerfectCompleteness
  NextClaimTrueOffGrid
