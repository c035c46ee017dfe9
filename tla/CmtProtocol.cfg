\* Four provers, one of them without an instance, and one whose values may be
\* wrong, with and without auxiliary inputs to gather.  Every rank stops at the end.
SPECIFICATION FairSpec
CONSTANTS
  NumProvers = 4
  BatchSize = 3
  Depth = 3
  LogSize <- MCLogSize
  MagicSizes = {0, 1}
  Faulty = {1}
INVARIANTS
  FreshAnswers
  AcceptedMeansChecked
  WaitIsAnswered
PROPERTIES
  ProversExit
  HonestAccepted
CHECK_DEADLOCK FALSE
