\* Five ranks, three provers at most: rank 4 is in excess and stays blocked, and
\* the shares of the others are uneven.  A rank that has finalized or is in
\* excess takes no step; that nobody else is stuck is what SessionEnds says.
SPECIFICATION FairSpec
CONSTANTS
  CommSize = 5
  NUM_PROVERS_MAX = 3
  BatchSize = 4
INVARIANTS
  CommitBeforeReveal
  HonestBatchAccepted
  PhaseBarrier
  OnlyOrphans
  ExcessRanksParked
PROPERTIES
  ImplementsArgument
  SessionEnds
CHECK_DEADLOCK FALSE
