CONSTANTS
  MaxConns = 2
  MaxBytes = 1
  QueueSize = 1
  Lists = TRUE
  JniFails = TRUE
SPECIFICATION FairSpec
INVARIANTS TypeOK NoDangling NothingForgotten FreedTold IdsInOrder
PROPERTY ClosedFreed
CHECK_DEADLOCK FALSE
