CONSTANTS
  a1 = a1
  Uids = {a1}
  Uid <- MCUid
  Termination = Termination
  MaxConns = 3
  MaxBytes = 1
  QueueSize = 1
  Lists = FALSE
  JniFails = TRUE
  Size = 3
  ResetAbove = 2
SPECIFICATION PipelineSpec
INVARIANTS ShownIsSent NoGapShown NothingLeft
CHECK_DEADLOCK FALSE
