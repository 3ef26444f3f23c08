CONSTANTS
  a1 = a1
  Uids = {a1}
  Uid <- MCUid
  Termination = Termination
  MaxConns = 1
  MaxBytes = 0
  QueueSize = 1
  Lists = TRUE
  JniFails = FALSE
  Size = 2
  ResetAbove = 2
SPECIFICATION PipelineFairSpec
PROPERTY StopEnds
CHECK_DEADLOCK FALSE
