SPECIFICATION Spec
CONSTANTS
  MaxStarts = 2
  Revokes = TRUE
INVARIANTS OneCapture StatusAgrees
PROPERTY StopHeard
CHECK_DEADLOCK FALSE
