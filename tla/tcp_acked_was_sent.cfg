CONSTANTS
  ClientBytes = 2
  ServerBytes = 1
  Mss = 2
  ClientBuffer = 2
  Unit = 2
  SeqMod = 20
  ClientIsn = 18
  ZdtunIsn = 19
  MaxTun = 2
  Clients = {"hasty"}
SPECIFICATION Spec
INVARIANT AckedWasSent
CHECK_DEADLOCK FALSE
