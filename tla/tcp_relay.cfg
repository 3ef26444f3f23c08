CONSTANTS
  ClientBytes = 2
  ServerBytes = 3
  Mss = 2
  ClientBuffer = 2
  Unit = 2
  SeqMod = 20
  ClientIsn = 18
  ZdtunIsn = 19
  MaxTun = 2
  Clients = {"patient", "hasty"}
SPECIFICATION FairSpec
INVARIANTS TypeOK WindowSound
PROPERTIES Relayed Downloads Uploads
CHECK_DEADLOCK FALSE
