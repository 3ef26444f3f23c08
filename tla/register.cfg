CONSTANTS
  a1 = a1  a2 = a2
  Uids = {a1, a2}
  Uid <- MCUid
  Size = 2
  ResetAbove = 2
  MaxId = 3
  MaxBatch = 3
  MaxUpdates = 1
  MaxBytes = 1
  UserResets = TRUE
SPECIFICATION Spec
INVARIANTS TypeOK ShowsRecent FoundById CountersShown
