SPECIFICATION Spec
CONSTANTS
  domains = domains
  ips = ips
  mLists <- MCLists
  Remote = {domains}
  None = None
  MaxUpdates = 2
  MaxCaptures = 2
INVARIANTS TypeOK OneDownloadPerFile LoadedShown
PROPERTIES ReloadServed UpdateRecorded CaptureLoads
CHECK_DEADLOCK FALSE
