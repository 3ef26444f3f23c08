SPECIFICATION Spec
CONSTANTS
  domains = domains
  ips = ips
  mLists <- MCLists
  Remote = {domains}
  None = None
  MaxUpdates = 2
  MaxCaptures = 1
INVARIANT DownloadedIsLoaded
CHECK_DEADLOCK FALSE
