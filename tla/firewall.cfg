CONSTANTS
  c1 = c1  c2 = c2
  a1 = a1  i1 = i1  h1 = h1
  Conns = {c1, c2}
  Apps = {a1}
  Netd = Netd
  UidUnknown = UidUnknown
  Ips = {i1}
  Hosts = {h1}
  Births <- MCBirths
  NoHost = NoHost
  Null = Null
  Blocklists <- MCBlocklists
  Whitelists <- MCWhitelists
  MalwareLists <- MCMalwareLists
  MalwareWhitelists <- MCMalwareWhitelists
  MaxLru = 2
  MaxEdits = 2
SPECIFICATION Spec
INVARIANTS TypeOK BlocklistEnforced WhitelistEnforced
PROPERTY LiftedByLists
CHECK_DEADLOCK FALSE
SYMMETRY Symmetry
