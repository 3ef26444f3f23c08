CONSTANTS
  t1 = t1  t2 = t2  u1 = u1  u2 = u2  i1 = i1
  Tuples = {t1, u1, u2}
  TCP = {t1}
  UDP = {u1, u2}
  DNS = {u1}
  Port <- MCPort
  Timeout <- MCTimeout
  MaxNumSockets = 2
  NumSocketsAfterPurge = 1
  QueryWrap = 2
SPECIFICATION FairSpec
INVARIANTS TypeOK MappingNotLeaked
PROPERTY Reclaimed
