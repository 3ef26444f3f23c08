CONSTANTS
  t1 = t1  t2 = t2  u1 = u1  u2 = u2  i1 = i1
  Tuples = {t1, t2, i1}
  TCP = {t1, t2}
  UDP = {}
  DNS = {}
  Port <- MCPort
  Timeout <- MCTimeout
  MaxNumSockets = 2
  NumSocketsAfterPurge = 1
  QueryWrap = 2
SPECIFICATION Spec
INVARIANTS SocketAccounting SelectSets HalfClosed SynAckOnce UserDataAlive
PROPERTY ClosedIsFinal
