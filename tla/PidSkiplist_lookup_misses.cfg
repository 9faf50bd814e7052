CONSTANTS
  Node = {n1, n2, n3}
  Header = Header
  Key = {1, 2, 3}
  INT_MIN = 0
  Pid = {p1}
  Reader = {t1}
  ReadCalls <- LookupCalls
  InsertPids = {p1}
  PID_SL_MAX_LEVEL = 1
  NULL = NULL
  ABSENT = ABSENT
SPECIFICATION Spec
SYMMETRY Symmetric
INVARIANT LookupComplete
