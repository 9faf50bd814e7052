CONSTANTS
  Node = {n1, n2, n3}
  Header = Header
  Key = {1, 2}
  INT_MIN = 0
  Pid = {p1}
  Reader = {}
  ReadCalls <- NoCalls
  PID_SL_MAX_LEVEL = 2
  NULL = NULL
SPECIFICATION Spec
SYMMETRY Symmetric
INVARIANT TreeEmptiedBefore
