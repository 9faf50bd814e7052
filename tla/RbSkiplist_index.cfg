CONSTANTS
  Node = {n1, n2, n3}
  Header = Header
  Key = {1, 2}
  INT_MIN = 0
  Pid = {p1, p2}
  Reader = {t1}
  ReadCalls <- AllCalls
  PID_SL_MAX_LEVEL = 2
  NULL = NULL
SPECIFICATION Spec
SYMMETRY Symmetric
CONSTRAINT Explored
ACTION_CONSTRAINT Prompt
INVARIANTS
  StructureOK
  NoUseAfterFree
  IndexExact
  LookupRight
  IterationRight
