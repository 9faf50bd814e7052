CONSTANTS
  Node = {n1, n2, n3}
  Header = Header
  Key = {1, 2}
  INT_MIN = 0
  Pid = {p1}
  Reader = {t1}
  ReadCalls <- AllCalls
  InsertPids = {p1}
  PID_SL_MAX_LEVEL = 2
  NULL = NULL
  ABSENT = ABSENT
SPECIFICATION Spec
SYMMETRY Symmetric
INVARIANTS
  TypeOK
  ChainOK
  TowersOK
  NoLeak
  NoUseAfterFree
  LookupSound
  LookupMissesOnlyInWindow
  FindGeIsFirst
PROPERTY ImplementsMap
