CONSTANTS
  DEPTH = 1
  PID_MAX = 4
  PIDNS_ADDING = 8
  Pid = {p0, p1, p2}
  InitPid = p0
  Thread = {t1}
  Reader = {}
  NoMemory = FALSE
  LastPidWrites = {}
  NULL = NULL
  ABSENT = ABSENT
SPECIFICATION Spec
SYMMETRY Symmetric
INVARIANT RefusalIsReported
