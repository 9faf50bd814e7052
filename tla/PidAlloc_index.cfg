CONSTANTS
  DEPTH = 1
  PID_MAX = 4
  PIDNS_ADDING = 8
  Pid = {p0, p1, p2}
  InitPid = p0
  Thread = {t1, t2}
  Reader = {}
  NoMemory = TRUE
  LastPidWrites = {0}
  NULL = NULL
  ABSENT = ABSENT
SPECIFICATION Spec
SYMMETRY Symmetric
INVARIANTS
  TypeOK
  EntriesOwned
  IndexedUnlessShared
  FirstIsReaper
  CountExact
  NoLostWakeup
PROPERTIES
  ReaperAtHand
