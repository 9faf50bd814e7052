CONSTANTS
  Task = {t0, t1, t2}
  InitTask = t0
  Pid = {p0, p1, p2}
  InitPid = p0
  Ns = {n0, n1, n2}
  InitNs = n0
  MAX_PID_NS_LEVEL = 2
  MaxPidNamespaces = 2
  PidfdCaller = {t0}
  NULL = NULL
SPECIFICATION Spec
SYMMETRY Symmetric
INVARIANTS
  LinksExact
  NsRefsExact
  PidRefsExact
  NoEscape
