CONSTANTS
  a = a
  b = b
  n = n
  s1 = s1
  s2 = s2
  ab = ab
  Ctx = {a, b, n}
  Saver = {v}
  Saved = {a}
  spusched = spusched
  MAX_NUMNODES = 1
  SpuList <- OneNode
  MAX_PRIO = 2
  MAX_RT_PRIO = 1
  MAX_USER_PRIO = 80
  NORMAL_PRIO = 1
  DEF_SPU_TIMESLICE = 1
  MIN_SPU_TIMESLICE = 1
  SchedInfo <- OneInfo
  NoSched = {n}
  Gang = {ab}
  GangOf <- GangAB
  AffList <- ListBA
  AffRef <- RefB
  MemAff = {}
  HasMemAff = {}
  NULL = NULL
SPECIFICATION Spec
INVARIANTS
  HandsExclusive
  BindingExact
  QueueExact
  UpdateNotQueued
  CountsExact
PROPERTY SpuLostOnlyByHandover
