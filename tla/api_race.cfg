SPECIFICATION FairSpec
CONSTANTS
  e1 = e1
  e2 = e2
  b1 = b1
  b2 = b2
  Entities = {e1, e2}
  MaxId = 2
  Bodies = {b1}
  Empty = Empty
  Torn = Torn
  Absent = Absent
  NoRequest = NoRequest
  NoResponse = NoResponse
  Threads = {t1, t2}
  Workload <- RaceWorkload
  BadNames = {}
  Faults = FALSE
  MaxRestarts = 0
INVARIANT SoloScanRecovers
PROPERTIES AuthorisedWrites EveryRequestDecided
CHECK_DEADLOCK FALSE
