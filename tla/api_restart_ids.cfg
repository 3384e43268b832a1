SPECIFICATION Spec
CONSTANTS
  e1 = e1
  e2 = e2
  b1 = b1
  b2 = b2
  Entities = {e1}
  MaxId = 5
  Bodies = {b1}
  Empty = Empty
  Torn = Torn
  Absent = Absent
  NoRequest = NoRequest
  NoResponse = NoResponse
  Threads = {t1}
  Workload <- FillAndEmpty
  BadNames = {}
  Faults = FALSE
  MaxRestarts = 1
INVARIANT PostIdAvailable
