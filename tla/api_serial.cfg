SPECIFICATION Spec
CONSTANTS
  e1 = e1
  e2 = e2
  b1 = b1
  b2 = b2
  Entities = {e1, e2}
  MaxId = 3
  Bodies = {b1, b2}
  Empty = Empty
  Torn = Torn
  Absent = Absent
  NoRequest = NoRequest
  NoResponse = NoResponse
  Threads = {t1}
  Workload <- SerialWorkload
  BadNames = {}
  Faults = FALSE
  MaxRestarts = 0
INVARIANTS TypeOK IndexExact
PROPERTIES ImplementsKvStore AuthorisedWrites
