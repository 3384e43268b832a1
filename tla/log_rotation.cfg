SPECIFICATION Spec
CONSTANTS
  MaxLogFiles = 2
  MaxMinute = 5
  MaxStarts = 4
  MaxFaults = 1
INVARIANTS
  TypeOK
  CurrentKept
PROPERTIES
  EnoughKept
  Converges
CHECK_DEADLOCK FALSE
