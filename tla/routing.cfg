SPECIFICATION Spec
CONSTANTS
  a = a
  b = b
  d1 = d1
  d2 = d2
  Names = {a, b}
  NoName = NoName
  Values = {d1, d2}
  None = None
  Configs <- UpToThree
  Targets <- ShortTargets
INVARIANTS
  TypeOK
  LongestLocationServes
  UnmatchedNotFound
  OwnRoot
CHECK_DEADLOCK FALSE
