SPECIFICATION Spec
CONSTANTS
  Texts <- AllTexts
  MaxReparses = 1
INVARIANTS
  TypeOK
  BackDefined
  VerdictExact
  LexExact
  TreeExact
  RoundTrip
  ListenDecides
CHECK_DEADLOCK FALSE
