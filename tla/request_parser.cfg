SPECIFICATION Spec
CONSTANTS
  Texts <- AllTexts
  NextTexts <- Seconds
  Pieces = {1, 4, 40}
  MaxResets = 1
INVARIANTS
  TypeOK
  HeadersBacked
  VerdictExact
  FieldsExact
CHECK_DEADLOCK FALSE
