SPECIFICATION Spec
CONSTANTS
  Texts <- AllTexts
  MaxReparses = 0
INVARIANT ReturnsTrueIffValid
CHECK_DEADLOCK FALSE
