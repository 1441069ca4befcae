SPECIFICATION Spec
CONSTANTS
  Bits = 1
  Group = 2
  SmallCases = 1
  Room = 10
  MaxUsed = 4
  Magnitudes <- AllMagnitudes
  Slack = TRUE
  MaxBits = 1
  Stale = Stale
  Foreign = Foreign
  Spoilt = Spoilt
  Routines <- Binary
  Operands <- Both
PROPERTIES BitsExact AnswersRight LegalStays
CHECK_DEADLOCK FALSE
