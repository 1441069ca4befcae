SPECIFICATION Spec
CONSTANTS
  Bits = 2
  Group = 2
  SmallCases = 2
  Room = 14
  MaxUsed = 3
  Magnitudes <- AllMagnitudes
  Slack = TRUE
  MaxBits = 7
  Stale = Stale
  Foreign = Foreign
  Spoilt = Spoilt
  Routines <- Unary
  Operands <- One
PROPERTIES BitsExact AnswersRight LegalStays
CHECK_DEADLOCK FALSE
