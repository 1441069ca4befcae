SPECIFICATION Spec
CONSTANTS
  Bits = 2
  Group = 2
  SmallCases = 0
  Room = 10
  MaxUsed = 3
  Magnitudes <- AllMagnitudes
  Slack = TRUE
  MaxBits = 1
  Stale = Stale
  Foreign = Foreign
  Spoilt = Spoilt
  Routines <- Additive
  Operands <- Both
PROPERTIES SumsExact LegalStays
CHECK_DEADLOCK FALSE
