SPECIFICATION ProductSpec
CONSTANTS
  Bits = 2
  Group = 2
  SmallCases = 2
  Room = 18
  MaxUsed = 4
  Magnitudes <- Factors
  Slack = FALSE
  MaxBits = 1
  Stale = Stale
  Foreign = Foreign
  Spoilt = Spoilt
  Routines <- Multiplying
  Operands <- Both
INVARIANTS ProductsExact FactorsStay RecursionHalves
CHECK_DEADLOCK FALSE
