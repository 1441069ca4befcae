SPECIFICATION Spec
CONSTANTS
  Numbers <- MCNumbers
  Unsigned = {0, 1, 2, 3, 5, 6}
  CharBits = 2
  MaxChars = 2
  Two <- MCTwo
  Powered <- MCPowered
  ZMul <- MCZMul
  ZSqr <- MCZSqr
INVARIANT ErrorsLeaveOperands
PROPERTY PowersExact
CHECK_DEADLOCK FALSE
