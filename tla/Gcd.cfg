SPECIFICATION FairSpec
CONSTANTS
  Numbers <- MCNumbers
  CharBits = 2
  MaxChars = 4
  Power <- MCPower
INVARIANTS
  LoopInvariant
  PointersRestored
  GcdExact
PROPERTY CallsReturn
CHECK_DEADLOCK FALSE
