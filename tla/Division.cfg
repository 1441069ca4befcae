SPECIFICATION FairSpec
CONSTANTS
  Client = {x, y}
  TmpDiv = tmpDiv
  TmpMod = tmpMod
  Numbers <- MCNumbers
  CharBits = 2
  MaxBits = 5
  Power <- MCPower
  MaxCalls = 2
INVARIANTS
  LoopInvariant
  ShiftedToTheBit
  BitsAreNew
  BorrowStaysAtTop
PROPERTIES
  ImplementsQuotients
  CallsReturn
CHECK_DEADLOCK FALSE
