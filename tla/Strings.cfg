SPECIFICATION Spec
CONSTANTS
  Printed <- MCPrinted
  Measured <- MCMeasured
  Parsed <- MCParsed
  Radices = {0, 1, 2, 3, 10, 127}
  Radix = 10
  Digits = 2
  RadixPower <- MCRadixPower
  CharBase = 128
  Spare = 5
  Room = 18
  ZMul <- MCZMul
  ZSqr <- MCZSqr
INVARIANTS
  BuffersSuffice
  StringsExact
  ErrorsDescribed
CHECK_DEADLOCK FALSE
