SPECIFICATION Spec
CONSTANTS
  User = {a, b}
  Temp = {t}
  Local = {l1, l2}
  Block = {b1, b2, b3}
  Value = {x, y}
  MaxClass = 1
  PoolInit = 2
  StackInit = 1
  MallocMayFail = TRUE
  SetupRetried = TRUE
  NULL = NULL
  Junk = Junk
SYMMETRY Symmetry
INVARIANTS
  TypeOK
  ExclusiveOwnership
  SizesAgree
  TempsTracked
  ArraysHoldTheirEntries
PROPERTIES
  UnwindSparesClient
  ErrorsLeaveNothingBehind
  ImplementsRegisters
