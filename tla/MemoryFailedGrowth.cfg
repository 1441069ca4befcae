SPECIFICATION Spec
CONSTANTS
  User = {a}
  Temp = {t}
  Local = {l1}
  Block = {b1, b2}
  Value = {x}
  MaxClass = 1
  PoolInit = 2
  StackInit = 1
  MallocMayFail = TRUE
  SetupRetried = FALSE
  NULL = NULL
  Junk = Junk
SYMMETRY Symmetry
INVARIANT PromisedMemoryExists
