SPECIFICATION FairSpec
CONSTANTS
  User = {a}
  Temp = {t}
  Local = {l1, l2}
  Block = {b1, b2, b3}
  Value = {x}
  MaxClass = 1
  PoolInit = 2
  StackInit = 1
  MallocMayFail = FALSE
  SetupRetried = TRUE
  NULL = NULL
  Junk = Junk

INVARIANTS
  NoLeak
PROPERTY UnwindTerminates
