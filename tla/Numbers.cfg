SPECIFICATION Spec
CONSTANTS
  Maxima <- MCMaxima
  Questioned <- MCQuestioned
  Tries = {0, 1, 2}
  CharBits = 3
  MaxChars = 4
  Two <- MCTwo
  ZMul <- MCZMul
  ZSqr <- MCZSqr
INVARIANTS
  RandomInRange
  DeviceClosed
  VerdictIsCertain
PROPERTY
  EndsOrWaits
CHECK_DEADLOCK FALSE
