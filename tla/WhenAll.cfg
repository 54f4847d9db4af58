SPECIFICATION Spec
CONSTANTS
  N = 4
  Lazy = {2, 4}
  InCallback = {"value"}
  MayDie = TRUE
INVARIANTS
  AssertsHold
  LateErrorLoses
PROPERTIES
  JoinsAll
  FailureEndsAll
\* When the receiver has its signal, or a part has died, nothing is left to do.
CHECK_DEADLOCK FALSE
