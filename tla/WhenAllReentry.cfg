SPECIFICATION Spec
CONSTANTS
  N = 2
  Lazy = {1}
  InCallback = {"done"}
  MayDie = FALSE
PROPERTY FailureEndsAll
CHECK_DEADLOCK FALSE
