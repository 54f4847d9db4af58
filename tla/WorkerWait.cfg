SPECIFICATION Spec
CONSTANTS
  Tasks = {k1, k2}
  Users = {u1}
  Starter = u1
  MayPanic = FALSE
PROPERTY WaitEnds
CHECK_DEADLOCK FALSE
