SPECIFICATION Spec
CONSTANTS
  Tasks = {k1}
  Users = {u1}
  NoOne = NoOne
  MaxWorkers = 1
  MaxCalls = 1
  MaxHandles = 1
PROPERTY JoinReturns
CHECK_DEADLOCK FALSE
