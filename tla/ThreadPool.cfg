SPECIFICATION Spec
CONSTANTS
  Tasks = {k1, k2}
  Users = {u1, u2}
  NoOne = NoOne
  MaxWorkers = 2
  MaxCalls = 2
  MaxHandles = 1
INVARIANTS
  PoisonExplained
PROPERTIES
  WorkersAreQueues
  TasksRun
  ThreadsEnd
  ShrunkIsJoined
\* Nobody need call the pool, and a join may wait for ever.
CHECK_DEADLOCK FALSE
