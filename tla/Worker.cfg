SPECIFICATION Spec
CONSTANTS
  Tasks = {k1, k2, k3}
  Users = {u1, u2}
  Starter = u1
  MayPanic = TRUE
INVARIANTS
  SendersCounted
  ReturnsDrained
  SentOrderKept
  AssertHolds
PROPERTIES
  ServesQueue
\* A worker nobody posts to, or calls, has nothing to do.
CHECK_DEADLOCK FALSE
