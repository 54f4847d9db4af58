SPECIFICATION Spec
CONSTANTS
  c1 = c1
  c2 = c2
  c3 = c3
  Threads = {t1, t2}
  Clients = {c1, c2, c3}
  Reenter <- Reentry
  NoClient = NoClient
  Observed = c3
  Panicky = {}
  ChainMayDie = FALSE
  SendReenters = TRUE
  Free = Free
  Poisoned = Poisoned
INVARIANT NoSelfDeadlock
CHECK_DEADLOCK FALSE
