SPECIFICATION EitherSpec
CONSTANTS
  c1 = c1
  c2 = c2
  c3 = c3
  Threads = {t1, t2, t3}
  Clients = {c1, c2, c3}
  Reenter <- Reentry
  NoClient = NoClient
  Observed = c3
  Panicky = {c3}
  ChainMayDie = TRUE
  SendReenters = FALSE
  Free = Free
  Poisoned = Poisoned
  MayPanic = TRUE
  MayBeDropped = TRUE
INVARIANTS
  ChainStartedOnce
  SameSignalOnce
  NoLostCallback
  NoSelfDeadlock
  ExpectationsHold
PROPERTIES
  ClientMeetsSignal
  StopReachesChain
  MeetsSignal
\* When every client has been started and settled, nothing is left to do.
CHECK_DEADLOCK FALSE
