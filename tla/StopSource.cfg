SPECIFICATION Spec
CONSTANTS
  Threads = {t1, t2, t3}
  Sources <- MCSources
  Callbacks <- MCCallbacks
  Home <- MCHome
  Forward <- MCForward
  Leaf = "leaf"
  NoOwner = NoOwner
  MaxRequests = 2
INVARIANTS
  CalledOnce
  NotAfterDrop
  StopReachesAll
  SlotsStayPut
PROPERTY StopReturns
\* When every callback and every request has been used up, nothing is left to do.
CHECK_DEADLOCK FALSE
