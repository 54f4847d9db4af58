SPECIFICATION Spec
CONSTANTS
  Wraps = {w1, w2, w3}
  Keepers = {w3}
  Main = Main
  Pool = Pool
INVARIANTS
  TypeOK
  CountIsPointers
  ReceiversWithinScope
  NotifiedOnce
  PanicReported
PROPERTY ScopeReturns
\* The scope function returns, and then nothing more happens.
CHECK_DEADLOCK FALSE
