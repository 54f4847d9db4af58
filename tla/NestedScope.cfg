SPECIFICATION Spec
CONSTANTS
  Threads = {Main, Pool}
  Main = Main
  Depth = 2
  MaxRefs = 2
  MaxClosures = 2
INVARIANTS
  NothingDangles
  PanicReported
  SignalPassedOn
PROPERTY ScopesEnd
\* The scope ends, and then nothing more happens.
CHECK_DEADLOCK FALSE
