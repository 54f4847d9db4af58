SPECIFICATION Spec
CONSTANTS
  Main = Main
  Pooled = {p1}
  Workers = {w1, w2}
  Chains <- TwoStages
INVARIANTS
  ValueOnItsScheduler
  OutcomeIsTheChains
PROPERTY WaitEnds
\* A chain comes to its end.
CHECK_DEADLOCK FALSE
