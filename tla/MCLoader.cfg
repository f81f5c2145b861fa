SPECIFICATION Spec
CONSTANTS
  l1 = l1
  l2 = l2
  l3 = l3
  Loads <- ThreeLoads
  MaxAborts = 2
INVARIANTS
  Outcomes
PROPERTIES
  EveryLoadAnswers
CHECK_DEADLOCK FALSE
