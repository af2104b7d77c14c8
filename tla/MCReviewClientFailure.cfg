CONSTANTS
  w1 = w1
  w2 = w2
  w3 = w3
  Writes = {w1}
  MaxOps = 2
  MaxDrops = 0
SPECIFICATION PageSpec
INVARIANTS
  FailureDisablesDecisions
CHECK_DEADLOCK FALSE
