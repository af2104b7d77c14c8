SPECIFICATION FairSpec
CONSTANTS
  c1 = c1
  c2 = c2
  w1 = w1
  w2 = w2
  x1 = x1
  g1 = g1
  None = None
  Coordinators = {c1, c2}
  Requests = {w1, w2, g1, x1}
  Additions <- MCAdditions
  By <- MCBy
  Op <- MCOp
  ConnectionLimit = 1
  QueueLimit = 1
  MaxRestarts = 1
INVARIANTS
  ServesMigrated
  FailureLeavesNothing
  DetailsComplete
PROPERTIES
  EveryRequestEnds
