SPECIFICATION PageFairSpec
CONSTANTS
  w1 = w1
  w2 = w2
  w3 = w3
  Writes = {w1, w2}
  MaxOps = 3
  MaxDrops = 1
INVARIANTS
  PageTypeOK
  ListIsOwn
  NoLostSignal
PROPERTIES
  NeverBack
  ListsConverge
CHECK_DEADLOCK FALSE
