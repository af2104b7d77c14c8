CONSTANTS
  e1 = e1
  e2 = e2
  k1 = k1
  i1 = i1
  h1 = h1
  h2 = h2
  h3 = h3
  NoKey = NoKey
  Keys = {k1}
  Ids = {i1}
  Experiments = {e1}
  Handlers = {h1, h2, h3}
  LostAcks = FALSE
SPECIFICATION Spec
PROPERTIES
  SettledReceiptReplayed
SYMMETRY MCSymmetry
CHECK_DEADLOCK FALSE
