CONSTANTS
  e1 = e1
  e2 = e2
  k1 = k1
  i1 = i1
  h1 = h1
  h2 = h2
  h3 = h3
  NoKey = NoKey
  Keys = {k1}
  Ids = {k1, i1}
  Experiments = {e1, e2}
  Handlers = {h1, h2}
  LostAcks = TRUE
SPECIFICATION MCSpec
INVARIANTS
  ReceiptsMatchLedger
  KeyRunsOnce
  AnswersHold
PROPERTIES
  EvidenceKept
  EveryRequestAnswered
CHECK_DEADLOCK FALSE
