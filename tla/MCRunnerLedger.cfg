SPECIFICATION FairSpec
CONSTANTS
  Operations = {o1, o2}
  FaultyOperations = {o2}
  Payloads = {"p", "q"}
  Spellings = {"a", "b"}
  Requests <- MCRequests
  Calls = {c1, c2}
  MaxStarts = 3
INVARIANTS
  AtMostOneExecution
  RunningMeansWorking
  RepliesAgree
PROPERTIES
  GracefulStopStrandsNothing
  KeepsPromise
  EveryCallAnswered
CHECK_DEADLOCK FALSE
