CONSTANTS
  ann = ann
  bob = bob
  eve = eve
  Researchers = {ann}
  Reviewers = {}
  Others = {}
  MaxWrites = 2
  MaxConns = 2
  Limit = 1
  WireSize = 1
  MaxRestarts = 1
SPECIFICATION FairSpec
INVARIANTS
  TypeOK
  NoLostInvalidation
  SignedOutRightly
PROPERTIES
  EndedSessionsClose
  ListsConverge
CHECK_DEADLOCK FALSE
