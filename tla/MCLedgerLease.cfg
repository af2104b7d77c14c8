SPECIFICATION LeaseFairSpec
CONSTANTS
  Starts = {s1, s2, s3}
  Pids = {1, 2, 3}
  ForeignPids = {1}
  FaultyStarts = {s3}
  DatabaseFaults = {s2, s3}
  None = None
  Empty = Empty
INVARIANTS
  OneOwner
  CleanExitLeavesNothing
PROPERTIES
  OrphanedGuardBlocks
  TakeoverSucceeds
CHECK_DEADLOCK FALSE
