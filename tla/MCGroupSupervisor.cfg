SPECIFICATION FairSpec
CONSTANTS
  runner = runner
  coordinator = coordinator
  Channel = {runner}
INVARIANTS
  CleanMeansComplete
  CoordinatorOutlivesRunner
PROPERTIES
  StopEnds
