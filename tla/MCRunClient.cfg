SPECIFICATION FairSpec
CONSTANTS
  f1 = f1
  f2 = f2
  None = None
  Unparsable = Unparsable
  Forms = {f1, f2}
  MaxExperiments = 2
  MaxRuns = 3
INVARIANTS
  PanelAgrees
PROPERTIES
  RemovedStaysGone
  BusyEnds
