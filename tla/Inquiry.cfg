SPECIFICATION FairSpec
CONSTANTS
  MaxIterations = 3
  MaxRuns = 2
INVARIANTS
  ConfirmedMeansPaused
  PartialWorkKept
  CompletedIsWhole
PROPERTY
  ResumedRunEnds
