SPECIFICATION Spec
CONSTANTS
  Contents <- MCContents
  Broken <- MCBroken
  Checkouts <- MCCheckouts
  CutAt <- MCCutAt
  MaxEdits = 1
  MaxRuns = 3
INVARIANTS ExitTellsReports ArtifactsOfItsRun
PROPERTIES GuardSeesAll ReadyMeansConforming
CHECK_DEADLOCK FALSE
