SPECIFICATION Spec
CONSTANTS
  Processes = {p1, p2}
  Batches <- MCBatches
  Protected <- MCProtected
  Verdicts <- MCVerdicts
  Requested = 2
  TopN = 1
  MaxRuns = 3
  MaxKills = 1
  None = None
  Torn = Torn
SYMMETRY Symmetry
INVARIANTS TypeOK RowsWarranted DecidedAsRun ReportHonest
PROPERTIES WriteOnce
CHECK_DEADLOCK FALSE
