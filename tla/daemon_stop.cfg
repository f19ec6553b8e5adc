SPECIFICATION Spec
CONSTANTS
  NumSlots = 2
  Identities <- MCIdentities
  RiskModes = {"off", "observe", "apply"}
  Requested = 2
  Verdicts <- MCVerdicts
  MaxInflight = 2
INVARIANT StopHolds
