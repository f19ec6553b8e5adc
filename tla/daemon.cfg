SPECIFICATION Spec
CONSTANTS
  NumSlots = 2
  Identities <- MCIdentities
  RiskModes = {"off", "observe", "apply"}
  Requested = 2
  Verdicts <- MCVerdicts
  MaxInflight = 2
INVARIANTS TypeOK EvidenceOfSizes EvidenceChain StopHoldsOnce
PROPERTIES WriteOnce
