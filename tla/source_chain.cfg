SPECIFICATION Spec
CONSTANTS
  RequestLists <- MCRequestLists
  Payloads <- MCPayloads
  Reasons = {"http_400", "os_error"}
  DiskError = "os_error"
  MaxRows = 2
  Fixtures <- MCFixtures
  ClosureInputs <- MCClosureInputs
  MaxRuns = 5
  MaxKills = 1
INVARIANT EvidenceHolds
CHECK_DEADLOCK FALSE
