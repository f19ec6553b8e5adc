SPECIFICATION Spec
CONSTANTS
  Pairs <- MCPairs
  Lookbacks = {4}
  Percentiles = {80}
  Horizons = {4, 20}
  Month = 32
  IsMonths = 2
  FullMonths = 3
  SparseFloor = 4
  SparsePerMinute = 1
  Ticks <- MCTicks
  Order <- MCOrder
  PairLists <- MCPairLists
  Requirements <- MCRequirements
  Plannings <- MCPlannings
  MaxRuns = 2
INVARIANTS CellsPriced SealedUnread PaddingSuffices ClosureHonest
CHECK_DEADLOCK FALSE
