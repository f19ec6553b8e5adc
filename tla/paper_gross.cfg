SPECIFICATION Spec
CONSTANTS
  NumSlots = 2
  Prices <- MCPrices
  Sizes = {0, 2}
  Leverage <- MCLeverage
  MarginNum = 1
  MarginDen = 5
  CostRates = {1}
  Modes = {"legacy_gross"}
  Feeds <- MCFeeds
  InitialCapital = 4
  NoPosition = NoPosition
  NoEquity = NoEquity
  NoClosing = NoClosing
  MaxTicks = 2
  MaxCrashes = 1
  MaxFaults = 1
INVARIANTS TypeOK LedgerLag MarginEnforced BooksBalance
PROPERTIES BookSpec BreachResolved
CHECK_DEADLOCK FALSE
