SPECIFICATION Spec
CONSTANTS
  NumSlots = 2
  Prices <- MCPrices
  Sizes = {2}
  Leverage <- MCLeverageLast
  MarginNum = 1
  MarginDen = 5
  CostRates = {0, 1}
  Modes = {"legacy_gross", "estimated_net"}
  Feeds <- MCReadyFeeds
  InitialCapital = 4
  NoPosition = NoPosition
  NoEquity = NoEquity
  NoClosing = NoClosing
  MaxTicks = 2
  MaxCrashes = 2
  MaxFaults = 1
INVARIANTS SourcesInOrder BooksBalance PositionsMatchTrades AccountingChain
PROPERTIES FailClosed
CHECK_DEADLOCK FALSE
