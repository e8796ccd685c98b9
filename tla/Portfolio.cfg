\* Two requests about holdings, their reports, quotes and the calendar.
CONSTANTS
  r1 = r1
  r2 = r2
  u1 = u1
  u2 = u2
  rate = rate
  back = back
  None = None
  Requests <- MCRequests
  Workloads <- MCWorkloads
  Dates <- MCDates
  Ticker <- MCTicker
  Types <- MCTypes
  Entries <- MCEntries
  Changes <- MCChanges
  MaxHoldings <- MCMaxHoldings
  Asked <- MCAsked
  minHoldingYear = 2023
  maxMonthlyRangeMonths = 14
  Tickers <- MCTickers
  Listed <- MCListed
  Prices = {0, 3}
  Pairs <- MCPairs
  PairTicker <- MCPairTicker
  RateScale = 4
  Announcements <- MCAnnouncements
SPECIFICATION Spec
INVARIANTS
  ReportsAddUp
PROPERTIES
  WritesWhole
