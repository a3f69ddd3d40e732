\* Two processes that write one currency each while the bank publishes.
CONSTANTS
  Call = {c1, c2}
  Commands = {c1}
  Currency <- Both
  Lists <- OneEach
  Version <- SomeEditions
  Concurrency = 1
  Date <- SomeDates
  DateOf <- TwoDates
  MaxConns = 2
  DefaultLimit = 1
  MaxLimit = 2
  NoDate = NoDate
  NoRow = NoRow

SPECIFICATION ServiceSpec

INVARIANT ReadYourFetch

PROPERTIES
  RegressionNeedsOverlap
  LatestIsNewest
  HistoryIsComplete
