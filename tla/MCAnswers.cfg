\* Two processes, one pool worker each: the pool is the subject of
\* MCIngestion, the locks that of MCRateStore.
CONSTANTS
  Call = {c1, c2}
  Commands = {c1}
  Currency <- Both
  Lists <- TwoLists
  Version <- OneEdition
  Concurrency = 1
  Date <- OneDate
  DateOf <- SameDate
  MaxConns = 2
  DefaultLimit = 1
  MaxLimit = 2
  NoDate = NoDate
  NoRow = NoRow

SPECIFICATION ServiceSpec

INVARIANTS
  ServiceTypeOK
  OkMeansStored
  ServerErrorWroteNothing

PROPERTY StoreIsUsedAsAssumed
