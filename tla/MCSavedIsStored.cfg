\* One request of up to two currencies.  What its answer lists as saved is
\* expected in the table; the run shows an answer for which it is not.
CONSTANTS
  Call = {c2}
  Commands = {}
  Currency <- Both
  Lists <- TwoLists
  Version <- OneEdition
  Concurrency = 2
  Date <- OneDate
  DateOf <- SameDate
  MaxConns = 1
  DefaultLimit = 1
  MaxLimit = 2
  NoDate = NoDate
  NoRow = NoRow

SPECIFICATION ServiceSpec

INVARIANT SavedIsStored
