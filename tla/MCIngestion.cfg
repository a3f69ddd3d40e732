\* One call, three currencies, two workers: more currencies than workers, so
\* that group.Go blocks, and more outcomes than workers, so that a channel
\* of the size of the pool would fill up.
CONSTANTS
  gbp = gbp
  pln = pln
  usd = usd
  Call = {c1}
  Currency <- MCCurrency
  Lists <- MCLists
  Version <- MCVersion
  Concurrency = 2

SPECIFICATION IngestSpec

INVARIANTS
  IngestTypeOK
  PoolInvariant
  SendNeverBlocks
  OneOutcomePerCurrency
  ErrorIsTruthful

PROPERTY CancelledCallReturns
