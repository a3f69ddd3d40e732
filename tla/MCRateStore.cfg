\* Three calls on two keys and two connections: two calls can deadlock over
\* the rows, the third waits for a connection.
CONSTANTS
  k1 = k1
  k2 = k2
  Tx = {t1, t2, t3}
  Key <- MCKey
  Batches <- MCBatches
  MaxConns = 2
  NoRow = NoRow

SPECIFICATION StoreSpec

INVARIANTS
  StoreTypeOK
  WorkIsCurrent
  ConnectionsComeBack

PROPERTIES
  ImplementsAtomicUpsert
  NeverOverwritesUnseen
  RowsKeepIdentity
  EveryUpsertEnds
