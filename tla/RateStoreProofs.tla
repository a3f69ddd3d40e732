--------------------------- MODULE RateStoreProofs ---------------------------
(* Theorems about RateStore, for any number of calls, any keys and batches *)
(* and any size of the pool.                                               *)
EXTENDS RateStore, TLAPS, FiniteSetTheorems

(* Locks are exclusive, and what is written under them current and seen.   *)
LockInv  == WorkIsCurrent /\ ReplacesWhatItSees
StoreInv == StoreTypeOK /\ (\A t \in Tx : ControlOK(t)) /\ LockInv

(* The invariant holds before the first call.                              *)
LEMMA StoreInitInv == StoreInit => StoreInv
<1> SUFFICES ASSUME StoreInit PROVE StoreInv
  OBVIOUS
<1>1. StoreTypeOK
  BY DEF StoreInit, StoreTypeOK, Step, Fate
<1>2. \A t \in Tx : ControlOK(t)
  BY DEF StoreInit, ControlOK
<1>3. \A t \in Tx : Locks(t) = {}
  BY DEF StoreInit, Locks
<1> QED
  BY <1>1, <1>2, <1>3 DEF StoreInv, LockInv, WorkIsCurrent, ReplacesWhatItSees

(* The rows a transaction writes are rows.                                 *)
LEMMA UpsertedIsRow ==
  ASSUME NEW t \in Tx, NEW row \in Row \cup {NoRow}
  PROVE  Upserted(t, row) \in Row
  BY DEF Upserted, Row

(* Every step keeps the types.                                             *)
LEMMA StoreTypeStep == ASSUME StoreInv, [StoreNext]_storeVars PROVE StoreTypeOK'
<1>0. StoreTypeOK
  BY DEF StoreInv
<1> USE DEF StoreTypeOK
<1>1. ASSUME NEW t \in Tx, NEW b \in Batches, UpsertRates(t, b) PROVE StoreTypeOK'
  BY <1>0, <1>1 DEF UpsertRates, Step, Fate
<1>2. ASSUME NEW t \in Tx, BeginTx(t) \/ BeginFails(t) \/ TakeSnapshot(t)
      PROVE  StoreTypeOK'
  <2>1. CASE BeginTx(t)
    BY <1>0, <2>1 DEF BeginTx, Step
  <2>2. CASE BeginFails(t)
    BY <1>0, <2>2 DEF BeginFails, Step, Fate
  <2>3. CASE TakeSnapshot(t)
    BY <1>0, <2>3 DEF TakeSnapshot, Step
  <2> QED
    BY <1>2, <2>1, <2>2, <2>3
<1>3. ASSUME NEW t \in Tx, UpsertRow(t) PROVE StoreTypeOK'
  <2>1. Wanted(t) \in Key
    BY <1>0, <1>3, BatchesAssumption DEF StoreInv, UpsertRow, Inserting, Wanted, ControlOK
  <2>2. Upserted(t, table[Wanted(t)]) \in Row
    BY <1>0, <2>1, UpsertedIsRow
  <2> QED
    BY <1>0, <1>3, <2>1, <2>2 DEF UpsertRow, Step
<1>4. ASSUME NEW t \in Tx,
             \/ SerializationFailure(t) \/ DeadlockVictim(t) \/ RowRefused(t)
             \/ RowGivesUp(t) \/ Rollback(t) \/ RollbackUnsent(t)
      PROVE  StoreTypeOK'
  <2>1. CASE StatementFails(t)
    BY <1>0, <2>1 DEF StatementFails, Step, Fate
  <2>2. CASE RowGivesUp(t)
    BY <1>0, <2>2 DEF RowGivesUp, Step
  <2>3. CASE Rollback(t) \/ RollbackUnsent(t)
    BY <1>0, <2>3 DEF Rollback, RollbackUnsent, Return, Step, Fate
  <2> QED
    BY <1>4, <2>1, <2>2, <2>3 DEF SerializationFailure, DeadlockVictim, RowRefused
<1>5. ASSUME NEW t \in Tx, ServerCommits(t) PROVE StoreTypeOK'
  BY <1>0, <1>5 DEF ServerCommits, Fate
<1>6. ASSUME NEW t \in Tx,
             ServerRefusesCommit(t) \/ CommitReturns(t) \/ CommitGivesUp(t) \/ SessionEnds(t)
      PROVE  StoreTypeOK'
  BY <1>0, <1>6
     DEF ServerRefusesCommit, CommitReturns, CommitGivesUp, SessionEnds, Return, Step, Fate
<1>7. ASSUME NEW T, ClientsDie(T) PROVE StoreTypeOK'
  BY <1>0, <1>7 DEF ClientsDie, Step
<1>8. ASSUME DatabaseRestarts PROVE StoreTypeOK'
  BY <1>0, <1>8 DEF DatabaseRestarts, Fate
<1>9. ASSUME UNCHANGED storeVars PROVE StoreTypeOK'
  BY <1>0, <1>9 DEF storeVars
<1> QED
  BY <1>1, <1>2, <1>3, <1>4, <1>5, <1>6, <1>7, <1>8, <1>9 DEF StoreNext, StoreStep, StoreEnded

(* Every step keeps what step and fate say of each other.                  *)
LEMMA ControlStep ==
  ASSUME StoreInv, [StoreNext]_storeVars, NEW d \in Tx PROVE ControlOK(d)'
<1> USE DEF StoreInv, StoreTypeOK
<1>0. ControlOK(d) /\ step[d] \in Step /\ fate[d] \in Fate
  OBVIOUS
<1>1. ASSUME NEW t \in Tx, NEW b \in Batches, UpsertRates(t, b) PROVE ControlOK(d)'
  <2>1. b \in Seq(Key)
    BY BatchesAssumption
  <2> QED
    BY <1>0, <1>1, <2>1, BatchesAssumption DEF UpsertRates, ControlOK
<1>2. ASSUME NEW t \in Tx, BeginTx(t) PROVE ControlOK(d)'
  BY <1>0, <1>2 DEF BeginTx, ControlOK
<1>3. ASSUME NEW t \in Tx, BeginFails(t) PROVE ControlOK(d)'
  BY <1>0, <1>3 DEF BeginFails, ControlOK
<1>4. ASSUME NEW t \in Tx, TakeSnapshot(t) PROVE ControlOK(d)'
  <2>1. batch[d] # <<>> => Len(batch[d]) \in Nat \ {0}
    BY BatchesAssumption
  <2>2. step[t] = "begun"
    BY <1>4 DEF TakeSnapshot
  <2> QED
    BY <1>0, <1>4, <2>1, <2>2 DEF TakeSnapshot, ControlOK
<1>5. ASSUME NEW t \in Tx, UpsertRow(t) PROVE ControlOK(d)'
  <2>1. Len(batch[d]) \in Nat
    BY BatchesAssumption
  <2> QED
    BY <1>0, <1>5, <2>1 DEF UpsertRow, Inserting, ControlOK
<1>6. ASSUME NEW t \in Tx, SerializationFailure(t) \/ DeadlockVictim(t) \/ RowRefused(t)
      PROVE  ControlOK(d)'
  <2>1. step[t] \in {"begun", "insert"}
    BY <1>6 DEF SerializationFailure, DeadlockVictim, RowRefused, Deadlocked, Blocks, Inserting
  <2>2. StatementFails(t)
    BY <1>6 DEF SerializationFailure, DeadlockVictim, RowRefused
  <2> QED
    BY <1>0, <2>1, <2>2 DEF StatementFails, ControlOK
<1>7. ASSUME NEW t \in Tx, RowGivesUp(t) PROVE ControlOK(d)'
  BY <1>0, <1>7 DEF RowGivesUp, ControlOK
<1>8. ASSUME NEW t \in Tx, Rollback(t) \/ RollbackUnsent(t) PROVE ControlOK(d)'
  BY <1>0, <1>8 DEF Rollback, RollbackUnsent, Return, ControlOK
<1>9. ASSUME NEW t \in Tx, ServerCommits(t) PROVE ControlOK(d)'
  BY <1>0, <1>9 DEF ServerCommits, ControlOK
<1>10. ASSUME NEW t \in Tx, ServerRefusesCommit(t) \/ SessionEnds(t) PROVE ControlOK(d)'
  BY <1>0, <1>10 DEF ServerRefusesCommit, SessionEnds, ControlOK
<1>11. ASSUME NEW t \in Tx, CommitReturns(t) \/ CommitGivesUp(t) PROVE ControlOK(d)'
  BY <1>0, <1>11 DEF CommitReturns, CommitGivesUp, Return, ControlOK
<1>12. ASSUME NEW T, ClientsDie(T) PROVE ControlOK(d)'
  BY <1>0, <1>12 DEF ClientsDie, ControlOK
<1>13. ASSUME DatabaseRestarts PROVE ControlOK(d)'
  BY <1>0, <1>13 DEF DatabaseRestarts, ControlOK
<1>14. ASSUME UNCHANGED storeVars PROVE ControlOK(d)'
  BY <1>0, <1>14 DEF storeVars, ControlOK
<1> QED
  BY <1>1, <1>2, <1>3, <1>4, <1>5, <1>6, <1>7, <1>8, <1>9, <1>10, <1>11, <1>12, <1>13, <1>14
     DEF StoreNext, StoreStep, StoreEnded


(* A step that writes, commits and begins nothing keeps the locks.         *)
LEMMA LockFrame ==
  ASSUME LockInv, UNCHANGED <<batch, pos, snapshot, work, table>>,
         \A t \in Tx : fate'[t] = fate[t] \/ fate'[t] # "open"
  PROVE  LockInv'
<1>1. \A t \in Tx : Locks(t)' \subseteq Locks(t)
  BY DEF Locks, Written
<1>2. WorkIsCurrent'
  BY <1>1 DEF LockInv, WorkIsCurrent, Upserted
<1>3. ReplacesWhatItSees'
  BY <1>1 DEF LockInv, ReplacesWhatItSees
<1> QED
  BY <1>2, <1>3 DEF LockInv

(* Every step keeps the locks exclusive and the written rows current.      *)
LEMMA LockStep == ASSUME StoreInv, [StoreNext]_storeVars PROVE LockInv'
<1>0. StoreTypeOK /\ LockInv /\ (\A t \in Tx : ControlOK(t))
  BY DEF StoreInv
<1>1. ASSUME NEW t \in Tx, NEW b \in Batches, UpsertRates(t, b) PROVE LockInv'
  <2>1. pos[t] = 1
    BY <1>0, <1>1 DEF UpsertRates, ControlOK
  <2>2. \A u \in Tx : Locks(u)' = Locks(u)
    <3> SUFFICES ASSUME NEW u \in Tx PROVE Locks(u)' = Locks(u)
      OBVIOUS
    <3>1. CASE u = t
      BY <1>0, <1>1, <2>1, <3>1 DEF UpsertRates, StoreTypeOK, Locks, Written
    <3>2. CASE u # t
      BY <1>0, <1>1, <3>2 DEF UpsertRates, StoreTypeOK, Locks, Written
    <3> QED
      BY <3>1, <3>2
  <2>3. UNCHANGED <<snapshot, work, table>>
    BY <1>1 DEF UpsertRates
  <2> QED
    BY <1>0, <2>2, <2>3 DEF LockInv, WorkIsCurrent, ReplacesWhatItSees, Upserted
<1>2. ASSUME NEW t \in Tx, TakeSnapshot(t) PROVE LockInv'
  <2>1. Locks(t) = {} /\ pos[t] = 1
    BY <1>0, <1>2 DEF TakeSnapshot, ControlOK, Locks, Written
  <2>2. \A u \in Tx : Locks(u)' = Locks(u)
    BY <1>2 DEF TakeSnapshot, Locks, Written
  <2>3. UNCHANGED <<work, table>> /\ \A u \in Tx : u # t => snapshot'[u] = snapshot[u]
    BY <1>0, <1>2 DEF TakeSnapshot, StoreTypeOK
  <2> QED
    BY <1>0, <2>1, <2>2, <2>3 DEF LockInv, WorkIsCurrent, ReplacesWhatItSees, Upserted
<1>3. ASSUME NEW t \in Tx, UpsertRow(t) PROVE LockInv'
  <2> DEFINE k == Wanted(t)
  <2>1. /\ fate[t] = "open" /\ pos[t] \in Nat \ {0} /\ k \in Key
        /\ fate' = fate /\ batch' = batch /\ table' = table /\ snapshot' = snapshot
        /\ pos' = [pos EXCEPT ![t] = @ + 1]
        /\ work' = [work EXCEPT ![t][k] = Upserted(t, table[k])]
    BY <1>0, <1>3, BatchesAssumption
       DEF UpsertRow, Inserting, Wanted, StoreTypeOK, ControlOK
  <2>2. Locks(t)' = Locks(t) \cup {k}
    <3>1. 1..(pos'[t] - 1) = 1..(pos[t] - 1) \cup {pos[t]}
      BY <1>0, <2>1 DEF StoreTypeOK
    <3> QED
      BY <2>1, <3>1 DEF Locks, Written, Wanted
  <2>3. \A u \in Tx : u # t => Locks(u)' = Locks(u) /\ k \notin Locks(u)
    <3>1. \A u \in Tx : u # t => Locks(u)' = Locks(u)
      BY <1>0, <2>1 DEF Locks, Written, StoreTypeOK
    <3>2. \A u \in Tx : u # t => k \notin Locks(u)
      BY <1>3 DEF UpsertRow, Blocked, Blocks
    <3> QED
      BY <3>1, <3>2
  <2>4. /\ work'[t][k] = Upserted(t, table[k])
        /\ \A l \in Key : l # k => work'[t][l] = work[t][l]
        /\ \A u \in Tx : u # t => work'[u] = work[u]
    BY <1>0, <2>1 DEF StoreTypeOK
  <2>5. \A u \in Tx : Locks(u) \subseteq Key
    BY <1>0, BatchesAssumption DEF Locks, Written, StoreTypeOK, ControlOK
  <2>6. WorkIsCurrent'
    <3> SUFFICES ASSUME NEW u \in Tx, NEW l \in Locks(u)'
                 PROVE  /\ work'[u][l] = Upserted(u, table[l])
                        /\ \A w \in Tx \ {u} : l \notin Locks(w)'
      BY <2>1 DEF WorkIsCurrent, Upserted
    <3>1. CASE u = t
      BY <1>0, <2>2, <2>3, <2>4, <2>5, <3>1 DEF LockInv, WorkIsCurrent
    <3>2. CASE u # t
      BY <1>0, <2>2, <2>3, <2>4, <2>5, <3>2 DEF LockInv, WorkIsCurrent
    <3> QED
      BY <3>1, <3>2
  <2>7. ReplacesWhatItSees'
    <3>1. table[k] # NoRow => table[k].rate \in snapshot[t]
      BY <1>3 DEF UpsertRow, Stale
    <3> QED
      BY <1>0, <2>1, <2>2, <2>3, <3>1 DEF LockInv, ReplacesWhatItSees
  <2> QED
    BY <2>6, <2>7 DEF LockInv
<1>4. ASSUME NEW t \in Tx, ServerCommits(t) PROVE LockInv'
  <2>1. /\ Locks(t)' = {} /\ Locks(t) = Written(t)
        /\ \A u \in Tx : u # t => Locks(u)' = Locks(u)
    BY <1>0, <1>4 DEF ServerCommits, StoreTypeOK, Locks, Written
  <2>2. UNCHANGED <<work, snapshot>>
        /\ table' = [k \in Key |-> IF k \in Written(t) THEN work[t][k] ELSE table[k]]
    BY <1>4 DEF ServerCommits
  <2>3. \A u \in Tx : Locks(u) \subseteq Key
    BY <1>0, BatchesAssumption DEF Locks, Written, StoreTypeOK, ControlOK
  <2>4. \A u \in Tx : \A k \in Locks(u) : u # t => table'[k] = table[k]
    BY <1>0, <2>1, <2>2, <2>3 DEF LockInv, WorkIsCurrent
  <2>5. WorkIsCurrent'
    <3> SUFFICES ASSUME NEW u \in Tx, NEW l \in Locks(u)'
                 PROVE  /\ work'[u][l] = Upserted(u, table'[l])
                        /\ \A w \in Tx \ {u} : l \notin Locks(w)'
      BY DEF WorkIsCurrent, Upserted
    <3>1. u # t /\ l \in Locks(u)
      BY <2>1
    <3>2. table'[l] = table[l] /\ work'[u][l] = work[u][l]
      BY <2>2, <2>4, <3>1
    <3>3. /\ work[u][l] = Upserted(u, table[l])
          /\ \A w \in Tx \ {u} : l \notin Locks(w)
      BY <1>0, <3>1 DEF LockInv, WorkIsCurrent
    <3>4. \A w \in Tx \ {u} : l \notin Locks(w)'
      BY <2>1, <3>3
    <3> QED
      BY <3>2, <3>3, <3>4
  <2>6. ReplacesWhatItSees'
    BY <1>0, <2>1, <2>2, <2>4 DEF LockInv, ReplacesWhatItSees
  <2> QED
    BY <2>5, <2>6 DEF LockInv
<1>5. ASSUME NEW t \in Tx,
             \/ BeginTx(t) \/ BeginFails(t) \/ RowGivesUp(t) \/ StatementFails(t)
             \/ Rollback(t) \/ RollbackUnsent(t)
             \/ ServerRefusesCommit(t) \/ CommitReturns(t) \/ CommitGivesUp(t) \/ SessionEnds(t)
      PROVE  LockInv'
  BY <1>0, <1>5, LockFrame
     DEF BeginTx, BeginFails, RowGivesUp, StatementFails, Rollback, RollbackUnsent, Return,
         ServerRefusesCommit, CommitReturns, CommitGivesUp, SessionEnds, StoreTypeOK
<1>6. ASSUME NEW T, ClientsDie(T) PROVE LockInv'
  BY <1>0, <1>6, LockFrame DEF ClientsDie
<1>7. ASSUME DatabaseRestarts PROVE LockInv'
  BY <1>0, <1>7, LockFrame DEF DatabaseRestarts
<1>8. ASSUME UNCHANGED storeVars PROVE LockInv'
  BY <1>0, <1>8, LockFrame DEF storeVars
<1> QED
  BY <1>1, <1>2, <1>3, <1>4, <1>5, <1>6, <1>7, <1>8
     DEF StoreNext, StoreStep, StoreEnded, SerializationFailure, DeadlockVictim, RowRefused


(* The inductive invariant.                                                *)
THEOREM StoreInvariant == StoreSpec => []StoreInv
<1>1. StoreInv /\ [StoreNext]_storeVars => StoreInv'
  BY StoreTypeStep, ControlStep, LockStep DEF StoreInv
<1> QED
  BY StoreInitInv, <1>1, PTL DEF StoreSpec

(* Types, for every value of the constants.                                *)
THEOREM StoreTypeCorrect == StoreSpec => []StoreTypeOK
<1>1. StoreInv => StoreTypeOK
  BY DEF StoreInv
<1> QED
  BY StoreInvariant, <1>1, PTL

(* A row is locked by one transaction at most, and what was written under  *)
(* the lock is what a commit now would have to write.                      *)
THEOREM WorkStaysCurrent == StoreSpec => []WorkIsCurrent
<1>1. StoreInv => WorkIsCurrent
  BY DEF StoreInv, LockInv
<1> QED
  BY StoreInvariant, <1>1, PTL

(* The table changes only by a commit.                                     *)
LEMMA TableChanges ==
  ASSUME StoreNext \/ UNCHANGED storeVars, table' # table
  PROVE  \E t \in Tx : ServerCommits(t)
  BY DEF StoreNext, StoreStep, StoreEnded, UpsertRates, BeginTx, BeginFails, TakeSnapshot,
         UpsertRow, SerializationFailure, DeadlockVictim, RowRefused, StatementFails,
         RowGivesUp, Rollback, RollbackUnsent, Return, ServerRefusesCommit, CommitReturns,
         CommitGivesUp, SessionEnds, ClientsDie, DatabaseRestarts, storeVars

(* No step removes a row or changes its id.                                *)
THEOREM IdentityIsKept == StoreSpec => RowsKeepIdentity
<1>1. ASSUME StoreInv, [StoreNext]_storeVars, NEW k \in Key, table[k] # NoRow
      PROVE  table'[k] # NoRow /\ table'[k].id = table[k].id
  <2>1. CASE table' = table
    BY <1>1, <2>1
  <2>2. CASE table' # table
    <3>1. PICK t \in Tx : ServerCommits(t)
      BY <1>1, <2>2, TableChanges
    <3>2. /\ Locks(t) = Written(t)
          /\ table' = [l \in Key |-> IF l \in Written(t) THEN work[t][l] ELSE table[l]]
      BY <3>1 DEF ServerCommits, Locks
    <3>3. CASE k \notin Written(t)
      BY <1>1, <3>2, <3>3
    <3>4. CASE k \in Written(t)
      <4>1. table'[k] = Upserted(t, table[k])
        BY <1>1, <3>2, <3>4 DEF StoreInv, LockInv, WorkIsCurrent
      <4>2. Upserted(t, table[k]) \in Row
        BY <1>1, UpsertedIsRow DEF StoreInv, StoreTypeOK
      <4> QED
        BY <1>1, <4>1, <4>2, NoRowAssumption DEF Upserted
    <3> QED
      BY <3>3, <3>4
  <2> QED
    BY <2>1, <2>2
<1>2. StoreInv /\ [StoreNext]_storeVars =>
        [\A k \in Key : table[k] # NoRow =>
           table'[k] # NoRow /\ table'[k].id = table[k].id]_storeVars
  BY <1>1
<1> QED
  BY StoreInvariant, <1>2, PTL DEF StoreSpec, RowsKeepIdentity

(* A commit replaces only rates its transaction could see.                 *)
THEOREM UnseenIsKept == StoreSpec => NeverOverwritesUnseen
<1>1. ASSUME StoreInv, NEW t \in Tx, fate[t] = "open", NEW k \in Written(t), table[k] # NoRow
      PROVE  table[k].rate \in snapshot[t]
  <2>1. k \in Locks(t)
    BY <1>1 DEF Locks
  <2> QED
    BY <1>1, <2>1 DEF StoreInv, LockInv, ReplacesWhatItSees
<1>2. StoreInv /\ [StoreNext]_storeVars =>
        [\A t \in Tx : fate[t] = "open" /\ fate'[t] = "committed" =>
           \A k \in Written(t) : table[k] # NoRow => table[k].rate \in snapshot[t]]_storeVars
  BY <1>1
<1> QED
  BY StoreInvariant, <1>2, PTL DEF StoreSpec, NeverOverwritesUnseen

(* What the table and the snapshots record: a row names calls that have    *)
(* committed, the one with its rate on a batch with its key; every row of  *)
(* a committed batch is there; a snapshot shows committed calls only.      *)
RecordsCommitted ==
  \A k \in Key : table[k] # NoRow =>
    /\ fate[table[k].rate] = "committed" /\ fate[table[k].id] = "committed"
    /\ k \in Abstract!Keys(table[k].rate)

CommittedIsStored ==
  \A t \in Tx : fate[t] = "committed" => \A k \in Abstract!Keys(t) : table[k] # NoRow

SnapshotsAreCommitted ==
  \A t \in Tx : \A u \in snapshot[t] : fate[u] = "committed"

RecordInv == RecordsCommitted /\ CommittedIsStored /\ SnapshotsAreCommitted

(* The batch of a call is fixed when the call is made.                     *)
LEMMA CommittedStays ==
  ASSUME StoreInv, [StoreNext]_storeVars, NEW t \in Tx, fate[t] = "committed"
  PROVE  fate'[t] = "committed" /\ batch'[t] = batch[t]
<1> USE DEF StoreInv, StoreTypeOK
<1>0. ControlOK(t)
  OBVIOUS
<1>1. ASSUME NEW u \in Tx, NEW b \in Batches, UpsertRates(u, b)
      PROVE  fate'[t] = "committed" /\ batch'[t] = batch[t]
  BY <1>0, <1>1 DEF UpsertRates, ControlOK
<1>2. ASSUME NEW u \in Tx, BeginTx(u) \/ BeginFails(u) \/ TakeSnapshot(u) \/ UpsertRow(u)
      PROVE  fate'[t] = "committed" /\ batch'[t] = batch[t]
  BY <1>0, <1>2 DEF BeginTx, BeginFails, TakeSnapshot, UpsertRow, ControlOK
<1>3. ASSUME NEW u \in Tx, StatementFails(u) \/ RowGivesUp(u) \/ Rollback(u) \/ RollbackUnsent(u)
      PROVE  fate'[t] = "committed" /\ batch'[t] = batch[t]
  BY <1>0, <1>3 DEF StatementFails, RowGivesUp, Rollback, RollbackUnsent, ControlOK
<1>4. ASSUME NEW u \in Tx,
             \/ ServerCommits(u) \/ ServerRefusesCommit(u)
             \/ CommitReturns(u) \/ CommitGivesUp(u) \/ SessionEnds(u)
      PROVE  fate'[t] = "committed" /\ batch'[t] = batch[t]
  BY <1>0, <1>4 DEF ServerCommits, ServerRefusesCommit, CommitReturns, CommitGivesUp, SessionEnds
<1>5. ASSUME NEW T, ClientsDie(T) \/ DatabaseRestarts \/ UNCHANGED storeVars
      PROVE  fate'[t] = "committed" /\ batch'[t] = batch[t]
  BY <1>0, <1>5 DEF ClientsDie, DatabaseRestarts, storeVars
<1> QED
  BY <1>1, <1>2, <1>3, <1>4, <1>5
     DEF StoreNext, StoreStep, StoreEnded, SerializationFailure, DeadlockVictim, RowRefused

(* A step that commits nothing and takes no snapshot keeps the records.    *)
LEMMA RecordFrame ==
  ASSUME StoreInv, RecordInv, [StoreNext]_storeVars,
         table' = table, snapshot' = snapshot,
         \A t \in Tx : fate'[t] = "committed" => fate[t] = "committed"
  PROVE  RecordInv'
<1>0. StoreTypeOK
  BY DEF StoreInv
<1>1. \A t \in Tx : fate[t] = "committed" => fate'[t] = "committed" /\ batch'[t] = batch[t]
  BY CommittedStays
<1>2. ASSUME NEW k \in Key, table[k] # NoRow
      PROVE  /\ fate'[table[k].rate] = "committed" /\ fate'[table[k].id] = "committed"
             /\ k \in Abstract!Keys(table[k].rate)'
  <2>1. table[k].rate \in Tx /\ table[k].id \in Tx
    BY <1>0, <1>2 DEF StoreTypeOK, Row
  <2>2. /\ fate[table[k].rate] = "committed" /\ fate[table[k].id] = "committed"
        /\ k \in Abstract!Keys(table[k].rate)
    BY <1>2 DEF RecordInv, RecordsCommitted
  <2> QED
    BY <1>1, <2>1, <2>2 DEF Abstract!Keys
<1>3. RecordsCommitted'
  BY <1>2 DEF RecordsCommitted, Abstract!Keys
<1>4. CommittedIsStored'
  BY <1>1 DEF RecordInv, CommittedIsStored, Abstract!Keys
<1>5. SnapshotsAreCommitted'
  BY <1>0, <1>1 DEF RecordInv, SnapshotsAreCommitted, StoreTypeOK
<1> QED
  BY <1>3, <1>4, <1>5 DEF RecordInv

(* Every step keeps the records true.                                      *)
LEMMA RecordStep ==
  ASSUME StoreInv, RecordInv, [StoreNext]_storeVars
  PROVE  RecordInv'
<1>0. StoreTypeOK /\ LockInv /\ (\A t \in Tx : ControlOK(t))
  BY DEF StoreInv
<1>1. \A t \in Tx : fate[t] = "committed" => fate'[t] = "committed" /\ batch'[t] = batch[t]
  BY CommittedStays
<1>2. ASSUME NEW t \in Tx, ServerCommits(t) PROVE RecordInv'
  <2>1. pos[t] = Len(batch[t]) + 1 /\ Len(batch[t]) \in Nat
    BY <1>0, <1>2, BatchesAssumption DEF ServerCommits, ControlOK, StoreTypeOK
  <2>2. Written(t) = Abstract!Keys(t) /\ Locks(t) = Written(t)
    BY <1>2, <2>1 DEF Written, Abstract!Keys, ServerCommits, Locks
  <2>3. /\ fate' = [fate EXCEPT ![t] = "committed"] /\ batch' = batch /\ snapshot' = snapshot
        /\ table' = [k \in Key |-> IF k \in Written(t) THEN work[t][k] ELSE table[k]]
    BY <1>2 DEF ServerCommits
  <2>4. \A k \in Key : k \in Written(t) => table'[k] = Upserted(t, table[k]) /\ table'[k] \in Row
    BY <1>0, <2>2, <2>3, UpsertedIsRow DEF LockInv, WorkIsCurrent, StoreTypeOK
  <2>5. fate'[t] = "committed" /\ \A u \in Tx : u # t => fate'[u] = fate[u]
    BY <1>0, <2>3 DEF StoreTypeOK
  <2>6. ASSUME NEW k \in Key, table'[k] # NoRow
        PROVE  /\ fate'[table'[k].rate] = "committed" /\ fate'[table'[k].id] = "committed"
               /\ k \in Abstract!Keys(table'[k].rate)
    <3>1. table[k] # NoRow =>
            /\ table[k].rate \in Tx /\ table[k].id \in Tx
            /\ fate[table[k].rate] = "committed" /\ fate[table[k].id] = "committed"
            /\ k \in Abstract!Keys(table[k].rate)
      BY <1>0 DEF StoreTypeOK, Row, RecordInv, RecordsCommitted
    <3>2. CASE k \notin Written(t)
      BY <1>1, <2>3, <2>6, <3>1, <3>2
    <3>3. CASE k \in Written(t)
      <4>1. table'[k] = Upserted(t, table[k])
        BY <2>4, <3>3
      <4>2. /\ Upserted(t, table[k]).rate = t
            /\ Upserted(t, table[k]).id = IF table[k] = NoRow THEN t ELSE table[k].id
        BY DEF Upserted
      <4> QED
        BY <1>1, <2>2, <2>5, <3>1, <3>3, <4>1, <4>2
    <3> QED
      BY <3>2, <3>3
  <2>7. RecordsCommitted'
    BY <2>3, <2>6 DEF RecordsCommitted, Abstract!Keys
  <2>8. ASSUME NEW u \in Tx, fate'[u] = "committed", NEW k \in Abstract!Keys(u), k \in Key
        PROVE  table'[k] # NoRow
    <3>1. CASE k \in Written(t)
      BY <2>4, <2>8, <3>1, NoRowAssumption
    <3>2. CASE k \notin Written(t)
      <4>1. u # t
        BY <2>2, <2>8, <3>2
      <4> QED
        BY <2>3, <2>5, <2>8, <3>2, <4>1 DEF RecordInv, CommittedIsStored
    <3> QED
      BY <3>1, <3>2
  <2>9. \A u \in Tx : Abstract!Keys(u) \subseteq Key /\ Abstract!Keys(u)' = Abstract!Keys(u)
    BY <1>0, <2>3, BatchesAssumption DEF Abstract!Keys, StoreTypeOK
  <2>10. CommittedIsStored'
    BY <2>8, <2>9 DEF CommittedIsStored
  <2>11. SnapshotsAreCommitted'
    BY <1>0, <1>1, <2>3 DEF RecordInv, SnapshotsAreCommitted, StoreTypeOK
  <2> QED
    BY <2>7, <2>10, <2>11 DEF RecordInv
<1>3. ASSUME NEW t \in Tx, TakeSnapshot(t) PROVE RecordInv'
  <2>1. RecordsCommitted' /\ CommittedIsStored'
    BY <1>3 DEF TakeSnapshot, RecordInv, RecordsCommitted, CommittedIsStored, Abstract!Keys
  <2>2. SnapshotsAreCommitted'
    BY <1>0, <1>3 DEF TakeSnapshot, RecordInv, SnapshotsAreCommitted, StoreTypeOK
  <2> QED
    BY <2>1, <2>2 DEF RecordInv
<1>4. ASSUME NEW t \in Tx, NEW b \in Batches, UpsertRates(t, b) PROVE RecordInv'
  BY <1>0, <1>4, RecordFrame DEF UpsertRates, StoreTypeOK
<1>5. ASSUME NEW t \in Tx,
             \/ BeginTx(t) \/ BeginFails(t) \/ UpsertRow(t) \/ RowGivesUp(t) \/ StatementFails(t)
      PROVE  RecordInv'
  BY <1>0, <1>5, RecordFrame
     DEF BeginTx, BeginFails, UpsertRow, RowGivesUp, StatementFails, StoreTypeOK
<1>6. ASSUME NEW t \in Tx, Rollback(t) \/ RollbackUnsent(t) \/ ServerRefusesCommit(t)
      PROVE  RecordInv'
  BY <1>0, <1>6, RecordFrame DEF Rollback, RollbackUnsent, ServerRefusesCommit, Return, StoreTypeOK
<1>7. ASSUME NEW t \in Tx, CommitReturns(t) \/ CommitGivesUp(t) \/ SessionEnds(t)
      PROVE  RecordInv'
  BY <1>0, <1>7, RecordFrame DEF CommitReturns, CommitGivesUp, SessionEnds, Return, StoreTypeOK
<1>8. ASSUME NEW T, ClientsDie(T) \/ DatabaseRestarts \/ UNCHANGED storeVars PROVE RecordInv'
  BY <1>0, <1>8, RecordFrame DEF ClientsDie, DatabaseRestarts, storeVars, StoreTypeOK
<1> QED
  BY <1>2, <1>3, <1>4, <1>5, <1>6, <1>7, <1>8
     DEF StoreNext, StoreStep, StoreEnded, SerializationFailure, DeadlockVictim, RowRefused

(* Rows name committed calls, and a committed batch is in the table whole, *)
(* for good, although later calls write over it.                           *)
THEOREM RecordsAreTrue == StoreSpec => []RecordInv
<1>1. StoreInit => RecordInv
  BY DEF StoreInit, RecordInv, RecordsCommitted, CommittedIsStored, SnapshotsAreCommitted
<1>2. StoreInv /\ RecordInv /\ [StoreNext]_storeVars => RecordInv'
  BY RecordStep
<1> QED
  BY StoreInvariant, <1>1, <1>2, PTL DEF StoreSpec

(* What a step of one call at the store leaves alone: the batch; that a    *)
(* call is made, or is over; that it returned nil; and the snapshot of a   *)
(* call that has not begun or is over.                                     *)
StepKeeps(d) ==
  /\ batch'[d] = batch[d]
  /\ step'[d] = "idle" <=> step[d] = "idle"
  /\ step[d] \in {"returned", "dead"} => step'[d] = step[d]
  /\ reply[d] = "ok" => reply'[d] = "ok"
  /\ \/ snapshot'[d] = snapshot[d]
     \/ /\ step[d] = "begun"
        /\ snapshot'[d] = {u \in Tx : fate[u] = "committed"}

LEMMA StoreStepKeeps ==
  ASSUME StoreInv, NEW t \in Tx, StoreStep(t), NEW d \in Tx
  PROVE  StepKeeps(d)
<1> USE DEF StepKeeps
<1>0. StoreTypeOK /\ ControlOK(d)
  BY DEF StoreInv
<1> USE DEF StoreTypeOK
<1>1. CASE BeginTx(t)
  BY <1>0, <1>1 DEF BeginTx
<1>2. CASE BeginFails(t)
  BY <1>0, <1>2 DEF BeginFails, ControlOK
<1>3. CASE TakeSnapshot(t)
  BY <1>0, <1>3 DEF TakeSnapshot
<1>4. CASE UpsertRow(t)
  BY <1>0, <1>4 DEF UpsertRow, Inserting
<1>5. CASE SerializationFailure(t) \/ DeadlockVictim(t) \/ RowRefused(t)
  <2>1. step[t] \in {"begun", "insert"} /\ StatementFails(t)
    BY <1>5 DEF SerializationFailure, DeadlockVictim, RowRefused, Deadlocked, Blocks, Inserting
  <2> QED
    BY <1>0, <2>1 DEF StatementFails
<1>6. CASE RowGivesUp(t)
  BY <1>0, <1>6 DEF RowGivesUp
<1>7. CASE Rollback(t) \/ RollbackUnsent(t) \/ CommitReturns(t) \/ CommitGivesUp(t)
  <2>1. /\ step[t] \in {"rollback", "commit"} /\ batch' = batch /\ snapshot' = snapshot
        /\ \E r : step' = [step EXCEPT ![t] = "returned"] /\ reply' = [reply EXCEPT ![t] = r]
    BY <1>7 DEF Rollback, RollbackUnsent, CommitReturns, CommitGivesUp, Return
  <2>2. reply[t] = "none"
    BY <2>1 DEF StoreInv, ControlOK
  <2> QED
    BY <1>0, <2>1, <2>2
<1>8. CASE ServerCommits(t) \/ ServerRefusesCommit(t) \/ SessionEnds(t)
  BY <1>0, <1>8 DEF ServerCommits, ServerRefusesCommit, SessionEnds
<1> QED
  BY <1>1, <1>2, <1>3, <1>4, <1>5, <1>6, <1>7, <1>8 DEF StoreStep

(* Connections: who has one is between BeginTx and the return, and no more *)
(* are out than there are.                                                 *)
THEOREM ConnectionsAreReturned == StoreSpec => []ConnectionsComeBack
<1> DEFINE ConnInv == ConnectionsComeBack /\ IsFiniteSet(conns)
<1>1. StoreInit => ConnInv
  BY FS_EmptySet, PoolAssumption DEF StoreInit, ConnectionsComeBack
<1>2. ASSUME StoreInv, ConnInv, [StoreNext]_storeVars PROVE ConnInv'
  <2> USE DEF StoreInv, StoreTypeOK, ConnectionsComeBack
  <2>1. ASSUME conns' = conns \/ (\E T : conns' = conns \ T)
        PROVE  IsFiniteSet(conns') /\ Cardinality(conns') <= MaxConns
    <3>1. conns' \in SUBSET conns
      BY <2>1
    <3>2. IsFiniteSet(conns') /\ Cardinality(conns') <= Cardinality(conns)
      BY <1>2, <3>1, FS_Subset
    <3>3. Cardinality(conns) \in Nat /\ Cardinality(conns') \in Nat
      BY <1>2, <3>2, FS_CardinalityType
    <3> QED
      BY <1>2, <3>2, <3>3, PoolAssumption
  <2>2. ASSUME NEW t \in Tx, BeginTx(t) PROVE ConnInv'
    <3>1. t \notin conns
      BY <1>2, <2>2 DEF BeginTx
    <3>2. IsFiniteSet(conns') /\ Cardinality(conns') = Cardinality(conns) + 1
      BY <1>2, <2>2, <3>1, FS_AddElement DEF BeginTx
    <3>3. Cardinality(conns) \in Nat /\ Cardinality(conns) < MaxConns
      BY <1>2, <2>2, FS_CardinalityType DEF BeginTx
    <3>4. Cardinality(conns') <= MaxConns
      BY <3>2, <3>3, PoolAssumption
    <3> QED
      BY <1>2, <2>2, <3>2, <3>4 DEF BeginTx
  <2>3. ASSUME NEW t \in Tx,
               \/ (\E b \in Batches : UpsertRates(t, b)) \/ BeginFails(t) \/ TakeSnapshot(t)
               \/ UpsertRow(t) \/ RowGivesUp(t)
        PROVE  ConnInv'
    BY <1>2, <2>3 DEF UpsertRates, BeginFails, TakeSnapshot, UpsertRow, Inserting, RowGivesUp
  <2>4. ASSUME NEW t \in Tx, SerializationFailure(t) \/ DeadlockVictim(t) \/ RowRefused(t)
        PROVE  ConnInv'
    BY <1>2, <2>4 DEF SerializationFailure, DeadlockVictim, RowRefused, StatementFails
  <2>5. ASSUME NEW t \in Tx,
               Rollback(t) \/ RollbackUnsent(t) \/ CommitReturns(t) \/ CommitGivesUp(t)
        PROVE  ConnInv'
    <3>1. conns' = conns \ {t} /\ step' = [step EXCEPT ![t] = "returned"]
      BY <2>5 DEF Rollback, RollbackUnsent, CommitReturns, CommitGivesUp, Return
    <3> QED
      BY <1>2, <2>1, <3>1
  <2>6. ASSUME NEW t \in Tx, ServerCommits(t) \/ ServerRefusesCommit(t) \/ SessionEnds(t)
        PROVE  ConnInv'
    BY <1>2, <2>6 DEF ServerCommits, ServerRefusesCommit, SessionEnds
  <2>7. ASSUME NEW T \in SUBSET Tx, ClientsDie(T) PROVE ConnInv'
    BY <1>2, <2>1, <2>7 DEF ClientsDie
  <2>8. ASSUME DatabaseRestarts \/ UNCHANGED storeVars PROVE ConnInv'
    BY <1>2, <2>8 DEF DatabaseRestarts, storeVars
  <2> QED
    BY <1>2, <2>2, <2>3, <2>4, <2>5, <2>6, <2>7, <2>8 DEF StoreNext, StoreStep, StoreEnded
<1>3. ConnInv => ConnectionsComeBack
  OBVIOUS
<1> QED
  BY StoreInvariant, <1>1, <1>2, <1>3, PTL DEF StoreSpec

(* Before the first call the abstract batch store is in an initial state.  *)
LEMMA RefinesInit == StoreInit => Abstract!Init
  BY DEF StoreInit, Abstract!Init

(* Every step of the repository and the server is a step of the abstract   *)
(* batch store, or leaves it unchanged.                                    *)
LEMMA RefinesStep ==
  ASSUME StoreInv, [StoreNext]_storeVars
  PROVE  [Abstract!Next]_(Abstract!upsertVars)
<1> USE DEF Abstract!upsertVars
<1>0. StoreTypeOK /\ LockInv /\ (\A t \in Tx : ControlOK(t))
  BY DEF StoreInv
<1>1. ASSUME NEW t \in Tx, NEW b \in Batches, UpsertRates(t, b) PROVE Abstract!Submit(t)
  BY <1>0, <1>1 DEF UpsertRates, ControlOK, Abstract!Submit
<1>2. ASSUME NEW t \in Tx, ServerCommits(t) PROVE Abstract!Apply(t)
  <2>1. pos[t] = Len(batch[t]) + 1
    BY <1>0, <1>2, BatchesAssumption DEF ServerCommits, ControlOK, StoreTypeOK
  <2>2. Len(batch[t]) \in Nat
    BY <1>0, BatchesAssumption DEF StoreTypeOK
  <2>3. Written(t) = Abstract!Keys(t)
    BY <2>1, <2>2 DEF Written, Abstract!Keys
  <2>4. \A k \in Written(t) : work[t][k] = Abstract!Merge(t, table[k])
    BY <1>0, <1>2 DEF ServerCommits, LockInv, WorkIsCurrent, Locks, Upserted, Abstract!Merge
  <2>5. table' = [k \in Key |-> IF k \in Abstract!Keys(t)
                                THEN Abstract!Merge(t, table[k]) ELSE table[k]]
    BY <1>2, <2>3, <2>4 DEF ServerCommits
  <2> QED
    BY <1>2, <2>5 DEF ServerCommits, Abstract!Apply
<1>3. ASSUME NEW t \in Tx, StatementFails(t) \/ ServerRefusesCommit(t) \/ SessionEnds(t)
      PROVE  Abstract!Discard({t}) /\ UNCHANGED reply
  BY <1>0, <1>3
     DEF StatementFails, ServerRefusesCommit, SessionEnds, StoreTypeOK, Abstract!Discard
<1>4. ASSUME DatabaseRestarts
      PROVE  \E T \in SUBSET Tx : Abstract!Discard(T) /\ UNCHANGED reply
  <2> DEFINE Lost == {t \in Tx : fate[t] = "open" /\ step[t] # "begin"}
  <2>1. Abstract!Discard(Lost) /\ UNCHANGED reply
    BY <1>4 DEF DatabaseRestarts, Abstract!Discard
  <2> QED
    BY <2>1
<1>5. ASSUME NEW t \in Tx, BeginFails(t) PROVE Abstract!ReturnError(t)
  BY <1>0, <1>5 DEF BeginFails, ControlOK, Abstract!ReturnError
<1>6. ASSUME NEW t \in Tx, Rollback(t) PROVE Abstract!ReturnError(t)
  BY <1>0, <1>6 DEF Rollback, Return, ControlOK, Abstract!ReturnError
<1>7. ASSUME NEW t \in Tx, RollbackUnsent(t) \/ CommitGivesUp(t) PROVE Abstract!ReturnError(t)
  BY <1>0, <1>7 DEF RollbackUnsent, CommitGivesUp, Return, ControlOK, Abstract!ReturnError
<1>8. ASSUME NEW t \in Tx, CommitReturns(t)
      PROVE  Abstract!ReturnOk(t) \/ Abstract!ReturnError(t)
  <2>1. reply[t] = "none"
    BY <1>0, <1>8 DEF CommitReturns, ControlOK
  <2>2. CASE fate[t] = "committed"
    BY <1>8, <2>1, <2>2 DEF CommitReturns, Return, Abstract!ReturnOk
  <2>3. CASE fate[t] = "aborted"
    BY <1>8, <2>1, <2>3 DEF CommitReturns, Return, Abstract!ReturnError
  <2> QED
    BY <1>8, <2>2, <2>3 DEF CommitReturns
<1>9. ASSUME \/ \E t \in Tx : BeginTx(t) \/ TakeSnapshot(t) \/ UpsertRow(t) \/ RowGivesUp(t)
             \/ \E T \in SUBSET Tx : ClientsDie(T)
             \/ UNCHANGED storeVars
      PROVE  UNCHANGED Abstract!upsertVars
  BY <1>9 DEF BeginTx, TakeSnapshot, UpsertRow, RowGivesUp, ClientsDie, storeVars
<1>10. CASE \E t \in Tx : \/ \E b \in Batches : UpsertRates(t, b)
                          \/ ServerCommits(t) \/ BeginFails(t) \/ Rollback(t)
                          \/ RollbackUnsent(t) \/ CommitGivesUp(t) \/ CommitReturns(t)
  BY <1>10, <1>1, <1>2, <1>5, <1>6, <1>7, <1>8 DEF Abstract!Next
<1>11. CASE \E t \in Tx : StatementFails(t) \/ ServerRefusesCommit(t) \/ SessionEnds(t)
  <2>1. PICK t \in Tx : StatementFails(t) \/ ServerRefusesCommit(t) \/ SessionEnds(t)
    BY <1>11
  <2>2. {t} \in SUBSET Tx /\ Abstract!Discard({t}) /\ UNCHANGED reply
    BY <2>1, <1>3
  <2> QED
    BY <2>2 DEF Abstract!Next
<1>12. CASE DatabaseRestarts
  BY <1>4, <1>12 DEF Abstract!Next
<1> QED
  BY <1>9, <1>10, <1>11, <1>12
     DEF StoreNext, StoreStep, StoreEnded, SerializationFailure, DeadlockVictim, RowRefused

(* The repository on PostgreSQL implements the atomic batch store.         *)
THEOREM StoreRefinesAtomicUpsert == StoreSpec => ImplementsAtomicUpsert
<1>1. StoreInv /\ [StoreNext]_storeVars => [Abstract!Next]_(Abstract!upsertVars)
  BY RefinesStep
<1> QED
  BY StoreInvariant, RefinesInit, <1>1, PTL
     DEF StoreSpec, ImplementsAtomicUpsert, Abstract!Spec
=============================================================================
