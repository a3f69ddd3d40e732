------------------------------ MODULE RateStore ------------------------------
(***************************************************************************)
(* Repository.UpsertRates (src/internal/db/repository.go) on PostgreSQL.   *)
(*                                                                         *)
(* A call takes a connection from the pool, opens a SERIALIZABLE           *)
(* transaction, sends one INSERT ... ON CONFLICT ... DO UPDATE per rate,   *)
(* commits, and rolls back on every other way out.  The client's steps are *)
(* the repository's; the steps of the server - row locks, first committer  *)
(* wins, the deadlock detector, a COMMIT that is processed after its       *)
(* client has given up, a restart - are PostgreSQL's as far as the         *)
(* repository depends on them.                                             *)
(***************************************************************************)
EXTENDS Integers, Sequences, FiniteSets

CONSTANTS
  Tx,        \* the calls of UpsertRates, each made at most once
  Key,       \* values of the unique key of exchange_rates
  Batches,   \* the batches a call can be given: the keys of its rates, in order
  MaxConns,  \* size of the connection pool
  NoRow      \* no row is stored under the key

(* A stored row, by the call whose uuid it carries and the call whose rate *)
(* and source_published_at it carries.                                     *)
Row == [id : Tx, rate : Tx]

ASSUME NoRowAssumption == NoRow \notin Row

ASSUME PoolAssumption == MaxConns \in Nat \ {0}

(* FetchAndStore never calls UpsertRates with nothing (service.go:101),    *)
(* and has one outcome per currency (OneOutcomePerCurrency of Ingestion).  *)
ASSUME BatchesAssumption ==
  /\ Batches \subseteq Seq(Key) \ {<<>>}
  /\ \A b \in Batches : \A i, j \in 1..Len(b) : b[i] = b[j] => i = j

VARIABLES
  step,      \* per call, where UpsertRates is: see Step
  batch,     \* per call, its argument
  pos,       \* per call, index of the rate whose statement is next
  snapshot,  \* per call, the calls committed when its first statement began
  work,      \* per call, the rows it has written and not committed
  fate,      \* per call, what became of it at the server: see Fate
  table,     \* the committed rows
  conns,     \* the calls that have a connection of the pool
  reply      \* per call, what UpsertRates returned

storeVars == <<step, batch, pos, snapshot, work, fate, table, conns, reply>>

Step == {"idle", "begin", "begun", "insert", "commit", "rollback",
         "returned", "dead"}
Fate == {"none", "open", "committed", "aborted"}

(* The keys whose row t has inserted or updated.  Until its end at the     *)
(* server the transaction keeps every one of them locked.                  *)
Written(t)  == {batch[t][i] : i \in 1..(pos[t] - 1)}
Locks(t)    == IF fate[t] = "open" THEN Written(t) ELSE {}
Wanted(t)   == batch[t][pos[t]]
Inserting(t) == step[t] = "insert" /\ fate[t] = "open"

Blocks(u, t) == u # t /\ Inserting(t) /\ Wanted(t) \in Locks(u)

(* Mutant of Blocked: no unique key, so that nobody waits for anybody.     *)
NeverBlocked(t) == FALSE

(* The unique key makes t wait for whoever has written the row.            *)
Blocked(t)      == \E u \in Tx : Blocks(u, t)

(* t is one of a set of transactions each of which waits for one of them   *)
(* and blocks one of them: a cycle of waits.                               *)
Deadlocked(t) ==
  \E T \in SUBSET Tx :
    /\ t \in T
    /\ \A u \in T : (\E w \in T : Blocks(w, u)) /\ (\E w \in T : Blocks(u, w))

(* Mutant of Stale: the default isolation level, READ COMMITTED.           *)
StaleAllowed(t) == FALSE

(* The row t wants was written by a transaction its snapshot does not see. *)
Stale(t) ==
  /\ table[Wanted(t)] # NoRow
  /\ table[Wanted(t)].rate \notin snapshot[t]

(* Mutants of Upserted: the update takes over the id as well; the insert   *)
(* comes without one.                                                      *)
UpsertedAnew(t, row)   == [id |-> t, rate |-> t]
UpsertedNoId(t, row)   == [id |-> IF row = NoRow THEN NoRow ELSE row.id, rate |-> t]

(* INSERT ... ON CONFLICT DO UPDATE SET rate, source_published_at.         *)
Upserted(t, row) == [id |-> IF row = NoRow THEN t ELSE row.id, rate |-> t]

-----------------------------------------------------------------------------

StoreInit ==
  /\ step     = [t \in Tx |-> "idle"]
  /\ batch    = [t \in Tx |-> <<>>]
  /\ pos      = [t \in Tx |-> 1]
  /\ snapshot = [t \in Tx |-> {}]
  /\ work     = [t \in Tx |-> [k \in Key |-> NoRow]]
  /\ fate     = [t \in Tx |-> "none"]
  /\ table    = [k \in Key |-> NoRow]
  /\ conns    = {}
  /\ reply    = [t \in Tx |-> "none"]

UpsertRates(t, b) ==
  /\ step[t] = "idle"
  /\ step'  = [step EXCEPT ![t] = "begin"]
  /\ batch' = [batch EXCEPT ![t] = b]
  /\ fate'  = [fate EXCEPT ![t] = "open"]
  /\ UNCHANGED <<pos, snapshot, work, table, conns, reply>>

(* BeginTx waits for a free connection and sends BEGIN on it.              *)
BeginTx(t) ==
  /\ step[t] = "begin"
  /\ Cardinality(conns) < MaxConns
  /\ step'  = [step EXCEPT ![t] = "begun"]
  /\ conns' = conns \cup {t}
  /\ UNCHANGED <<batch, pos, snapshot, work, fate, table, reply>>

BeginFails(t) ==
  /\ step[t] = "begin"
  /\ step'  = [step EXCEPT ![t] = "returned"]
  /\ fate'  = [fate EXCEPT ![t] = "aborted"]
  /\ reply' = [reply EXCEPT ![t] = "error"]
  /\ UNCHANGED <<batch, pos, snapshot, work, table, conns>>

(* The first statement begins: from here on the transaction sees what is   *)
(* committed now, however long the statement then waits for a lock.        *)
TakeSnapshot(t) ==
  /\ step[t] = "begun"
  /\ fate[t] = "open"
  /\ step' = [step EXCEPT ![t] = "insert"]
  /\ snapshot' = [snapshot EXCEPT ![t] = {u \in Tx : fate[u] = "committed"}]
  /\ UNCHANGED <<batch, pos, work, fate, table, conns, reply>>

(* Mutant of UpsertRow: the statement is sent on the pool, not on tx.      *)
UpsertRowOnPool(t) ==
  /\ Inserting(t)
  /\ ~Blocked(t)
  /\ ~Stale(t)
  /\ table' = [table EXCEPT ![Wanted(t)] = Upserted(t, @)]
  /\ work' = [work EXCEPT ![t][Wanted(t)] = Upserted(t, table[Wanted(t)])]
  /\ pos'  = [pos EXCEPT ![t] = @ + 1]
  /\ step' = [step EXCEPT ![t] = IF pos[t] = Len(batch[t]) THEN "commit" ELSE "insert"]
  /\ UNCHANGED <<batch, snapshot, fate, conns, reply>>

(* One turn of the loop.                                                   *)
UpsertRow(t) ==
  /\ Inserting(t)
  /\ ~Blocked(t)
  /\ ~Stale(t)
  /\ work' = [work EXCEPT ![t][Wanted(t)] = Upserted(t, table[Wanted(t)])]
  /\ pos'  = [pos EXCEPT ![t] = @ + 1]
  /\ step' = [step EXCEPT ![t] = IF pos[t] = Len(batch[t]) THEN "commit" ELSE "insert"]
  /\ UNCHANGED <<batch, snapshot, fate, table, conns, reply>>

(* The server ends the transaction with an error, and its locks with it.   *)
StatementFails(t) ==
  /\ fate[t] = "open"
  /\ step' = [step EXCEPT ![t] = "rollback"]
  /\ fate' = [fate EXCEPT ![t] = "aborted"]
  /\ UNCHANGED <<batch, pos, snapshot, work, table, conns, reply>>

SerializationFailure(t) == Inserting(t) /\ ~Blocked(t) /\ Stale(t) /\ StatementFails(t)
DeadlockVictim(t)       == Deadlocked(t) /\ StatementFails(t)

(* NUMERIC(20,8) or CHAR(3) refuses the value, or the server fails the     *)
(* statement for a reason of its own.                                      *)
RowRefused(t) == step[t] \in {"begun", "insert"} /\ StatementFails(t)

(* Mutant of RowGivesUp: the error is returned without a Rollback.         *)
RowReturns(t) ==
  /\ step[t] \in {"begun", "insert"}
  /\ step'  = [step EXCEPT ![t] = "returned"]
  /\ reply' = [reply EXCEPT ![t] = "error"]
  /\ UNCHANGED <<batch, pos, snapshot, work, fate, table, conns>>

(* toExchangeRateSetter fails, the context ends during the statement or    *)
(* the connection turns out to be lost: the server may know nothing of it. *)
RowGivesUp(t) ==
  /\ step[t] \in {"begun", "insert"}
  /\ step' = [step EXCEPT ![t] = "rollback"]
  /\ UNCHANGED <<batch, pos, snapshot, work, fate, table, conns, reply>>

(* UpsertRates returns, and its connection is back in the pool or closed.  *)
Return(t, r) ==
  /\ step'  = [step EXCEPT ![t] = "returned"]
  /\ conns' = conns \ {t}
  /\ reply' = [reply EXCEPT ![t] = r]

(* The deferred Rollback.                                                  *)
Rollback(t) ==
  /\ step[t] = "rollback"
  /\ fate' = [fate EXCEPT ![t] = "aborted"]
  /\ Return(t, "error")
  /\ UNCHANGED <<batch, pos, snapshot, work, table>>

(* The same on a context that has ended: pgx closes the connection without *)
(* a word, and the server has yet to notice.                               *)
RollbackUnsent(t) ==
  /\ step[t] = "rollback"
  /\ Return(t, "error")
  /\ UNCHANGED <<batch, pos, snapshot, work, fate, table>>

(* COMMIT as the server sees it.  It may be on its way when the client     *)
(* gives up or dies.                                                       *)
ServerCommits(t) ==
  /\ fate[t] = "open"
  /\ step[t] \in {"commit", "returned", "dead"}
  /\ pos[t] > Len(batch[t])
  /\ fate'  = [fate EXCEPT ![t] = "committed"]
  /\ table' = [k \in Key |-> IF k \in Written(t) THEN work[t][k] ELSE table[k]]
  /\ UNCHANGED <<step, batch, pos, snapshot, work, conns, reply>>

(* The serializability check fails at COMMIT.                              *)
ServerRefusesCommit(t) ==
  /\ fate[t] = "open"
  /\ step[t] = "commit"
  /\ fate' = [fate EXCEPT ![t] = "aborted"]
  /\ UNCHANGED <<step, batch, pos, snapshot, work, table, conns, reply>>

CommitReturns(t) ==
  /\ step[t] = "commit"
  /\ fate[t] \in {"committed", "aborted"}
  /\ Return(t, IF fate[t] = "committed" THEN "ok" ELSE "error")
  /\ UNCHANGED <<batch, pos, snapshot, work, fate, table>>

(* The context ends, or the connection is lost, before the answer is read. *)
CommitGivesUp(t) ==
  /\ step[t] = "commit"
  /\ Return(t, "error")
  /\ UNCHANGED <<batch, pos, snapshot, work, fate, table>>

(* The process ends: its connections are closed.                           *)
ClientsDie(T) ==
  /\ \E t \in T : step[t] \notin {"idle", "returned", "dead"}
  /\ step' = [t \in Tx |-> IF t \in T /\ step[t] \notin {"idle", "returned"}
                           THEN "dead" ELSE step[t]]
  /\ conns' = conns \ T
  /\ UNCHANGED <<batch, pos, snapshot, work, fate, table, reply>>

(* The server notices that nobody is at the other end.                     *)
SessionEnds(t) ==
  /\ fate[t] = "open"
  /\ step[t] \in {"returned", "dead"}
  /\ t \notin conns
  /\ fate' = [fate EXCEPT ![t] = "aborted"]
  /\ UNCHANGED <<step, batch, pos, snapshot, work, table, conns, reply>>

(* The database crashes and recovers: what is committed stays, what is not *)
(* is gone.                                                                *)
DatabaseRestarts ==
  LET Lost == {t \in Tx : fate[t] = "open" /\ step[t] # "begin"} IN
  /\ Lost # {}
  /\ fate' = [t \in Tx |-> IF t \in Lost THEN "aborted" ELSE fate[t]]
  /\ UNCHANGED <<step, batch, pos, snapshot, work, table, conns, reply>>

StoreEnded ==
  /\ \A t \in Tx : step[t] \in {"returned", "dead"} /\ fate[t] # "open"
  /\ UNCHANGED storeVars

StoreStep(t) ==
  \/ BeginTx(t) \/ BeginFails(t) \/ TakeSnapshot(t) \/ UpsertRow(t)
  \/ SerializationFailure(t) \/ DeadlockVictim(t) \/ RowRefused(t) \/ RowGivesUp(t)
  \/ Rollback(t) \/ RollbackUnsent(t)
  \/ ServerCommits(t) \/ ServerRefusesCommit(t) \/ CommitReturns(t) \/ CommitGivesUp(t)
  \/ SessionEnds(t)

StoreNext ==
  \/ \E t \in Tx : StoreStep(t) \/ \E b \in Batches : UpsertRates(t, b)
  \/ \E T \in SUBSET Tx : ClientsDie(T)
  \/ DatabaseRestarts
  \/ StoreEnded

(* The repository takes its next step when it can.  The server answers     *)
(* every statement that is not waiting for a lock, breaks every deadlock   *)
(* (deadlock_timeout) and notices every closed connection.                 *)
StoreFairness ==
  \A t \in Tx :
    /\ WF_storeVars(BeginTx(t))
    /\ WF_storeVars(TakeSnapshot(t))
    /\ WF_storeVars(UpsertRow(t) \/ SerializationFailure(t))
    /\ WF_storeVars(DeadlockVictim(t))
    /\ WF_storeVars(fate[t] = "aborted" /\ RowGivesUp(t))
    /\ WF_storeVars(Rollback(t))
    /\ WF_storeVars(CommitReturns(t))
    /\ WF_storeVars(ServerCommits(t) \/ SessionEnds(t))

StoreSpec == StoreInit /\ [][StoreNext]_storeVars /\ StoreFairness

-----------------------------------------------------------------------------

(* Types.                                                                  *)
StoreTypeOK ==
  /\ step \in [Tx -> Step]
  /\ batch \in [Tx -> Batches \cup {<<>>}]
  /\ pos \in [Tx -> Nat \ {0}]
  /\ snapshot \in [Tx -> SUBSET Tx]
  /\ work \in [Tx -> [Key -> Row \cup {NoRow}]]
  /\ fate \in [Tx -> Fate]
  /\ table \in [Key -> Row \cup {NoRow}]
  /\ conns \subseteq Tx
  /\ reply \in [Tx -> {"none", "ok", "error"}]

(* How far a call has come, as its step and its fate tell.                 *)
ControlOK(t) ==
  /\ pos[t] \in 1..(Len(batch[t]) + 1)
  /\ fate[t] = "none" <=> step[t] = "idle"
  /\ step[t] \in {"idle", "begin", "begun"} => pos[t] = 1
  /\ step[t] # "idle" => batch[t] # <<>>
  /\ step[t] = "begin" => fate[t] = "open"
  /\ step[t] \in {"begun", "insert", "rollback"} => fate[t] # "committed"
  /\ step[t] = "insert" => pos[t] <= Len(batch[t])
  /\ step[t] = "commit" => pos[t] = Len(batch[t]) + 1
  /\ step[t] \notin {"returned", "dead"} => reply[t] = "none"
  /\ reply[t] = "ok" => fate[t] = "committed"

(* UpsertRates is atomic, whatever is interleaved with it, crashes in it   *)
(* or gives up on it: see AtomicUpsert (repository.go:38-66).              *)
Abstract == INSTANCE AtomicUpsert
ImplementsAtomicUpsert == Abstract!Spec

(* No two transactions have a row locked, and rows written and not         *)
(* committed are based on the committed rows of the moment: no commit has  *)
(* come between (repository.go:51-56, the unique key and its lock).        *)
WorkIsCurrent ==
  \A t \in Tx : \A k \in Locks(t) :
    /\ work[t][k] = Upserted(t, table[k])
    /\ \A u \in Tx \ {t} : k \notin Locks(u)

(* What a transaction is about to replace, it has seen.                    *)
ReplacesWhatItSees ==
  \A t \in Tx : \A k \in Locks(t) :
    table[k] # NoRow => table[k].rate \in snapshot[t]

(* A call that has returned, by whatever path, has given its connection    *)
(* back, and the pool never has more out than it has (repository.go:43).   *)
ConnectionsComeBack ==
  /\ \A t \in conns : step[t] \in {"begun", "insert", "commit", "rollback"}
  /\ Cardinality(conns) <= MaxConns

(* A transaction never overwrites a rate it could not see: what a commit   *)
(* replaces was committed before its first statement.  This is what the    *)
(* SERIALIZABLE level of repository.go:39 adds to the upsert.              *)
NeverOverwritesUnseen ==
  [][\A t \in Tx : fate[t] = "open" /\ fate'[t] = "committed" =>
       \A k \in Written(t) : table[k] # NoRow => table[k].rate \in snapshot[t]]_storeVars

(* A row, once stored, is never removed and never changes its id, which    *)
(* clients have been shown (repository.go:53-55, server.go:129-144).       *)
RowsKeepIdentity ==
  [][\A k \in Key : table[k] # NoRow =>
       table'[k] # NoRow /\ table'[k].id = table[k].id]_storeVars

(* Every call returns or dies with its process, and leaves no transaction, *)
(* and so no lock, behind at the server: whoever waits for a connection or *)
(* for a row gets it, and a cycle of waits is broken.                      *)
EveryUpsertEnds ==
  \A t \in Tx :
    step[t] = "begin" ~> step[t] \in {"returned", "dead"} /\ fate[t] # "open"

=============================================================================
