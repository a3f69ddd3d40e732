-------------------------- MODULE RatesServiceProofs --------------------------
(* Theorems about RatesService, for any number of requests and commands,   *)
(* any currencies, dates and editions of the feed: what an answer says of  *)
(* the table, who overwrites whom, and what the queries show.              *)
EXTENDS RatesService, IngestionProofs

(* The theorems about the store, of the store as the service uses it.      *)
S == INSTANCE RateStoreProofs WITH Tx <- Call, Key <- RateKey, Batches <- UniqueSeqs

BatchOf(c) == [i \in 1..Len(Saved(c)) |-> KeyOf(Saved(c)[i])]

(* How a call of FetchAndStore, its call of UpsertRates and its answer     *)
(* keep step.  That the store is idle until the pool is drained, and that  *)
(* its batch is what was drained, is what carries an answer, which is made *)
(* from the error and the outcomes, over to the table.                     *)
LinkOK(c) ==
  /\ pc[c] \in {"idle", "spawn", "wait"} => step[c] = "idle"
  /\ pc[c] \in {"returned", "dead"} => step[c] \in {"idle", "returned", "dead"}
  /\ step[c] # "idle" => HasSaved(c) /\ batch[c] = BatchOf(c)
  /\ pc[c] = "returned" /\ err[c] = "nil" => reply[c] = "ok"
  /\ answer[c] # "none" => pc[c] = "returned"
  /\ answer[c] \in {"200", "exit0"} => err[c] = "nil"
  /\ answer[c] = "500" => ~HasSaved(c)

(* All of the outcomes s are of editions no later than v.                  *)
NoLater(s, v) == \A i \in 1..Len(s) : s[i].ver <= v

(* Nothing is fetched before it is published.                              *)
EditionOK(c) ==
  /\ NoLater(outcomes[c], edition)
  /\ \A k \in Currency : held[c][k] <= edition

(* What is true of a call d that had ended when c started: it takes no     *)
(* further step of its own, its snapshot was taken before c was made, and  *)
(* what it fetched is no later than anything c fetches.                    *)
Precedes(d, c) ==
  /\ pc[d] \in {"returned", "dead"}
  /\ c \notin snapshot[d]
  /\ \A k \in Currency :
       task[c][k] = "sending" /\ held[c][k] # Failure => NoLater(outcomes[d], held[c][k])
  /\ \A j \in 1..Len(outcomes[c]) :
       IsRate(outcomes[c][j]) => NoLater(outcomes[d], outcomes[c][j].ver)

PastOK(c) == \A d \in before[c] : Precedes(d, c)

(* The inductive invariant.                                                *)
ServiceInv ==
  /\ IngestInv /\ (\A c \in Call : TruthfulFor(c))
  /\ S!StoreInv /\ S!RecordInv
  /\ ServiceTypeOK
  /\ \A c \in Call : LinkOK(c) /\ EditionOK(c) /\ PastOK(c)

-----------------------------------------------------------------------------
(* What the store's theorems assume of it holds of its use here.           *)
LEMMA StoreAssumptions ==
  S!NoRowAssumption /\ S!PoolAssumption /\ S!BatchesAssumption
<1>1. UniqueSeqs \subseteq Seq(RateKey) \ {<<>>}
  BY DEF UniqueSeqs
<1>2. \A b \in UniqueSeqs : \A i, j \in 1..Len(b) : b[i] = b[j] => i = j
  BY DEF UniqueSeqs
<1> QED
  BY <1>1, <1>2, StoreAssumption
     DEF S!NoRowAssumption, S!PoolAssumption, S!BatchesAssumption, S!Row

(* The steps of the store that the service composes are those of the store *)
(* the theorems are about.                                                 *)
LEMMA SameInit == Store!StoreInit => S!StoreInit
  BY DEF Store!StoreInit, S!StoreInit

LEMMA SameUpsertRates ==
  ASSUME NEW c, NEW b, Store!UpsertRates(c, b) PROVE S!UpsertRates(c, b)
  BY DEF Store!UpsertRates, S!UpsertRates

LEMMA SameStep == ASSUME NEW c, Store!StoreStep(c) PROVE S!StoreStep(c)
<1> USE DEF S!StoreStep
<1>1. CASE Store!BeginTx(c) \/ Store!BeginFails(c) \/ Store!TakeSnapshot(c)
  <2>1. Store!BeginTx(c) => S!BeginTx(c)
    BY DEF Store!BeginTx, S!BeginTx, Store!Cardinality, S!Cardinality
  <2>2. Store!BeginFails(c) => S!BeginFails(c)
    BY DEF Store!BeginFails, S!BeginFails
  <2>3. Store!TakeSnapshot(c) => S!TakeSnapshot(c)
    BY DEF Store!TakeSnapshot, S!TakeSnapshot
  <2> QED
    BY <1>1, <2>1, <2>2, <2>3
<1>2. Store!Blocked(c) = S!Blocked(c) /\ Store!Stale(c) = S!Stale(c)
  BY DEF Store!Blocked, S!Blocked, Store!Blocks, S!Blocks, Store!Inserting, S!Inserting,
         Store!Wanted, S!Wanted, Store!Locks, S!Locks, Store!Written, S!Written,
         Store!Stale, S!Stale
<1>3. CASE Store!UpsertRow(c)
  BY <1>2, <1>3 DEF Store!UpsertRow, S!UpsertRow, Store!Inserting, S!Inserting,
                    Store!Wanted, S!Wanted, Store!Upserted, S!Upserted
<1>4. CASE Store!SerializationFailure(c)
  BY <1>2, <1>4 DEF Store!SerializationFailure, S!SerializationFailure, Store!Inserting,
                    S!Inserting, Store!StatementFails, S!StatementFails
<1>5. CASE Store!DeadlockVictim(c)
  BY <1>5 DEF Store!DeadlockVictim, S!DeadlockVictim, Store!Deadlocked, S!Deadlocked,
              Store!Blocks, S!Blocks, Store!Inserting, S!Inserting, Store!Wanted, S!Wanted,
              Store!Locks, S!Locks, Store!Written, S!Written,
              Store!StatementFails, S!StatementFails
<1>6. CASE Store!RowRefused(c) \/ Store!RowGivesUp(c)
  BY <1>6 DEF Store!RowRefused, S!RowRefused, Store!StatementFails, S!StatementFails,
              Store!RowGivesUp, S!RowGivesUp
<1>7. CASE Store!Rollback(c) \/ Store!RollbackUnsent(c)
  BY <1>7 DEF Store!Rollback, S!Rollback, Store!RollbackUnsent, S!RollbackUnsent,
              Store!Return, S!Return
<1>8. CASE Store!ServerCommits(c) \/ Store!ServerRefusesCommit(c)
  BY <1>8 DEF Store!ServerCommits, S!ServerCommits, Store!ServerRefusesCommit,
              S!ServerRefusesCommit, Store!Written, S!Written
<1>9. CASE Store!CommitReturns(c) \/ Store!CommitGivesUp(c) \/ Store!SessionEnds(c)
  BY <1>9 DEF Store!CommitReturns, S!CommitReturns, Store!CommitGivesUp, S!CommitGivesUp,
              Store!SessionEnds, S!SessionEnds, Store!Return, S!Return
<1> QED
  BY <1>1, <1>3, <1>4, <1>5, <1>6, <1>7, <1>8, <1>9 DEF Store!StoreStep

LEMMA SameDeath ==
  /\ \A C : Store!ClientsDie(C) => S!ClientsDie(C)
  /\ Store!DatabaseRestarts => S!DatabaseRestarts
  BY DEF Store!ClientsDie, S!ClientsDie, Store!DatabaseRestarts, S!DatabaseRestarts

-----------------------------------------------------------------------------
(* A rate that is saved has a key of the table.                            *)
LEMMA KeyOfSaved ==
  ASSUME IngestTypeOK, NEW c \in Call, NEW i \in 1..Len(Saved(c))
  PROVE  KeyOf(Saved(c)[i]) \in RateKey
<1>1. Saved(c)[i] \in Outcome /\ Saved(c)[i].ver \in Version
  BY SavedFacts
<1> QED
  BY <1>1, EditionAssumption DEF KeyOf, RateKey, Outcome

(* The batch of a call whose pool is drained: never empty, and no currency *)
(* in it twice, so that it is one the store can be given.                  *)
LEMMA BatchIsProper ==
  ASSUME IngestInv, NEW c \in Call, pc[c] = "upsert"
  PROVE  BatchOf(c) \in UniqueSeqs
<1> DEFINE r == Saved(c)
           n == Len(r)
           b == BatchOf(c)
           f == [i \in 1..n |-> r[i].cur]
<1>0. IngestTypeOK /\ PoolOK(c)
  BY DEF IngestInv, PoolInvariant
<1>1. list[c] # <<>> /\ next[c] = Len(list[c]) + 1 /\ Running(c) = {} /\ HasSaved(c)
  BY <1>0 DEF PoolOK
<1>2. r \in Seq(Outcome) /\ n \in Nat \ {0}
  BY <1>0, <1>1, SavedFacts
<1>3. \A i, j \in 1..n : r[i].cur = r[j].cur => i = j
  BY <1>1, SavedOnce
<1>4. n <= Cardinality(Currency)
  <2>1. f \in Injection(1..n, Currency)
    <3> HIDE DEF r
    <3>1. \A i \in 1..n : r[i] \in Outcome
      BY <1>2
    <3>2. \A o \in Outcome : o.cur \in Currency
      BY DEF Outcome
    <3> QED
      BY <1>3, <3>1, <3>2 DEF Injection, IsInjective
  <2>2. Cardinality(1..n) = n
    BY <1>2, IntervalCardinality
  <2> HIDE DEF f, n
  <2> QED
    BY <2>1, <2>2, ColumnAssumption, FS_Injection
<1>5. b \in [1..n -> RateKey] /\ \A i \in 1..n : b[i].cur = r[i].cur
  BY <1>0, KeyOfSaved DEF BatchOf, KeyOf
<1> HIDE DEF b, n, r
<1>6. Len(b) = n
  BY <1>2, <1>5
<1>7. n \in 1..Cardinality(Currency)
  BY <1>2, <1>4, ColumnAssumption, FS_CardinalityType
<1>8. \A i, j \in 1..Len(b) : b[i].cur = b[j].cur => i = j
  BY <1>3, <1>5, <1>6
<1>9. b \in UniqueSeqs
  BY <1>5, <1>7, <1>8 DEF UniqueSeqs
<1> QED
  BY <1>9 DEF b

(* What a step of the service is to the store.                             *)
LEMMA StoreMoves ==
  ASSUME IngestInv, [ServiceNext]_serviceVars
  PROVE  [Store!StoreNext]_storeVars
<1>1. ASSUME NEW c \in Call, CallUpsertRates(c) PROVE Store!StoreNext
  <2>1. BatchOf(c) \in UniqueSeqs
    BY <1>1, BatchIsProper DEF CallUpsertRates
  <2>2. Store!UpsertRates(c, BatchOf(c))
    BY <1>1 DEF CallUpsertRates, BatchOf
  <2> QED
    BY <2>1, <2>2 DEF Store!StoreNext
<1>2. ASSUME NEW c \in Call, StoreWorks(c) PROVE Store!StoreNext
  BY <1>2 DEF StoreWorks, Store!StoreNext
<1>3. ASSUME NEW C \in SUBSET Call, ProcessDies(C) PROVE [Store!StoreNext]_storeVars
  BY <1>3 DEF ProcessDies, Store!StoreNext
<1>4. ASSUME DatabaseRestarts PROVE Store!StoreNext
  BY <1>4 DEF DatabaseRestarts, Store!StoreNext
<1>5. ASSUME NEW c \in Call,
             \/ Start(c) \/ Pool(c) \/ UpsertReturns(c) \/ Respond(c) \/ ResponseLost(c)
      PROVE  UNCHANGED storeVars
  BY <1>5 DEF Start, Pool, UpsertReturns, Respond, ResponseLost
<1>6. ASSUME Publish \/ AllAnswered \/ UNCHANGED serviceVars PROVE UNCHANGED storeVars
  BY <1>6 DEF Publish, AllAnswered, serviceVars
<1>7. Call \ Commands \in SUBSET Call /\ \A c \in Commands : {c} \in SUBSET Call
  BY CommandsAssumption
<1> QED
  BY <1>1, <1>2, <1>3, <1>4, <1>5, <1>6, <1>7 DEF ServiceNext

(* And to the store of the theorems.                                       *)
LEMMA StoreMovesToo ==
  ASSUME [Store!StoreNext]_storeVars
  PROVE  [S!StoreNext]_(S!storeVars)
<1>1. Store!StoreEnded => S!StoreEnded
  BY DEF Store!StoreEnded, S!StoreEnded, Store!storeVars, S!storeVars
<1>2. Store!StoreNext => S!StoreNext
  BY <1>1, SameUpsertRates, SameStep, SameDeath DEF Store!StoreNext, S!StoreNext
<1> QED
  BY <1>2 DEF storeVars, S!storeVars

(* What a step of the service is to the calls of FetchAndStore.            *)
LEMMA IngestMoves ==
  ASSUME ServiceTypeOK, [ServiceNext]_serviceVars
  PROVE  [IngestNext]_ingestVars
<1>1. ASSUME NEW c \in Call, Start(c) PROVE IngestNext
  BY <1>1 DEF Start, IngestNext
<1>2. ASSUME NEW c \in Call, Pool(c) PROVE IngestNext
  BY <1>2 DEF Pool, Fetch, IngestNext, ServiceTypeOK
<1>3. ASSUME NEW c \in Call, UpsertReturns(c) PROVE IngestNext
  BY <1>3 DEF UpsertReturns, IngestNext
<1>4. ASSUME NEW C \in SUBSET Call, ProcessDies(C) PROVE IngestNext
  BY <1>4 DEF ProcessDies, IngestNext
<1>5. ASSUME NEW c \in Call,
             CallUpsertRates(c) \/ StoreWorks(c) \/ Respond(c) \/ ResponseLost(c)
      PROVE  UNCHANGED ingestVars
  BY <1>5 DEF CallUpsertRates, StoreWorks, Respond, ResponseLost
<1>6. ASSUME Publish \/ DatabaseRestarts \/ AllAnswered \/ UNCHANGED serviceVars
      PROVE  UNCHANGED ingestVars
  BY <1>6 DEF Publish, DatabaseRestarts, AllAnswered, serviceVars
<1>7. Call \ Commands \in SUBSET Call /\ \A c \in Commands : {c} \in SUBSET Call
  BY CommandsAssumption
<1> QED
  BY <1>1, <1>2, <1>3, <1>4, <1>5, <1>6, <1>7 DEF ServiceNext

-----------------------------------------------------------------------------
(* A step that leaves a call and its answer alone keeps the link.          *)
LEMMA LinkFrame ==
  ASSUME NEW d, LinkOK(d),
         pc'[d] = pc[d], err'[d] = err[d], outcomes'[d] = outcomes[d], answer'[d] = answer[d],
         step'[d] = step[d], batch'[d] = batch[d], reply'[d] = reply[d]
  PROVE  LinkOK(d)'
<1>1. (HasSaved(d)' <=> HasSaved(d)) /\ BatchOf(d)' = BatchOf(d)
  BY DEF HasSaved, IsRate, Failure, BatchOf, Saved, KeyOf
<1> QED
  BY <1>1 DEF LinkOK

(* Every step keeps the calls, the store and the answers linked.           *)
LEMMA LinkStep ==
  ASSUME ServiceInv, [ServiceNext]_serviceVars, NEW d \in Call
  PROVE  LinkOK(d)'
<1>0. /\ LinkOK(d) /\ IngestTypeOK /\ PoolOK(d) /\ ServiceTypeOK
      /\ S!StoreInv /\ S!StoreTypeOK /\ S!ControlOK(d)
  BY DEF ServiceInv, IngestInv, PoolInvariant, S!StoreInv
<1> USE DEF IngestTypeOK, ServiceTypeOK, S!StoreTypeOK
<1>1. ASSUME outcomes'[d] = outcomes[d]
      PROVE  (HasSaved(d)' <=> HasSaved(d)) /\ BatchOf(d)' = BatchOf(d)
  BY <1>1 DEF HasSaved, IsRate, Failure, BatchOf, Saved, KeyOf
<1>2. ASSUME NEW c \in Call, Start(c) PROVE LinkOK(d)'
  <2>1. /\ pc[c] = "idle" /\ UNCHANGED <<storeVars, answer, outcomes>>
        /\ pc' = [pc EXCEPT ![c] = pc'[c]] /\ pc'[c] \in {"spawn", "returned"}
        /\ err' = [err EXCEPT ![c] = err'[c]] /\ (pc'[c] = "returned" => err'[c] = "empty")
    BY <1>0, <1>2 DEF Start, NoCurrencies, FetchAndStore
  <2>2. CASE d # c
    BY <1>0, <2>1, <2>2, LinkFrame DEF storeVars
  <2>3. CASE d = c
    BY <1>0, <1>1, <2>1, <2>3 DEF LinkOK, storeVars
  <2> QED
    BY <2>2, <2>3
<1>3. ASSUME NEW c \in Call, Pool(c) PROVE LinkOK(d)'
  <2>1. CASE d # c
    <3>1. /\ pc'[d] = pc[d] /\ err'[d] = err[d] /\ outcomes'[d] = outcomes[d]
          /\ UNCHANGED <<storeVars, answer>>
      BY <1>0, <1>3, <2>1
         DEF Pool, Go, Fetch, FetchOk, FetchFails, FetchReturns, Send, WaitReturns, Cancel,
             outerVars
    <3> QED
      BY <1>0, <3>1, LinkFrame DEF storeVars
  <2>2. CASE d = c /\ Cancel(c)
    <3>1. /\ pc'[d] = pc[d] /\ err'[d] = err[d] /\ outcomes'[d] = outcomes[d]
          /\ UNCHANGED <<storeVars, answer>>
      BY <1>3, <2>2 DEF Pool, Cancel, outerVars
    <3> QED
      BY <1>0, <3>1, LinkFrame DEF storeVars
  <2>3. CASE d = c /\ ~Cancel(c)
    <3>1. /\ pc[d] \in {"spawn", "wait"} /\ UNCHANGED <<storeVars, answer>>
          /\ \/ pc'[d] \in {"spawn", "wait"}
             \/ pc'[d] = "upsert"
             \/ pc'[d] = "returned" /\ err'[d] = "fetch"
      BY <1>0, <1>3, <2>3
         DEF Pool, Go, Fetch, FetchOk, FetchFails, FetchReturns, Send, WaitReturns, Pooling,
             outerVars
    <3>2. step'[d] = "idle" /\ answer'[d] = "none"
      BY <1>0, <3>1 DEF LinkOK, storeVars, Answer
    <3> QED
      BY <3>1, <3>2 DEF LinkOK
  <2> QED
    BY <2>1, <2>2, <2>3
<1>4. ASSUME NEW c \in Call, CallUpsertRates(c) PROVE LinkOK(d)'
  <2>1. /\ pc[c] = "upsert" /\ UNCHANGED <<ingestVars, answer>>
        /\ S!UpsertRates(c, BatchOf(c))
    BY <1>4, SameUpsertRates DEF CallUpsertRates, BatchOf, outerVars
  <2>2. /\ step' = [step EXCEPT ![c] = "begin"] /\ batch' = [batch EXCEPT ![c] = BatchOf(c)]
        /\ reply' = reply
    BY <2>1 DEF S!UpsertRates
  <2>3. CASE d # c
    BY <1>0, <2>1, <2>2, <2>3, LinkFrame DEF ingestVars
  <2>4. CASE d = c
    <3>1. HasSaved(d)
      BY <1>0, <2>1, <2>4 DEF PoolOK
    <3> QED
      BY <1>0, <1>1, <2>1, <2>2, <2>4, <3>1 DEF LinkOK, ingestVars
  <2> QED
    BY <2>3, <2>4
<1>5. ASSUME NEW c \in Call, StoreWorks(c) PROVE LinkOK(d)'
  <2>1. S!StepKeeps(d)
    BY <1>0, <1>5, SameStep, StoreAssumptions, S!StoreStepKeeps DEF StoreWorks
  <2>2. UNCHANGED <<ingestVars, answer>>
    BY <1>5 DEF StoreWorks, outerVars
  <2> QED
    BY <1>0, <1>1, <2>1, <2>2 DEF LinkOK, S!StepKeeps, ingestVars
<1>6. ASSUME NEW c \in Call, UpsertReturns(c) PROVE LinkOK(d)'
  <2>1. /\ pc[c] = "upsert" /\ pc' = [pc EXCEPT ![c] = "returned"]
        /\ err' = [err EXCEPT ![c] = err'[c]]
        /\ reply[c] # "none" /\ (err'[c] = "nil" => reply[c] = "ok")
        /\ UNCHANGED <<storeVars, answer, outcomes>>
    BY <1>0, <1>6 DEF UpsertReturns, UpsertOk, UpsertFails, UpsertCancelled, outerVars
  <2>2. CASE d # c
    BY <1>0, <2>1, <2>2, LinkFrame DEF storeVars
  <2>3. CASE d = c
    <3>1. step[d] \in {"returned", "dead"}
      BY <1>0, <2>1, <2>3 DEF S!ControlOK
    <3> QED
      BY <1>0, <1>1, <2>1, <2>3, <3>1 DEF LinkOK, storeVars
  <2> QED
    BY <2>2, <2>3
<1>7. ASSUME NEW c \in Call, Respond(c) \/ ResponseLost(c) PROVE LinkOK(d)'
  <2>1. /\ pc[c] = "returned" /\ UNCHANGED <<ingestVars, storeVars>>
        /\ answer' = [answer EXCEPT ![c] = answer'[c]]
        /\ answer'[c] \in {"200", "exit0"} => err[c] = "nil"
        /\ answer'[c] = "500" => ~HasSaved(c)
    BY <1>0, <1>7 DEF Respond, ResponseLost, PostStatus, ExitCode
  <2>2. CASE d # c
    BY <1>0, <2>1, <2>2, LinkFrame DEF ingestVars, storeVars
  <2>3. CASE d = c
    BY <1>0, <1>1, <2>1, <2>3 DEF LinkOK, ingestVars, storeVars
  <2> QED
    BY <2>2, <2>3
<1>8. ASSUME NEW C, ProcessDies(C) PROVE LinkOK(d)'
  <2>1. /\ UNCHANGED <<err, outcomes, answer, batch, reply>>
        /\ pc'[d] = IF d \in C /\ pc[d] \in {"spawn", "wait", "upsert"} THEN "dead" ELSE pc[d]
    BY <1>8, SameDeath DEF ProcessDies, Die, outerVars, S!ClientsDie, storeVars
  <2>2. \/ step'[d] = IF d \in C /\ step[d] \notin {"idle", "returned"} THEN "dead" ELSE step[d]
        \/ step'[d] = step[d] /\ (d \in C => step[d] \in {"idle", "returned", "dead"})
    BY <1>8, SameDeath DEF ProcessDies, S!ClientsDie, storeVars
  <2>3. CASE d \notin C
    BY <1>0, <2>1, <2>2, <2>3, LinkFrame
  <2>4. CASE d \in C
    BY <1>0, <1>1, <2>1, <2>2, <2>4 DEF LinkOK
  <2> QED
    BY <2>3, <2>4
<1>9. ASSUME DatabaseRestarts \/ Publish \/ AllAnswered \/ UNCHANGED serviceVars
      PROVE  LinkOK(d)'
  <2>1. UNCHANGED <<ingestVars, answer, step, batch, reply>>
    BY <1>9, SameDeath DEF DatabaseRestarts, S!DatabaseRestarts, Publish, AllAnswered, serviceVars,
                           storeVars, outerVars
  <2> QED
    BY <1>0, <2>1, LinkFrame DEF ingestVars
<1> QED
  BY <1>2, <1>3, <1>4, <1>5, <1>6, <1>7, <1>8, <1>9 DEF ServiceNext

-----------------------------------------------------------------------------
(* Every step keeps the types of the service.                              *)
LEMMA ServiceTypeStep ==
  ASSUME ServiceTypeOK, [ServiceNext]_serviceVars
  PROVE  ServiceTypeOK'
<1> USE DEF ServiceTypeOK
<1>1. ASSUME Publish PROVE ServiceTypeOK'
  BY <1>1 DEF Publish
<1>2. ASSUME NEW c \in Call, Start(c) PROVE ServiceTypeOK'
  BY <1>2 DEF Start
<1>3. ASSUME NEW c \in Call, Respond(c) \/ ResponseLost(c) PROVE ServiceTypeOK'
  BY <1>3 DEF Respond, ResponseLost, ExitCode, PostStatus, Answer
<1>4. ASSUME NEW c \in Call, Pool(c) \/ CallUpsertRates(c) \/ StoreWorks(c) \/ UpsertReturns(c)
      PROVE  ServiceTypeOK'
  BY <1>4 DEF Pool, CallUpsertRates, StoreWorks, UpsertReturns, outerVars
<1>5. ASSUME NEW C, ProcessDies(C) PROVE ServiceTypeOK'
  BY <1>5 DEF ProcessDies, outerVars
<1>6. ASSUME DatabaseRestarts \/ AllAnswered \/ UNCHANGED serviceVars PROVE ServiceTypeOK'
  BY <1>6 DEF DatabaseRestarts, AllAnswered, serviceVars, outerVars
<1> QED
  BY <1>1, <1>2, <1>3, <1>4, <1>5, <1>6 DEF ServiceNext

(* What a step of the pool of c does to the values held and to the         *)
(* channel: nothing, it brings a value, or it delivers one.                *)
Stays(c) ==
  /\ held'[c] = held[c] /\ outcomes'[c] = outcomes[c]
  /\ \A k \in Currency : task'[c][k] = "sending" => task[c][k] = "sending"

Brings(c, k, v) ==
  /\ outcomes'[c] = outcomes[c]
  /\ held'[c] = [held[c] EXCEPT ![k] = v]
  /\ \A l \in Currency \ {k} : task'[c][l] = task[c][l]

Delivers(c, k) ==
  /\ held'[c] = held[c]
  /\ task[c][k] = "sending"
  /\ outcomes'[c] = Append(outcomes[c], [cur |-> k, ver |-> held[c][k]])
  /\ task'[c][k] = "done"
  /\ \A l \in Currency \ {k} : task'[c][l] = task[c][l]

LEMMA PoolMoves ==
  ASSUME IngestTypeOK, NEW c \in Call, Pool(c)
  PROVE  \/ Stays(c)
         \/ \E k \in Currency, v \in {edition, Failure} : Brings(c, k, v)
         \/ \E k \in Currency : Delivers(c, k)
<1> USE DEF IngestTypeOK
<1>1. CASE Go(c)
  BY <1>1 DEF Go, Stays
<1>2. ASSUME NEW k \in Currency, Fetch(c, k)
      PROVE  \E v \in {edition, Failure} : Brings(c, k, v)
  <2>1. PICK v \in {edition, Failure} : FetchReturns(c, k, v)
    BY <1>2 DEF Fetch, FetchOk, FetchFails
  <2>2. held'[c] = [held[c] EXCEPT ![k] = v] /\ outcomes' = outcomes
    BY <2>1 DEF FetchReturns
  <2>3. \A l \in Currency \ {k} : task'[c][l] = task[c][l]
    BY <2>1 DEF FetchReturns
  <2> QED
    BY <2>2, <2>3 DEF Brings
<1>3. ASSUME NEW k \in Currency, Send(c, k) PROVE Delivers(c, k)
  BY <1>3 DEF Send, Delivers
<1>4. CASE WaitReturns(c) \/ Cancel(c)
  BY <1>4 DEF WaitReturns, Cancel, Stays
<1> QED
  BY <1>1, <1>2, <1>3, <1>4 DEF Pool

(* And to any other call.                                                  *)
LEMMA PoolKeeps ==
  ASSUME IngestTypeOK, NEW c \in Call, Pool(c), NEW d \in Call, d # c
  PROVE  /\ pc'[d] = pc[d] /\ task'[d] = task[d] /\ held'[d] = held[d]
         /\ outcomes'[d] = outcomes[d]
<1> USE DEF IngestTypeOK
<1>1. CASE Go(c)
  BY <1>1 DEF Go
<1>2. ASSUME NEW k \in Currency, NEW v, FetchReturns(c, k, v)
      PROVE  /\ pc'[d] = pc[d] /\ task'[d] = task[d] /\ held'[d] = held[d]
             /\ outcomes'[d] = outcomes[d]
  BY <1>2 DEF FetchReturns
<1>3. CASE \E k \in Currency : Fetch(c, k)
  BY <1>2, <1>3 DEF Fetch, FetchOk, FetchFails
<1>4. CASE \E k \in Currency : Send(c, k)
  BY <1>4 DEF Send
<1>5. CASE WaitReturns(c) \/ Cancel(c)
  BY <1>5 DEF WaitReturns, Cancel
<1> QED
  BY <1>1, <1>3, <1>4, <1>5 DEF Pool

(* Every step keeps what is fetched behind what is published.              *)
LEMMA EditionStep ==
  ASSUME ServiceInv, [ServiceNext]_serviceVars, NEW d \in Call
  PROVE  EditionOK(d)'
<1>0. EditionOK(d) /\ IngestTypeOK /\ ServiceTypeOK
  BY DEF ServiceInv, IngestInv
<1>1. /\ edition \in Nat /\ outcomes[d] \in Seq(Outcome)
      /\ \A k \in Currency : held[d][k] \in Nat
      /\ \A i \in 1..Len(outcomes[d]) : outcomes[d][i].ver \in Nat
  <2>0. \A v \in Version \cup {Failure} : v \in Nat
    BY VersionAssumption DEF Failure
  <2>1. /\ edition \in Nat /\ \A k \in Currency : held[d][k] \in Nat
        /\ outcomes[d] \in Seq(Outcome)
    BY <1>0, <2>0 DEF ServiceTypeOK, IngestTypeOK
  <2>2. \A o \in Outcome : o.ver \in Nat
    BY <2>0 DEF Outcome
  <2> QED
    BY <2>1, <2>2
<1>2. ASSUME outcomes'[d] = outcomes[d], held'[d] = held[d],
             edition' = edition \/ edition' = edition + 1
      PROVE  EditionOK(d)'
  <2>1. NoLater(outcomes[d], edition) /\ \A k \in Currency : held[d][k] <= edition
    BY <1>0 DEF EditionOK
  <2>2. NoLater(outcomes[d], edition + 1) /\ \A k \in Currency : held[d][k] <= edition + 1
    BY <1>1, <2>1 DEF NoLater
  <2> QED
    BY <1>2, <2>1, <2>2 DEF EditionOK, NoLater
<1>3. ASSUME Publish PROVE EditionOK(d)'
  BY <1>2, <1>3 DEF Publish, ingestVars
<1>4. ASSUME NEW c \in Call, Pool(c) PROVE EditionOK(d)'
  <2>0. edition' = edition
    BY <1>4 DEF Pool, outerVars
  <2>1. CASE d # c
    BY <1>0, <1>2, <1>4, <2>0, <2>1, PoolKeeps
  <2>2. CASE d = c /\ Stays(c)
    BY <1>2, <2>0, <2>2 DEF Stays
  <2>3. ASSUME d = c, NEW k \in Currency, NEW v \in {edition, Failure}, Brings(c, k, v)
        PROVE  EditionOK(d)'
    <3>1. v <= edition /\ held[d] \in [Currency -> Version \cup {Failure}]
      BY <1>0, <1>1 DEF Failure, IngestTypeOK
    <3>2. \A l \in Currency : held'[d][l] <= edition
      BY <1>0, <2>3, <3>1 DEF EditionOK, Brings
    <3> QED
      BY <1>0, <2>0, <2>3, <3>2 DEF EditionOK, NoLater, Brings
  <2>4. ASSUME d = c, NEW k \in Currency, Delivers(c, k)
        PROVE  EditionOK(d)'
    <3>1. Len(outcomes'[d]) = Len(outcomes[d]) + 1
      BY <1>1, <2>4 DEF Delivers
    <3>2. \A i \in 1..Len(outcomes[d]) : outcomes'[d][i] = outcomes[d][i]
      BY <1>1, <2>4 DEF Delivers
    <3>3. outcomes'[d][Len(outcomes[d]) + 1].ver = held[d][k]
      BY <1>1, <2>4 DEF Delivers
    <3>4. ASSUME NEW i \in 1..Len(outcomes'[d]) PROVE outcomes'[d][i].ver <= edition
      <4>1. CASE i = Len(outcomes[d]) + 1
        BY <1>0, <3>3, <4>1 DEF EditionOK
      <4>2. CASE i # Len(outcomes[d]) + 1
        <5>1. i \in 1..Len(outcomes[d])
          BY <1>1, <3>1, <4>2
        <5> QED
          BY <1>0, <3>2, <5>1 DEF EditionOK, NoLater
      <4> QED
        BY <4>1, <4>2
    <3>5. NoLater(outcomes'[d], edition)
      BY <3>4 DEF NoLater
    <3> QED
      BY <1>0, <2>0, <2>4, <3>5 DEF EditionOK, NoLater, Delivers
  <2> QED
    BY <1>0, <1>4, <2>1, <2>2, <2>3, <2>4, PoolMoves
<1>5. ASSUME NEW c \in Call, Start(c) PROVE EditionOK(d)'
  BY <1>2, <1>5 DEF Start, NoCurrencies, FetchAndStore
<1>6. ASSUME NEW c \in Call,
             CallUpsertRates(c) \/ StoreWorks(c) \/ Respond(c) \/ ResponseLost(c)
      PROVE  EditionOK(d)'
  BY <1>2, <1>6 DEF CallUpsertRates, StoreWorks, Respond, ResponseLost, ingestVars, outerVars
<1>7. ASSUME NEW c \in Call, UpsertReturns(c) PROVE EditionOK(d)'
  BY <1>2, <1>7 DEF UpsertReturns, UpsertOk, UpsertFails, UpsertCancelled, outerVars
<1>8. ASSUME NEW C, ProcessDies(C) PROVE EditionOK(d)'
  BY <1>2, <1>8 DEF ProcessDies, Die, outerVars
<1>9. ASSUME DatabaseRestarts \/ AllAnswered \/ UNCHANGED serviceVars PROVE EditionOK(d)'
  BY <1>2, <1>9 DEF DatabaseRestarts, AllAnswered, serviceVars, ingestVars, outerVars
<1> QED
  BY <1>3, <1>4, <1>5, <1>6, <1>7, <1>8, <1>9 DEF ServiceNext

(* Precedes looks at the ended call's versions and snapshot, and at what   *)
(* the later one has fetched.                                              *)
LEMMA PrecedesFrame ==
  ASSUME NEW e, NEW d, Precedes(e, d),
         pc'[e] = pc[e], snapshot'[e] = snapshot[e], outcomes'[e] = outcomes[e],
         task'[d] = task[d], held'[d] = held[d], outcomes'[d] = outcomes[d]
  PROVE  Precedes(e, d)'
  BY DEF Precedes, NoLater, IsRate, Failure

(* The same when what the later one has fetched changes.                   *)
LEMMA PrecedesLater ==
  ASSUME NEW e, NEW d, Precedes(e, d),
         pc'[e] = pc[e], snapshot'[e] = snapshot[e], outcomes'[e] = outcomes[e],
         \A k \in Currency :
           task'[d][k] = "sending" /\ held'[d][k] # Failure => NoLater(outcomes[e], held'[d][k]),
         \A j \in 1..Len(outcomes'[d]) :
           outcomes'[d][j].ver # Failure => NoLater(outcomes[e], outcomes'[d][j].ver)
  PROVE  Precedes(e, d)'
<1>1. pc'[e] \in {"returned", "dead"} /\ d \notin snapshot'[e]
  BY DEF Precedes
<1> QED
  BY <1>1 DEF Precedes, NoLater, IsRate, Failure

(* Every step keeps what is true of the calls that had ended.              *)
LEMMA PastStep ==
  ASSUME ServiceInv, [ServiceNext]_serviceVars, NEW d \in Call
  PROVE  PastOK(d)'
<1>0. /\ PastOK(d) /\ LinkOK(d) /\ IngestInv /\ IngestTypeOK /\ ServiceTypeOK
      /\ S!StoreInv /\ S!StoreTypeOK /\ S!ControlOK(d) /\ S!SnapshotsAreCommitted
  BY DEF ServiceInv, IngestInv, S!StoreInv, S!RecordInv
<1> USE DEF IngestTypeOK
<1>1. \A e \in before[d] : e \in Call /\ Precedes(e, d) /\ pc[e] \in {"returned", "dead"}
  BY <1>0 DEF PastOK, Precedes, ServiceTypeOK
<1>2. ASSUME before'[d] = before[d],
             \A e \in before[d] : /\ pc'[e] = pc[e] /\ snapshot'[e] = snapshot[e]
                                  /\ outcomes'[e] = outcomes[e],
             task'[d] = task[d], held'[d] = held[d], outcomes'[d] = outcomes[d]
      PROVE  PastOK(d)'
  BY <1>1, <1>2, PrecedesFrame DEF PastOK
<1>3. ASSUME NEW c \in Call, Start(c) PROVE PastOK(d)'
  <2>1. /\ pc[c] = "idle" /\ UNCHANGED <<task, held, outcomes, snapshot>>
        /\ \A e \in Call : e # c => pc'[e] = pc[e]
        /\ before' = [before EXCEPT ![c] = {e \in Call : pc[e] \in {"returned", "dead"}}]
    BY <1>0, <1>3 DEF Start, NoCurrencies, FetchAndStore, storeVars
  <2>2. CASE d # c
    BY <1>0, <1>1, <1>2, <2>1, <2>2 DEF ServiceTypeOK
  <2>3. CASE d = c
    <3>1. /\ \A k \in Currency : task[d][k] = "none"
          /\ Len(outcomes[d]) = 0
      BY <1>0, <2>1, <2>3, IdleIsFresh
    <3>2. fate[d] = "none"
      BY <1>0, <2>1, <2>3 DEF LinkOK, S!ControlOK
    <3>3. \A e \in Call : d \notin snapshot[e]
      BY <1>0, <3>2 DEF S!SnapshotsAreCommitted
    <3>4. before'[d] = {e \in Call : pc[e] \in {"returned", "dead"}}
      BY <1>0, <2>1, <2>3 DEF ServiceTypeOK
    <3>5. ASSUME NEW e \in before'[d] PROVE Precedes(e, d)'
      <4>1. pc'[e] \in {"returned", "dead"} /\ d \notin snapshot'[e]
        BY <2>1, <2>3, <3>3, <3>4
      <4>2. \A k \in Currency : task'[d][k] # "sending"
        BY <2>1, <3>1
      <4>3. \A j \in 1..Len(outcomes'[d]) : FALSE
        BY <2>1, <3>1
      <4> QED
        BY <4>1, <4>2, <4>3 DEF Precedes
    <3> QED
      BY <3>5 DEF PastOK
  <2> QED
    BY <2>2, <2>3
<1>4. ASSUME NEW c \in Call, Pool(c) PROVE PastOK(d)'
  <2>0. UNCHANGED <<before, snapshot, edition>> /\ pc[c] \in {"spawn", "wait", "upsert"}
    BY <1>4 DEF Pool, Go, Fetch, FetchOk, FetchFails, FetchReturns, Pooling, Send, WaitReturns,
                Cancel, storeVars, outerVars
  <2>1. \A e \in before[d] : pc'[e] = pc[e] /\ outcomes'[e] = outcomes[e] /\ e # c
    BY <1>0, <1>1, <1>4, <2>0, PoolKeeps
  <2>2. CASE d # c
    BY <1>0, <1>2, <1>4, <2>0, <2>1, <2>2, PoolKeeps
  <2>3. CASE d = c
    <3> SUFFICES ASSUME NEW e \in before[d] PROVE Precedes(e, d)'
      BY <2>0 DEF PastOK
    <3>0. /\ Precedes(e, d) /\ NoLater(outcomes[e], edition)
          /\ pc'[e] = pc[e] /\ snapshot' = snapshot /\ outcomes'[e] = outcomes[e]
      BY <1>1, <2>0, <2>1 DEF ServiceInv, EditionOK
    <3>1. CASE Stays(d)
      <4>1. \A k \in Currency :
              task'[d][k] = "sending" /\ held'[d][k] # Failure => NoLater(outcomes[e], held'[d][k])
        BY <3>0, <3>1 DEF Precedes, Stays
      <4>2. \A j \in 1..Len(outcomes'[d]) :
              outcomes'[d][j].ver # Failure => NoLater(outcomes[e], outcomes'[d][j].ver)
        BY <3>0, <3>1 DEF Precedes, IsRate, Stays
      <4> QED
        BY <3>0, <4>1, <4>2, PrecedesLater
    <3>2. ASSUME NEW k \in Currency, NEW v \in {edition, Failure}, Brings(d, k, v)
          PROVE  Precedes(e, d)'
      <4>1. \A l \in Currency : held'[d][l] = IF l = k THEN v ELSE held[d][l]
        BY <1>0, <3>2 DEF Brings
      <4>2. ASSUME NEW l \in Currency, task'[d][l] = "sending", held'[d][l] # Failure
            PROVE  NoLater(outcomes[e], held'[d][l])
        <5>1. CASE l = k
          BY <3>0, <3>2, <4>1, <4>2, <5>1
        <5>2. CASE l # k
          BY <3>0, <3>2, <4>1, <4>2, <5>2 DEF Precedes, Brings
        <5> QED
          BY <5>1, <5>2
      <4>3. \A j \in 1..Len(outcomes'[d]) :
              outcomes'[d][j].ver # Failure => NoLater(outcomes[e], outcomes'[d][j].ver)
        BY <3>0, <3>2 DEF Precedes, IsRate, Brings
      <4> QED
        BY <3>0, <4>2, <4>3, PrecedesLater
    <3>3. ASSUME NEW k \in Currency, Delivers(d, k)
          PROVE  Precedes(e, d)'
      <4>1. outcomes[d] \in Seq(Outcome) /\ Len(outcomes'[d]) = Len(outcomes[d]) + 1
        BY <1>0, <3>3 DEF Delivers
      <4>2. \A j \in 1..Len(outcomes[d]) : outcomes'[d][j] = outcomes[d][j]
        BY <3>3, <4>1 DEF Delivers
      <4>3. outcomes'[d][Len(outcomes[d]) + 1].ver = held[d][k]
        BY <3>3, <4>1 DEF Delivers
      <4>4. ASSUME NEW j \in 1..Len(outcomes'[d]), outcomes'[d][j].ver # Failure
            PROVE  NoLater(outcomes[e], outcomes'[d][j].ver)
        <5>1. CASE j \in 1..Len(outcomes[d])
          BY <3>0, <4>2, <4>4, <5>1 DEF Precedes, IsRate
        <5>2. CASE j = Len(outcomes[d]) + 1
          BY <3>0, <3>3, <4>3, <4>4, <5>2 DEF Precedes, Delivers
        <5> QED
          BY <4>1, <5>1, <5>2
      <4>5. \A l \in Currency :
              task'[d][l] = "sending" /\ held'[d][l] # Failure => NoLater(outcomes[e], held'[d][l])
        BY <3>0, <3>3 DEF Precedes, Delivers
      <4> QED
        BY <3>0, <4>4, <4>5, PrecedesLater
    <3> QED
      BY <1>0, <1>4, <2>3, <3>1, <3>2, <3>3, PoolMoves
  <2> QED
    BY <2>2, <2>3
<1>5. ASSUME NEW c \in Call, CallUpsertRates(c) PROVE PastOK(d)'
  BY <1>2, <1>5, SameUpsertRates DEF CallUpsertRates, S!UpsertRates, ingestVars, outerVars
<1>6. ASSUME NEW c \in Call, StoreWorks(c) PROVE PastOK(d)'
  <2>1. UNCHANGED <<ingestVars, outerVars>>
    BY <1>6 DEF StoreWorks
  <2>2. ASSUME NEW e \in before[d] PROVE snapshot'[e] = snapshot[e]
    <3>1. step[e] # "begun"
      BY <1>1 DEF ServiceInv, LinkOK
    <3>2. S!StepKeeps(e)
      BY <1>0, <1>1, <1>6, SameStep, StoreAssumptions, S!StoreStepKeeps DEF StoreWorks
    <3> QED
      BY <3>1, <3>2 DEF S!StepKeeps
  <2> QED
    BY <1>2, <2>1, <2>2 DEF ingestVars, outerVars
<1>7. ASSUME NEW c \in Call, UpsertReturns(c) PROVE PastOK(d)'
  <2>1. /\ pc[c] = "upsert" /\ pc' = [pc EXCEPT ![c] = "returned"]
        /\ UNCHANGED <<task, held, outcomes, snapshot, before>>
    BY <1>7 DEF UpsertReturns, UpsertOk, UpsertFails, UpsertCancelled, storeVars, outerVars
  <2>2. \A e \in before[d] : pc'[e] = pc[e]
    BY <1>0, <1>1, <2>1
  <2> QED
    BY <1>2, <2>1, <2>2
<1>8. ASSUME NEW c \in Call, Respond(c) \/ ResponseLost(c) PROVE PastOK(d)'
  BY <1>2, <1>8 DEF Respond, ResponseLost, ingestVars, storeVars
<1>9. ASSUME NEW C, ProcessDies(C) PROVE PastOK(d)'
  <2>1. UNCHANGED <<task, held, outcomes, snapshot, before>>
    BY <1>9, SameDeath DEF ProcessDies, Die, S!ClientsDie, storeVars, outerVars
  <2>2. \A e \in before[d] : pc'[e] = pc[e]
    BY <1>1, <1>9 DEF ProcessDies, Die
  <2> QED
    BY <1>2, <2>1, <2>2
<1>10. ASSUME DatabaseRestarts \/ Publish \/ AllAnswered \/ UNCHANGED serviceVars
       PROVE  PastOK(d)'
  <2>1. UNCHANGED <<ingestVars, snapshot, before>>
    BY <1>10, SameDeath DEF DatabaseRestarts, S!DatabaseRestarts, Publish, AllAnswered,
                            serviceVars, storeVars, outerVars
  <2> QED
    BY <1>2, <2>1 DEF ingestVars
<1> QED
  BY <1>3, <1>4, <1>5, <1>6, <1>7, <1>8, <1>9, <1>10 DEF ServiceNext

-----------------------------------------------------------------------------
(* The invariant holds before the first request.                           *)
LEMMA ServiceInitInv == ServiceInit => ServiceInv
<1> SUFFICES ASSUME ServiceInit PROVE ServiceInv
  OBVIOUS
<1>0. IngestInit /\ Store!StoreInit /\ S!StoreInit
  BY SameInit DEF ServiceInit
<1>1. IngestInv /\ \A c \in Call : TruthfulFor(c)
  BY <1>0, InitEstablishesInv DEF IngestInit, TruthfulFor
<1>2. S!StoreInv
  BY <1>0, StoreAssumptions, S!StoreInitInv
<1>3. S!RecordInv
  BY <1>0 DEF S!StoreInit, S!RecordInv, S!RecordsCommitted, S!CommittedIsStored,
              S!SnapshotsAreCommitted
<1>4. ServiceTypeOK
  BY EditionAssumption DEF ServiceInit, ServiceTypeOK, Answer
<1>5. ASSUME NEW c \in Call PROVE LinkOK(c)
  BY <1>0 DEF ServiceInit, IngestInit, S!StoreInit, LinkOK
<1>6. ASSUME NEW c \in Call PROVE EditionOK(c) /\ PastOK(c)
  BY <1>0 DEF ServiceInit, IngestInit, EditionOK, NoLater, PastOK, Failure
<1> QED
  BY <1>1, <1>2, <1>3, <1>4, <1>5, <1>6 DEF ServiceInv

(* And every step of the service keeps it.                                 *)
LEMMA ServiceStep == ASSUME ServiceInv, [ServiceNext]_serviceVars PROVE ServiceInv'
<1>0. /\ IngestInv /\ (\A c \in Call : TruthfulFor(c)) /\ S!StoreInv /\ S!RecordInv
      /\ ServiceTypeOK
  BY DEF ServiceInv
<1>1. [IngestNext]_ingestVars
  BY <1>0, IngestMoves
<1>2. [S!StoreNext]_(S!storeVars)
  BY <1>0, StoreMoves, StoreMovesToo
<1>3. IngestInv'
  BY <1>0, <1>1, TypeStep, PoolStep DEF IngestInv
<1>4. \A c \in Call : TruthfulFor(c)'
  BY <1>0, <1>1, TruthfulStep
<1>5. S!StoreTypeOK' /\ S!LockInv'
  BY <1>0, <1>2, StoreAssumptions, S!StoreTypeStep, S!LockStep
<1>6. \A c \in Call : S!ControlOK(c)'
  BY <1>0, <1>2, StoreAssumptions, S!ControlStep
<1>7. S!RecordInv'
  BY <1>0, <1>2, StoreAssumptions, S!RecordStep
<1>8. ServiceTypeOK'
  BY <1>0, ServiceTypeStep
<1>9. \A c \in Call : LinkOK(c)' /\ EditionOK(c)' /\ PastOK(c)'
  BY LinkStep, EditionStep, PastStep
<1>10. S!StoreInv'
  BY <1>5, <1>6 DEF S!StoreInv
<1> QED
  BY <1>3, <1>4, <1>7, <1>8, <1>9, <1>10 DEF ServiceInv

(* It is an invariant of the service.                                      *)
THEOREM ServiceInvariant == ServiceSpec => []ServiceInv
<1>1. ServiceInv /\ [ServiceNext]_serviceVars => ServiceInv'
  BY ServiceStep
<1> QED
  BY ServiceInitInv, <1>1, PTL DEF ServiceSpec

(* Types, for every value of the constants.                                *)
THEOREM ServiceTypeCorrect == ServiceSpec => []ServiceTypeOK
<1>1. ServiceInv => ServiceTypeOK
  BY DEF ServiceInv
<1> QED
  BY ServiceInvariant, <1>1, PTL

(* FetchAndStore calls UpsertRates the way the repository assumes: once,   *)
(* with a batch that is not empty and has no key twice (service.go:93-105).*)
THEOREM StoreIsUsedWell == ServiceSpec => StoreIsUsedAsAssumed
<1>1. ServiceInit => Store!StoreInit
  BY DEF ServiceInit
<1>2. ServiceInv /\ [ServiceNext]_serviceVars => [Store!StoreNext]_storeVars
  BY StoreMoves DEF ServiceInv
<1> QED
  BY ServiceInvariant, <1>1, <1>2, PTL DEF ServiceSpec, StoreIsUsedAsAssumed

(* However requests and commands interleave, fail, are given up and die,   *)
(* each call of UpsertRates stores its batch at once and whole, or nothing *)
(* of it, and is told no lie about which (repository.go:38-66, called by   *)
(* service.go:101-105).                                                    *)
THEOREM ServiceStoresAtomically == ServiceSpec => S!ImplementsAtomicUpsert
<1>1. ServiceInit => S!Abstract!Init
  BY SameInit, StoreAssumptions, S!RefinesInit DEF ServiceInit
<1>2. ServiceInv /\ [ServiceNext]_serviceVars => [S!Abstract!Next]_(S!Abstract!upsertVars)
  <2> SUFFICES ASSUME ServiceInv, [ServiceNext]_serviceVars
               PROVE  [S!Abstract!Next]_(S!Abstract!upsertVars)
    OBVIOUS
  <2>1. [S!StoreNext]_(S!storeVars) /\ S!StoreInv
    BY StoreMoves, StoreMovesToo DEF ServiceInv
  <2> QED
    BY <2>1, StoreAssumptions, S!RefinesStep
<1> QED
  BY ServiceInvariant, <1>1, <1>2, PTL
     DEF ServiceSpec, S!ImplementsAtomicUpsert, S!Abstract!Spec

(* The keys of the batch are those of the rates saved.                     *)
LEMMA KeysOfBatch ==
  ASSUME ServiceInv, NEW c \in Call, step[c] # "idle"
  PROVE  S!Abstract!Keys(c) = SavedAt(c)
<1>1. batch[c] = BatchOf(c) /\ IngestTypeOK
  BY DEF ServiceInv, LinkOK, IngestInv
<1>2. Len(Saved(c)) \in Nat
  BY <1>1, SavedFacts
<1>3. Len(batch[c]) = Len(Saved(c)) /\ \A i \in 1..Len(Saved(c)) : batch[c][i] = KeyOf(Saved(c)[i])
  BY <1>1, <1>2 DEF BatchOf
<1> QED
  BY <1>3 DEF SavedAt, S!Abstract!Keys

(* Status 200 and exit code 0 mean that everything asked for was fetched   *)
(* and is in the table for good (rates.go:43-49, main.go:101-104).         *)
THEOREM OkIsStored == ServiceSpec => []OkMeansStored
<1>1. ASSUME ServiceInv, NEW c \in Call, answer[c] \in {"200", "exit0"}
      PROVE  /\ fate[c] = "committed"
             /\ {k.cur : k \in SavedAt(c)} = Listed(c)
             /\ \A k \in SavedAt(c) : table[k] # NoRow
  <2>1. /\ IngestInv /\ IngestTypeOK /\ PoolOK(c) /\ TruthfulFor(c) /\ LinkOK(c)
        /\ S!ControlOK(c) /\ S!CommittedIsStored
    BY <1>1 DEF ServiceInv, IngestInv, PoolInvariant, S!StoreInv, S!RecordInv
  <2>2. pc[c] = "returned" /\ err[c] = "nil" /\ reply[c] = "ok"
    BY <1>1, <2>1 DEF LinkOK
  <2>3. fate[c] = "committed" /\ step[c] # "idle"
    BY <2>1, <2>2 DEF S!ControlOK
  <2>4. list[c] # <<>> /\ AllFetched(c)
    BY <2>1, <2>2 DEF TruthfulFor
  <2>5. next[c] = Len(list[c]) + 1 /\ Running(c) = {}
    BY <2>1, <2>2 DEF PoolOK
  <2>6. Reported(c) = Listed(c)
    BY <2>1, <2>4, <2>5, AllReported DEF Listed
  <2>7. \A k \in SavedAt(c) : k.cur \in Listed(c)
    <3> TAKE k \in SavedAt(c)
    <3>1. PICK i \in 1..Len(Saved(c)) : k = KeyOf(Saved(c)[i])
      BY DEF SavedAt
    <3>2. PICK j \in 1..Len(outcomes[c]) : Saved(c)[i] = outcomes[c][j]
      BY <2>1, SavedFacts
    <3>3. k.cur = outcomes[c][j].cur
      BY <3>1, <3>2 DEF KeyOf
    <3> QED
      BY <2>6, <3>3 DEF Reported
  <2>8. \A l \in Listed(c) : \E k \in SavedAt(c) : k.cur = l
    <3> TAKE l \in Listed(c)
    <3>1. PICK j \in 1..Len(outcomes[c]) : outcomes[c][j].cur = l /\ IsRate(outcomes[c][j])
      BY <2>4 DEF Listed, AllFetched
    <3>2. PICK i \in 1..Len(Saved(c)) : Saved(c)[i] = outcomes[c][j]
      BY <2>1, <3>1, SavedFacts
    <3>3. KeyOf(Saved(c)[i]) \in SavedAt(c) /\ KeyOf(Saved(c)[i]).cur = l
      BY <3>1, <3>2 DEF SavedAt, KeyOf
    <3> QED
      BY <3>3
  <2>9. \A k \in SavedAt(c) : table[k] # NoRow
    BY <1>1, <2>1, <2>3, KeysOfBatch DEF S!CommittedIsStored
  <2> QED
    BY <2>3, <2>7, <2>8, <2>9
<1>2. ServiceInv => OkMeansStored
  BY <1>1 DEF OkMeansStored
<1> QED
  BY ServiceInvariant, <1>2, PTL

(* Status 500 means that nothing of the request is, or will be, in the     *)
(* table (rates.go:43-45).                                                 *)
THEOREM ServerErrorStoresNothing == ServiceSpec => []ServerErrorWroteNothing
<1>1. ASSUME ServiceInv, NEW c \in Call, answer[c] = "500"
      PROVE  /\ fate[c] = "none"
             /\ \A k \in RateKey : table[k] # NoRow => table[k].rate # c /\ table[k].id # c
  <2>1. LinkOK(c) /\ S!ControlOK(c) /\ S!RecordsCommitted
    BY <1>1 DEF ServiceInv, S!StoreInv, S!RecordInv
  <2>2. fate[c] = "none"
    BY <1>1, <2>1 DEF LinkOK, S!ControlOK
  <2> QED
    BY <2>1, <2>2 DEF S!RecordsCommitted
<1>2. ServiceInv => ServerErrorWroteNothing
  BY <1>1 DEF ServerErrorWroteNothing
<1> QED
  BY ServiceInvariant, <1>2, PTL

(* The version under a key is one the call saved.                          *)
LEMMA VersionSaved ==
  ASSUME IngestTypeOK, NEW c \in Call, NEW k \in SavedAt(c)
  PROVE  \E j \in 1..Len(outcomes[c]) :
           IsRate(outcomes[c][j]) /\ outcomes[c][j].ver = VersionAt(c, k)
<1> DEFINE Of(v) == \E i \in 1..Len(Saved(c)) : KeyOf(Saved(c)[i]) = k /\ Saved(c)[i].ver = v
<1>1. \E v \in Version : Of(v)
  BY SavedFacts DEF SavedAt
<1>2. Of(VersionAt(c, k))
  BY <1>1 DEF VersionAt
<1>3. PICK i \in 1..Len(Saved(c)) : Saved(c)[i].ver = VersionAt(c, k)
  BY <1>2
<1> QED
  BY <1>3, SavedFacts

(* Of two calls made one after the other the later one wins: a commit that *)
(* takes a row back to an older edition is that of an overlapping call     *)
(* (banklv.go:135, service.go:102, repository.go:51-56).                   *)
THEOREM LaterCallWins == ServiceSpec => RegressionNeedsOverlap
<1>1. ASSUME ServiceInv, [ServiceNext]_serviceVars, NEW k \in RateKey,
             table[k] # NoRow, table'[k] # table[k],
             VersionAt(table'[k].rate, k) < VersionAt(table[k].rate, k)
      PROVE  /\ table[k].rate \notin before[table'[k].rate]
             /\ table'[k].rate \notin before[table[k].rate]
  <2> DEFINE old == table[k].rate
  <2>0. /\ IngestTypeOK /\ S!StoreInv /\ S!StoreTypeOK /\ S!WorkIsCurrent
        /\ S!ReplacesWhatItSees /\ S!RecordsCommitted
    BY <1>1 DEF ServiceInv, IngestInv, S!StoreInv, S!LockInv, S!RecordInv
  <2>1. [S!StoreNext]_(S!storeVars)
    BY <1>1, StoreMoves, StoreMovesToo DEF ServiceInv
  <2>2. PICK t \in Call : S!ServerCommits(t)
    BY <1>1, <2>1, StoreAssumptions, S!TableChanges
  <2>3. k \in S!Written(t) /\ fate[t] = "open" /\ table'[k] = work[t][k]
    BY <1>1, <2>2 DEF S!ServerCommits
  <2>4. k \in S!Locks(t)
    BY <2>3 DEF S!Locks
  <2>5. table'[k].rate = t
    <3>1. table'[k] = S!Upserted(t, table[k])
      BY <2>0, <2>3, <2>4 DEF S!WorkIsCurrent
    <3> QED
      BY <3>1 DEF S!Upserted
  <2>6. old \in Call /\ old \in snapshot[t]
    BY <1>1, <2>0, <2>4 DEF S!ReplacesWhatItSees, S!StoreTypeOK, S!Row
  <2>7. ASSUME t \in before[old] PROVE FALSE
    BY <1>1, <2>6, <2>7 DEF ServiceInv, PastOK, Precedes
  <2>8. ASSUME old \in before[t] PROVE FALSE
    <3>1. k \in SavedAt(t)
      <4>1. S!ControlOK(t) /\ pos[t] - 1 \in Nat /\ step[t] # "idle"
        BY <2>0, <2>3 DEF S!StoreInv, S!ControlOK, S!StoreTypeOK
      <4>2. k \in S!Abstract!Keys(t)
        BY <2>3, <4>1 DEF S!Written, S!ControlOK, S!Abstract!Keys
      <4> QED
        BY <1>1, <4>1, <4>2, KeysOfBatch
    <3>2. k \in SavedAt(old)
      <4>1. fate[old] = "committed" /\ k \in S!Abstract!Keys(old)
        BY <1>1, <2>0 DEF S!RecordsCommitted
      <4>2. step[old] # "idle"
        BY <2>0, <2>6, <4>1 DEF S!StoreInv, S!ControlOK
      <4> QED
        BY <1>1, <2>6, <4>1, <4>2, KeysOfBatch
    <3>3. PICK j \in 1..Len(outcomes[t]) :
            IsRate(outcomes[t][j]) /\ outcomes[t][j].ver = VersionAt(t, k)
      BY <2>0, <3>1, VersionSaved
    <3>4. PICK i \in 1..Len(outcomes[old]) : outcomes[old][i].ver = VersionAt(old, k)
      BY <2>0, <2>6, <3>2, VersionSaved
    <3>5. Precedes(old, t)
      BY <1>1, <2>8 DEF ServiceInv, PastOK
    <3>6. outcomes[old][i].ver <= outcomes[t][j].ver
      BY <3>3, <3>5 DEF Precedes, NoLater
    <3>7. outcomes[t][j].ver \in Nat /\ outcomes[old][i].ver \in Nat
      <4>1. \A o \in Outcome : o.ver \in Nat
        <5>1. \A v \in Version \cup {Failure} : v \in Nat
          BY VersionAssumption DEF Failure
        <5> QED
          BY <5>1 DEF Outcome
      <4>2. outcomes[t] \in Seq(Outcome) /\ outcomes[old] \in Seq(Outcome)
        BY <2>0, <2>6 DEF IngestTypeOK
      <4> HIDE DEF old
      <4> QED
        BY <4>1, <4>2
    <3> QED
      BY <1>1, <2>5, <3>3, <3>4, <3>6, <3>7
  <2> QED
    BY <2>5, <2>7, <2>8
<1>2. ServiceInv /\ [ServiceNext]_serviceVars =>
        [\A k \in RateKey :
           LET old == table[k].rate  new == table'[k].rate IN
           /\ table[k] # NoRow
           /\ table'[k] # table[k]
           /\ VersionAt(new, k) < VersionAt(old, k)
           => old \notin before[new] /\ new \notin before[old]]_serviceVars
  BY <1>1
<1> QED
  BY ServiceInvariant, <1>2, PTL DEF ServiceSpec, RegressionNeedsOverlap

-----------------------------------------------------------------------------
(* The columns the queries compare are numbers.                            *)
ComparableRows(rows) ==
  /\ IsFiniteSet(rows)
  /\ \A row \in rows : row.quote_currency \in Int /\ row.effective_date \in Int

(* s lists each of the rows once.                                          *)
ListsOnce(s, rows) ==
  /\ s \in Seq(rows) /\ Len(s) = Cardinality(rows)
  /\ \A i, j \in 1..Len(s) : i # j => s[i] # s[j]
  /\ \A row \in rows : \E i \in 1..Len(s) : s[i] = row

(* An answer of a statement, whatever its ORDER BY.                        *)
LEMMA Enumerates ==
  ASSUME NEW rows, IsFiniteSet(rows), NEW s \in SetToSeqs(rows)
  PROVE  ListsOnce(s, rows)
<1> DEFINE n == Cardinality(rows)
<1>1. n \in Nat
  BY FS_CardinalityType
<1>2. s \in [1..n -> rows] /\ \A i, j \in 1..n : i # j => s[i] # s[j]
  BY DEF SetToSeqs
<1>3. IsFiniteSet(1..n) /\ Cardinality(1..n) = n
  BY <1>1, FS_Interval
<1> HIDE DEF n
<1>4. s \in Injection(1..n, rows)
  BY <1>2 DEF Injection, IsInjective
<1>5. s \in Surjection(1..n, rows)
  BY <1>3, <1>4, FS_Injection DEF n
<1>6. \A row \in rows : \E i \in 1..n : s[i] = row
  BY <1>5 DEF Surjection
<1>7. s \in Seq(rows) /\ Len(s) = n
  BY <1>1, <1>2
<1> QED
  BY <1>2, <1>6, <1>7 DEF ListsOnce, n

(* An answer is what toResponses makes of the rows.                        *)
LEMMA ResponsesFacts ==
  ASSUME NEW rows, NEW s \in Seq(rows)
  PROVE  /\ Responses(s) \in Seq({Response(row) : row \in rows})
         /\ Len(Responses(s)) = Len(s)
         /\ \A i \in 1..Len(s) : Responses(s)[i] = Response(s[i])
         /\ ToSet(Responses(s)) = {Response(s[i]) : i \in 1..Len(s)}
<1>1. Len(s) \in Nat /\ \A i \in 1..Len(s) : s[i] \in rows
  OBVIOUS
<1>2. Responses(s) = [i \in 1..Len(s) |-> Response(s[i])]
  BY DEF Responses
<1> QED
  BY <1>1, <1>2 DEF ToSet

(* Each currency of a list of rows has a first row in it.                  *)
LEMMA FirstFacts ==
  ASSUME NEW rows, NEW s \in Seq(rows)
  PROVE  /\ FirstOfEach(s) \subseteq rows
         /\ \A f, g \in FirstOfEach(s) : f.quote_currency = g.quote_currency => f = g
         /\ \A i \in 1..Len(s) : \E j \in 1..Len(s) :
              /\ j <= i /\ s[j] \in FirstOfEach(s)
              /\ s[j].quote_currency = s[i].quote_currency
<1> DEFINE First(i) == \A j \in 1..(i - 1) : s[j].quote_currency # s[i].quote_currency
<1>0. Len(s) \in Nat /\ \A i \in 1..Len(s) : s[i] \in rows
  OBVIOUS
<1>1. FirstOfEach(s) = {s[i] : i \in {i \in 1..Len(s) : First(i)}}
  BY DEF FirstOfEach
<1>2. FirstOfEach(s) \subseteq rows
  BY <1>0, <1>1
<1>3. ASSUME NEW i \in 1..Len(s), NEW j \in 1..Len(s), First(i), First(j),
             s[i].quote_currency = s[j].quote_currency
      PROVE  i = j
  BY <1>0, <1>3
<1> HIDE DEF First
<1>4. \A f, g \in FirstOfEach(s) : f.quote_currency = g.quote_currency => f = g
  BY <1>1, <1>3
<1>5. ASSUME NEW i \in 1..Len(s)
      PROVE  \E j \in 1..Len(s) : /\ j <= i /\ s[j] \in FirstOfEach(s)
                                  /\ s[j].quote_currency = s[i].quote_currency
  <2> DEFINE T == {j \in 1..Len(s) : s[j].quote_currency = s[i].quote_currency}
  <2>1. i \in T /\ T \subseteq Nat
    BY <1>0
  <2>2. PICK j \in T : \A m \in T : j <= m
    BY <2>1, LeastNumber
  <2>3. j <= i /\ j \in 1..Len(s)
    BY <2>1, <2>2
  <2>4. First(j)
    BY <1>0, <2>2, <2>3 DEF First
  <2> QED
    BY <1>1, <2>2, <2>3, <2>4
<1> QED
  BY <1>2, <1>4, <1>5

(* GET /rates shows of any table each stored currency once, in order, and  *)
(* of each a newest row (repository.go:69-92).                             *)
LEMMA LatestIsRight ==
  ASSUME NEW rows, ComparableRows(rows)
  PROVE  /\ ShowsTheLatest(rows)
         /\ \A shown \in LatestRates(rows) : shown \in Seq({Response(row) : row \in rows})
<1> SUFFICES ASSUME NEW shown \in LatestRates(rows)
             PROVE  /\ shown \in Seq({Response(row) : row \in rows})
                    /\ {a.currency : a \in ToSet(shown)} = {row.quote_currency : row \in rows}
                    /\ \A i, j \in 1..Len(shown) :
                         i < j => shown[i].currency < shown[j].currency
                    /\ \A a \in ToSet(shown) :
                         /\ \E row \in rows : a = Response(row)
                         /\ \A row \in rows : row.quote_currency = a.currency =>
                                                row.effective_date <= a.effective_date
  BY DEF ShowsTheLatest
<1>1. PICK s \in Ordered(rows, ByQuoteThenNewest) :
        \E l \in Ordered(FirstOfEach(s), ByQuote) : shown = Responses(l)
  BY DEF LatestRates
<1>2. PICK l \in Ordered(FirstOfEach(s), ByQuote) : shown = Responses(l)
  BY <1>1
<1>3. /\ s \in SetToSeqs(rows)
      /\ \A i, j \in 1..Len(s) : i < j => ~ByQuoteThenNewest(s[j], s[i])
  BY <1>1 DEF Ordered
<1>4. /\ l \in SetToSeqs(FirstOfEach(s))
      /\ \A i, j \in 1..Len(l) : i < j => ~ByQuote(l[j], l[i])
  BY <1>2 DEF Ordered
<1>5. /\ s \in Seq(rows) /\ Len(s) \in Nat
      /\ \A i \in 1..Len(s) : s[i] \in rows
      /\ \A row \in rows : \E i \in 1..Len(s) : s[i] = row
  BY <1>3, Enumerates DEF ComparableRows, ListsOnce
<1> DEFINE firsts == FirstOfEach(s)
<1>6. /\ firsts \subseteq rows /\ IsFiniteSet(firsts)
      /\ \A f, g \in firsts : f.quote_currency = g.quote_currency => f = g
      /\ \A i \in 1..Len(s) : \E j \in 1..Len(s) :
           j <= i /\ s[j] \in firsts /\ s[j].quote_currency = s[i].quote_currency
  BY <1>5, FirstFacts, FS_Subset DEF ComparableRows
<1>7. ListsOnce(l, firsts)
  BY <1>4, <1>6, Enumerates
<1> HIDE DEF firsts
<1>8. /\ Len(l) \in Nat /\ Len(shown) = Len(l)
      /\ \A i \in 1..Len(l) : l[i] \in firsts /\ shown[i] = Response(l[i])
      /\ ToSet(shown) = {Response(l[i]) : i \in 1..Len(l)}
      /\ shown \in Seq({Response(f) : f \in firsts})
  <2>1. l \in Seq(firsts) /\ Len(l) \in Nat /\ \A i \in 1..Len(l) : l[i] \in firsts
    BY <1>7 DEF ListsOnce
  <2>2. /\ Len(Responses(l)) = Len(l)
        /\ \A i \in 1..Len(l) : Responses(l)[i] = Response(l[i])
        /\ ToSet(Responses(l)) = {Response(l[i]) : i \in 1..Len(l)}
        /\ Responses(l) \in Seq({Response(f) : f \in firsts})
    BY <2>1, ResponsesFacts
  <2> QED
    BY <1>2, <2>1, <2>2
<1>9. \A i \in 1..Len(l) : l[i] \in rows
  BY <1>6, <1>8
<1>10. \A row \in rows : /\ Response(row).currency = row.quote_currency
                         /\ Response(row).effective_date = row.effective_date
  BY DEF Response
<1>11. ASSUME NEW row \in rows, NEW f \in firsts, f.quote_currency = row.quote_currency
       PROVE  row.effective_date <= f.effective_date
  <2>1. PICK i \in 1..Len(s) : s[i] = row
    BY <1>5
  <2>2. PICK j \in 1..Len(s) : j <= i /\ s[j] \in firsts /\ s[j].quote_currency = f.quote_currency
    BY <1>6, <1>11, <2>1
  <2>3. s[j] = f
    BY <1>6, <2>2
  <2>4. CASE i = j
    BY <1>11, <2>1, <2>3, <2>4 DEF ComparableRows
  <2>5. CASE j < i
    <3>1. ~ByQuoteThenNewest(s[i], s[j])
      BY <1>3, <2>5
    <3>2. ~(row.effective_date > f.effective_date)
      BY <1>11, <2>1, <2>3, <3>1 DEF ByQuoteThenNewest, ByNewest
    <3>3. row.effective_date \in Int /\ f.effective_date \in Int
      BY <1>6 DEF ComparableRows
    <3> QED
      BY <3>2, <3>3
  <2> QED
    BY <2>2, <2>4, <2>5
<1>12. {a.currency : a \in ToSet(shown)} = {row.quote_currency : row \in rows}
  <2>1. ASSUME NEW a \in ToSet(shown) PROVE \E row \in rows : a.currency = row.quote_currency
    BY <1>8, <1>9, <1>10
  <2>2. ASSUME NEW row \in rows PROVE \E a \in ToSet(shown) : a.currency = row.quote_currency
    <3>1. PICK i \in 1..Len(s) : s[i] = row
      BY <1>5
    <3>2. PICK f \in firsts : f.quote_currency = row.quote_currency
      BY <1>6, <3>1
    <3>3. PICK m \in 1..Len(l) : l[m] = f
      BY <1>7 DEF ListsOnce
    <3> QED
      BY <1>8, <1>9, <1>10, <3>2, <3>3
  <2> QED
    BY <2>1, <2>2
<1>13. ASSUME NEW i \in 1..Len(shown), NEW j \in 1..Len(shown), i < j
       PROVE  shown[i].currency < shown[j].currency
  <2>1. ~(l[j].quote_currency < l[i].quote_currency)
    BY <1>4, <1>8, <1>13 DEF ByQuote
  <2>2. l[i] # l[j]
    BY <1>7, <1>8, <1>13 DEF ListsOnce
  <2>3. l[i].quote_currency # l[j].quote_currency
    BY <1>6, <1>8, <1>13, <2>2
  <2>4. l[i].quote_currency \in Int /\ l[j].quote_currency \in Int
    BY <1>8, <1>9, <1>13 DEF ComparableRows
  <2>5. shown[i].currency = l[i].quote_currency /\ shown[j].currency = l[j].quote_currency
    BY <1>8, <1>9, <1>10, <1>13
  <2> QED
    BY <2>1, <2>3, <2>4, <2>5
<1>14. ASSUME NEW a \in ToSet(shown)
       PROVE  /\ \E row \in rows : a = Response(row)
              /\ \A row \in rows : row.quote_currency = a.currency =>
                                     row.effective_date <= a.effective_date
  <2>1. PICK i \in 1..Len(l) : a = Response(l[i])
    BY <1>8
  <2> QED
    BY <1>8, <1>9, <1>10, <1>11, <2>1
<1>15. shown \in Seq({Response(row) : row \in rows})
  BY <1>6, <1>8
<1> QED
  BY <1>12, <1>13, <1>14, <1>15

(* A history, of any table and for any bounds, has no gap (repository.go:  *)
(* 95-117).                                                                *)
LEMMA HistoryIsRight ==
  ASSUME NEW rows, ComparableRows(rows), NEW quote, NEW from, NEW to, NEW limit \in Int
  PROVE  ShowsHistory(rows, quote, from, to, limit)
<1> DEFINE all  == {row \in rows : Matches(row, quote, from, to)}
           most == IF limit \in 1..MaxLimit THEN limit ELSE DefaultLimit
<1>1. Clamp(limit) = most /\ most \in Nat
  BY LimitAssumption DEF Clamp
<1>2. ComparableRows(all) /\ Cardinality(all) \in Nat
  BY FS_Subset, FS_CardinalityType DEF ComparableRows
<1>3. ASSUME NEW shown \in History(rows, quote, from, to, limit)
      PROVE  /\ Len(shown) = IF Cardinality(all) < most THEN Cardinality(all) ELSE most
             /\ ToSet(shown) \subseteq {Response(row) : row \in all}
             /\ \A i, j \in 1..Len(shown) :
                  i < j => shown[i].effective_date >= shown[j].effective_date
             /\ \A row \in all : Response(row) \notin ToSet(shown) =>
                  \A a \in ToSet(shown) : row.effective_date <= a.effective_date
  <2>1. PICK s \in Ordered(all, ByNewest) :
          shown = Responses(SubSeq(s, 1, IF Clamp(limit) < Len(s) THEN Clamp(limit) ELSE Len(s)))
    BY DEF History
  <2> DEFINE m == IF most < Len(s) THEN most ELSE Len(s)
             l == SubSeq(s, 1, m)
  <2> HIDE DEF all, most
  <2>2. s \in SetToSeqs(all) /\ \A i, j \in 1..Len(s) : i < j => ~ByNewest(s[j], s[i])
    BY <2>1 DEF Ordered
  <2>3. /\ s \in Seq(all) /\ Len(s) = Cardinality(all)
        /\ \A row \in all : \E i \in 1..Len(s) : s[i] = row
    BY <1>2, <2>2, Enumerates DEF ComparableRows, ListsOnce
  <2>4. m \in Nat /\ m <= Len(s) /\ \A i \in 1..Len(s) : s[i] \in all
    BY <1>1, <1>2, <2>3
  <2>5. l \in Seq(all) /\ Len(l) = m /\ \A i \in 1..m : l[i] = s[i]
    BY <2>3, <2>4
  <2>6. shown = Responses(l)
    BY <1>1, <2>1
  <2> HIDE DEF l
  <2>7. /\ Len(shown) = m
        /\ \A i \in 1..m : shown[i] = Response(s[i])
        /\ ToSet(shown) = {Response(s[i]) : i \in 1..m}
    <3>1. /\ Len(shown) = Len(l)
          /\ \A i \in 1..Len(l) : shown[i] = Response(l[i])
          /\ ToSet(shown) = {Response(l[i]) : i \in 1..Len(l)}
      BY <2>5, <2>6, ResponsesFacts
    <3> QED
      BY <2>5, <3>1
  <2>8. Len(shown) = IF Cardinality(all) < most THEN Cardinality(all) ELSE most
    BY <1>1, <1>2, <2>3, <2>7
  <2> HIDE DEF m
  <2>9. \A row \in all : /\ Response(row).effective_date = row.effective_date
                         /\ row.effective_date \in Int
    BY <1>2 DEF Response, ComparableRows
  <2>10. ASSUME NEW i \in 1..Len(s), NEW j \in 1..Len(s), i < j
         PROVE  s[i].effective_date >= s[j].effective_date
    <3>1. ~(s[j].effective_date > s[i].effective_date)
      BY <2>2, <2>10 DEF ByNewest
    <3> QED
      BY <2>4, <2>9, <3>1
  <2>11. ToSet(shown) \subseteq {Response(row) : row \in all}
    BY <2>4, <2>7
  <2>12. ASSUME NEW i \in 1..Len(shown), NEW j \in 1..Len(shown), i < j
         PROVE  shown[i].effective_date >= shown[j].effective_date
    <3>1. i \in 1..Len(s) /\ j \in 1..Len(s) /\ i \in 1..m /\ j \in 1..m
      BY <2>3, <2>4, <2>7, <2>12
    <3> QED
      BY <2>4, <2>7, <2>9, <2>10, <2>12, <3>1
  <2>13. ASSUME NEW row \in all, Response(row) \notin ToSet(shown), NEW a \in ToSet(shown)
         PROVE  row.effective_date <= a.effective_date
    <3>1. PICK i \in 1..m : a = Response(s[i])
      BY <2>7
    <3>2. PICK j \in 1..Len(s) : s[j] = row
      BY <2>3
    <3>3. j \notin 1..m
      BY <2>7, <2>13, <3>2
    <3>4. i \in 1..Len(s) /\ i < j
      BY <2>3, <2>4, <3>3
    <3>5. s[i].effective_date >= row.effective_date
      BY <2>10, <3>2, <3>4
    <3>6. a.effective_date = s[i].effective_date /\ s[i].effective_date \in Int
      BY <2>4, <2>9, <3>1, <3>4
    <3> QED
      BY <2>9, <3>5, <3>6
  <2> QED
    BY <2>8, <2>11, <2>12, <2>13
<1> QED
  BY <1>3 DEF ShowsHistory

(* There are finitely many keys.                                           *)
LEMMA RateKeysFinite == IsFiniteSet(RateKey)
<1> DEFINE P == Currency \X Date
           f == [p \in P |-> [cur |-> p[1], date |-> p[2]]]
<1>1. IsFiniteSet(P)
  BY ColumnAssumption, FS_Product
<1>2. f \in [P -> RateKey]
  BY DEF RateKey
<1>3. ASSUME NEW k \in RateKey PROVE \E p \in P : f[p] = k
  <2>1. <<k.cur, k.date>> \in P /\ k = [cur |-> k.cur, date |-> k.date]
    BY DEF RateKey
  <2>2. f[<<k.cur, k.date>>] = k
    BY <2>1
  <2> QED
    BY <2>1, <2>2
<1> HIDE DEF P, f
<1>4. f \in Surjection(P, RateKey)
  BY <1>2, <1>3 DEF Surjection
<1> QED
  BY <1>1, <1>4, FS_Surjection

(* The rows the queries see of any table: finitely many, one under each    *)
(* key that has one.                                                       *)
LEMMA TableRows ==
  ASSUME NEW t
  PROVE  /\ ComparableRows(RowsOf(t))
         /\ \A k \in RateKey : t[k] # NoRow =>
              \E row \in RowsOf(t) :
                /\ row.quote_currency = k.cur /\ row.effective_date = k.date
                /\ \A other \in RowsOf(t) :
                     other.quote_currency = k.cur /\ other.effective_date = k.date => other = row
<1> DEFINE K == {k \in RateKey : t[k] # NoRow}
           Of(k) == [id |-> t[k].id, quote_currency |-> k.cur, rate |-> t[k].rate,
                     effective_date |-> k.date, source |-> "bank.lv"]
           f == [k \in K |-> Of(k)]
<1>1. RowsOf(t) = {Of(k) : k \in K}
  BY DEF RowsOf
<1>2. IsFiniteSet(K)
  BY RateKeysFinite, FS_Subset
<1>3. \A k \in K : Of(k).quote_currency = k.cur /\ Of(k).effective_date = k.date
  OBVIOUS
<1>4. \A k \in RateKey : k.cur \in Int /\ k.date \in Int
  BY ColumnAssumption DEF RateKey
<1>5. \A k, l \in RateKey : k.cur = l.cur /\ k.date = l.date => k = l
  BY DEF RateKey
<1>6. \A k \in K : k \in RateKey
  OBVIOUS
<1> HIDE DEF K, Of
<1>7. f \in Surjection(K, RowsOf(t))
  BY <1>1 DEF Surjection
<1>8. IsFiniteSet(RowsOf(t))
  BY <1>2, <1>7, FS_Surjection
<1>9. ComparableRows(RowsOf(t))
  BY <1>1, <1>3, <1>4, <1>6, <1>8 DEF ComparableRows
<1>10. ASSUME NEW k \in RateKey, t[k] # NoRow
       PROVE  /\ Of(k) \in RowsOf(t)
              /\ Of(k).quote_currency = k.cur /\ Of(k).effective_date = k.date
              /\ \A other \in RowsOf(t) :
                   other.quote_currency = k.cur /\ other.effective_date = k.date => other = Of(k)
  <2>1. k \in K
    BY <1>10 DEF K
  <2> QED
    BY <1>1, <1>3, <1>5, <1>6, <2>1
<1> QED
  BY <1>9, <1>10

(* GET /rates stays complete while batches are committed (repository.go:   *)
(* 69-92).                                                                 *)
THEOREM LatestStaysNewest == ServiceSpec => LatestIsNewest
<1>1. ShowsTheLatest(RowsOf(table'))
  BY TableRows, LatestIsRight
<1> QED
  BY <1>1, PTL DEF LatestIsNewest

(* So does every history (repository.go:95-117).                           *)
THEOREM HistoryStaysComplete == ServiceSpec => HistoryIsComplete
<1>1. ASSUME NEW k \in RateKey, NEW from, NEW to, NEW limit \in -1..(MaxLimit + 1)
      PROVE  ShowsHistory(RowsOf(table'), k.cur, from, to, limit)
  <2>1. limit \in Int
    BY LimitAssumption
  <2> QED
    BY <2>1, TableRows, HistoryIsRight
<1>2. [\A k \in RateKey : table'[k] # table[k] =>
         \A from, to \in Date \cup {NoDate}, limit \in -1..(MaxLimit + 1) :
           ShowsHistory(RowsOf(table'), k.cur, from, to, limit)]_serviceVars
  BY <1>1
<1> QED
  BY <1>2, PTL DEF HistoryIsComplete

(* After a 200 the two queries read what was stored (README.md:69).        *)
THEOREM FetchedIsRead == ServiceSpec => []ReadYourFetch
<1>1. ASSUME ServiceInv, OkMeansStored, NEW c \in Call, answer[c] = "200", NEW k \in SavedAt(c)
      PROVE  /\ \A shown \in LatestRates(RowsOf(table)) :
                  \E i \in 1..Len(shown) : /\ shown[i].currency = k.cur
                                           /\ shown[i].effective_date >= k.date
             /\ \A shown \in History(RowsOf(table), k.cur, k.date, k.date, 0) :
                  Len(shown) = 1
  <2> DEFINE rows == RowsOf(table)
  <2>1. k \in RateKey
    BY <1>1, KeyOfSaved DEF ServiceInv, IngestInv, SavedAt
  <2>2. table[k] # NoRow
    BY <1>1 DEF OkMeansStored
  <2>3. PICK row \in rows :
          /\ row.quote_currency = k.cur /\ row.effective_date = k.date
          /\ \A other \in rows :
               other.quote_currency = k.cur /\ other.effective_date = k.date => other = row
    BY <2>1, <2>2, TableRows
  <2>4. ComparableRows(rows) /\ k.date \in Int /\ k.date # NoDate
    BY <2>1, TableRows, ColumnAssumption DEF RateKey
  <2> HIDE DEF rows
  <2>5. ASSUME NEW shown \in LatestRates(rows)
        PROVE  \E i \in 1..Len(shown) : /\ shown[i].currency = k.cur
                                        /\ shown[i].effective_date >= k.date
    <3>1. PICK a \in ToSet(shown) : a.currency = row.quote_currency
      <4>1. {a.currency : a \in ToSet(shown)} = {r.quote_currency : r \in rows}
        BY <2>4, <2>5, LatestIsRight DEF ShowsTheLatest
      <4> QED
        BY <4>1
    <3>2. row.effective_date <= a.effective_date /\ \E r \in rows : a = Response(r)
      BY <2>4, <2>5, <3>1, LatestIsRight DEF ShowsTheLatest
    <3>3. a.effective_date \in Int
      BY <2>4, <3>2 DEF ComparableRows, Response
    <3>4. shown \in Seq({Response(r) : r \in rows})
      BY <2>4, <2>5, LatestIsRight
    <3>5. PICK i \in 1..Len(shown) : shown[i] = a
      BY <3>4 DEF ToSet
    <3> QED
      BY <2>3, <2>4, <3>1, <3>2, <3>3, <3>5
  <2>6. ASSUME NEW shown \in History(rows, k.cur, k.date, k.date, 0)
        PROVE  Len(shown) = 1
    <3> DEFINE all == {r \in rows : Matches(r, k.cur, k.date, k.date)}
    <3>1. all = {row}
      <4>1. \A r \in rows : r.effective_date \in Int
        BY <2>4 DEF ComparableRows
      <4>2. \A r \in rows : Matches(r, k.cur, k.date, k.date) <=>
                              r.quote_currency = k.cur /\ r.effective_date = k.date
        BY <2>4, <4>1 DEF Matches
      <4> QED
        BY <2>3, <4>2
    <3>2. Cardinality(all) = 1
      BY <3>1, FS_Singleton
    <3>3. Len(shown) = IF Cardinality(all) < DefaultLimit THEN Cardinality(all) ELSE DefaultLimit
      <4>1. 0 \in Int /\ 0 \notin 1..MaxLimit
        BY LimitAssumption
      <4>2. ShowsHistory(rows, k.cur, k.date, k.date, 0)
        BY <2>4, <4>1, HistoryIsRight
      <4> QED
        BY <2>6, <4>1, <4>2 DEF ShowsHistory
    <3> QED
      BY <3>2, <3>3, LimitAssumption
  <2> QED
    BY <2>5, <2>6 DEF rows
<1>2. ServiceInv /\ OkMeansStored => ReadYourFetch
  BY <1>1 DEF ReadYourFetch
<1> QED
  BY ServiceInvariant, OkIsStored, <1>2, PTL

=============================================================================
