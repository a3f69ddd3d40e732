--------------------------- MODULE IngestionProofs ---------------------------
(* Theorems about Ingestion, for any number of calls, any set of           *)
(* currencies, any lists and any limit of concurrency.                     *)
EXTENDS Ingestion, TLAPS, FiniteSetTheorems, LoopLemmas

(* The inductive invariant: types and bookkeeping.                         *)
IngestInv == IngestTypeOK /\ PoolInvariant

(* The invariant holds before the first call.                              *)
LEMMA InitEstablishesInv == IngestInit => IngestInv
<1> SUFFICES ASSUME IngestInit PROVE IngestInv
  OBVIOUS
<1>1. IngestTypeOK
  BY DEF IngestInit, IngestTypeOK, Stage, TaskStage, Error, Outcome, Failure
<1>2. ASSUME NEW c \in Call PROVE PoolOK(c)
  <2>1. Started(c) = {} /\ Done(c) = {} /\ Reported(c) = {}
    BY DEF IngestInit, Started, Done, Reported
  <2>2. Cardinality(Done(c)) = 0
    BY <2>1, FS_EmptySet
  <2> QED
    BY <2>1, <2>2 DEF IngestInit, PoolOK
<1> QED
  BY <1>1, <1>2 DEF IngestInv, PoolInvariant

(* The type invariant is inductive together with the bounds of next.       *)
LEMMA TypeStep == ASSUME IngestInv, [IngestNext]_ingestVars PROVE IngestTypeOK'
<1> USE DEF IngestInv, IngestTypeOK
<1>1. ASSUME NEW c \in Call, NoCurrencies(c) PROVE IngestTypeOK'
  BY <1>1 DEF NoCurrencies, Stage, Error
<1>2. ASSUME NEW c \in Call, NEW l \in Lists, FetchAndStore(c, l) PROVE IngestTypeOK'
  BY <1>2, ListsAssumption DEF FetchAndStore, Stage
<1>3. ASSUME NEW c \in Call, Go(c) PROVE IngestTypeOK'
  <2>1. list[c][next[c]] \in Currency
    BY <1>3 DEF Go, PoolInvariant, PoolOK
  <2> QED
    BY <1>3, <2>1 DEF Go, Stage, TaskStage
<1>4. ASSUME NEW c \in Call, NEW k \in Currency, FetchFails(c, k) PROVE IngestTypeOK'
  BY <1>4 DEF FetchFails, FetchReturns, TaskStage
<1>5. ASSUME NEW c \in Call, NEW k \in Currency, Send(c, k) PROVE IngestTypeOK'
  <2>1. [cur |-> k, ver |-> held[c][k]] \in Outcome
    BY DEF Outcome
  <2> QED
    BY <1>5, <2>1 DEF Send, TaskStage
<1>6. ASSUME NEW c \in Call, NEW k \in Currency, NEW v \in Version, FetchOk(c, k, v)
      PROVE IngestTypeOK'
  BY <1>6 DEF FetchOk, FetchReturns, TaskStage
<1>7. ASSUME NEW c \in Call, WaitReturns(c) PROVE IngestTypeOK'
  BY <1>7 DEF WaitReturns, Stage, Error
<1>8. ASSUME NEW c \in Call, UpsertOk(c) PROVE IngestTypeOK'
  BY <1>8 DEF UpsertOk, Stage, Error
<1>9. ASSUME NEW c \in Call, UpsertFails(c) PROVE IngestTypeOK'
  BY <1>9 DEF UpsertFails, Stage, Error
<1>10. ASSUME NEW c \in Call, UpsertCancelled(c) PROVE IngestTypeOK'
  BY <1>10 DEF UpsertCancelled, Stage, Error
<1>11. ASSUME NEW c \in Call, Cancel(c) PROVE IngestTypeOK'
  BY <1>11 DEF Cancel
<1>12. ASSUME NEW C, Die(C) PROVE IngestTypeOK'
  BY <1>12 DEF Die, Stage
<1>13. ASSUME UNCHANGED ingestVars PROVE IngestTypeOK'
  BY <1>13 DEF ingestVars
<1> QED
  BY <1>1, <1>2, <1>3, <1>4, <1>5, <1>6, <1>7, <1>8, <1>9, <1>10, <1>11, <1>12, <1>13
     DEF IngestNext, AllEnded

(* What a step leaves alone keeps its bookkeeping.                         *)
LEMMA PoolFrame ==
  ASSUME NEW d \in Call, PoolOK(d),
         list'[d] = list[d], next'[d] = next[d], task'[d] = task[d],
         outcomes'[d] = outcomes[d], err'[d] = err[d],
         pc'[d] = pc[d] \/ pc'[d] = "dead"
  PROVE  PoolOK(d)'
<1>1. Started(d)' = Started(d) /\ Running(d)' = Running(d) /\ Done(d)' = Done(d)
  BY DEF Started, Running, Done
<1>2. Reported(d)' = Reported(d) /\ (HasSaved(d)' <=> HasSaved(d))
  BY DEF Reported, HasSaved, IsRate, Failure
<1> QED
  BY <1>1, <1>2 DEF PoolOK

(* The goroutines of a call are finitely many, as its list is finite.      *)
LEMMA DoneIsFinite ==
  ASSUME IngestInv, NEW c \in Call
  PROVE  /\ IsFiniteSet(Started(c)) /\ IsFiniteSet(Done(c))
         /\ Done(c) \subseteq Started(c)
         /\ Cardinality(Done(c)) \in Nat
<1>1. Done(c) \subseteq Started(c)
  BY DEF Done, Started
<1>2. IsFiniteSet(Started(c))
  <2> DEFINE n == next[c] - 1
             f == [i \in 1..n |-> list[c][i]]
  <2>1. n \in Nat /\ Started(c) = {list[c][i] : i \in 1..n}
    BY DEF IngestInv, IngestTypeOK, PoolInvariant, PoolOK
  <2>2. IsFiniteSet(1..n)
    BY <2>1, FS_Interval
  <2>3. f \in Surjection(1..n, Started(c))
    BY <2>1 DEF Surjection
  <2> QED
    BY <2>2, <2>3, FS_Surjection
<1>3. IsFiniteSet(Done(c)) /\ Cardinality(Done(c)) \in Nat
  BY <1>1, <1>2, FS_Subset, FS_CardinalityType
<1> QED
  BY <1>1, <1>2, <1>3

(* Every step keeps the bookkeeping of the pool.                           *)
LEMMA PoolStep == ASSUME IngestInv, [IngestNext]_ingestVars PROVE PoolInvariant'
<1> SUFFICES ASSUME NEW d \in Call PROVE PoolOK(d)'
  BY DEF PoolInvariant
<1> USE DEF IngestInv, IngestTypeOK
<1>0. PoolOK(d) /\ pc[d] \in Stage
  BY DEF PoolInvariant
<1>1. ASSUME NEW c \in Call, NoCurrencies(c) PROVE PoolOK(d)'
  <2>1. CASE d # c
    BY <1>1, <1>0, <2>1, PoolFrame DEF NoCurrencies
  <2>2. CASE d = c
    <3>1. Running(d) = {}
      <4>1. next[d] = 1
        BY <1>0, <1>1, <2>2 DEF NoCurrencies, PoolOK
      <4>2. Started(d) = {}
        BY <1>0, <4>1 DEF PoolOK
      <4> QED
        BY <4>2 DEF Started, Running
    <3>2. Started(d)' = Started(d) /\ Running(d)' = Running(d) /\ Done(d)' = Done(d)
          /\ Reported(d)' = Reported(d)
      BY <1>1 DEF NoCurrencies, Started, Running, Done, Reported
    <3> QED
      BY <1>0, <1>1, <2>2, <3>1, <3>2 DEF NoCurrencies, PoolOK
  <2> QED
    BY <2>1, <2>2
<1>2. ASSUME NEW c \in Call, NEW l \in Lists, FetchAndStore(c, l) PROVE PoolOK(d)'
  <2>1. CASE d # c
    BY <1>2, <1>0, <2>1, PoolFrame DEF FetchAndStore
  <2>2. CASE d = c
    <3>1. l \in Seq(Currency) /\ Len(l) \in Nat \ {0} /\ next[d] = 1 /\ Started(d) = {}
      BY <1>0, <1>2, <2>2, ListsAssumption DEF FetchAndStore, PoolOK
    <3>2. Started(d)' = Started(d) /\ Done(d)' = Done(d) /\ Reported(d)' = Reported(d)
      BY <1>2 DEF FetchAndStore, Started, Done, Reported
    <3> QED
      BY <1>0, <1>2, <2>2, <3>1, <3>2 DEF FetchAndStore, PoolOK
  <2> QED
    BY <2>1, <2>2
<1>3. ASSUME NEW c \in Call, Go(c) PROVE PoolOK(d)'
  <2>1. CASE d # c
    BY <1>3, <1>0, <2>1, PoolFrame DEF Go
  <2>2. CASE d = c
    <3> DEFINE k == list[c][next[c]]
    <3>1. k \in Currency /\ next[c] \in 1..Len(list[c])
      BY <1>0, <1>3, <2>2 DEF Go, PoolOK
    <3>2. k \notin Started(c)
      <4>1. list[c] \in Lists
        BY <1>0, <1>3, <2>2, <3>1 DEF PoolOK
      <4>2. \A i, j \in 1..Len(list[c]) : list[c][i] = list[c][j] => i = j
        BY <4>1, ListsAssumption
      <4>3. \A i \in 1..(next[c] - 1) : i \in 1..Len(list[c]) /\ i # next[c]
        BY <3>1
      <4>4. \A i \in 1..(next[c] - 1) : list[c][i] # k
        BY <3>1, <4>2, <4>3
      <4>5. Started(c) = {list[c][i] : i \in 1..(next[c] - 1)}
        BY <1>0, <2>2 DEF PoolOK
      <4> QED
        BY <4>4, <4>5
    <3>3. Started(c)' = Started(c) \cup {k}
      BY <1>3, <3>1 DEF Go, Started
    <3>4. Started(c)' = {list[c][i] : i \in 1..next[c]}
      BY <1>0, <2>2, <3>1, <3>3 DEF PoolOK
    <3>5. Done(c)' = Done(c)
      BY <1>3, <3>1, <3>2 DEF Go, Done, Started
    <3>6. Reported(c)' = Reported(c)
      BY <1>3 DEF Go, Reported
    <3> QED
      BY <1>0, <1>3, <2>2, <3>1, <3>4, <3>5, <3>6 DEF Go, PoolOK
  <2> QED
    BY <2>1, <2>2
<1>4. ASSUME NEW c \in Call, NEW k \in Currency, NEW v, FetchReturns(c, k, v)
      PROVE  PoolOK(d)'
  <2>1. CASE d # c
    BY <1>4, <1>0, <2>1, PoolFrame DEF FetchReturns
  <2>2. CASE d = c
    <3>1. Started(c)' = Started(c) /\ Done(c)' = Done(c)
      BY <1>4 DEF FetchReturns, Started, Done
    <3>2. Reported(c)' = Reported(c)
      BY <1>4 DEF FetchReturns, Reported
    <3> QED
      BY <1>0, <1>4, <2>2, <3>1, <3>2 DEF FetchReturns, PoolOK, Pooling
  <2> QED
    BY <2>1, <2>2
<1>5. ASSUME NEW c \in Call, NEW k \in Currency, Send(c, k) PROVE PoolOK(d)'
  <2>1. CASE d # c
    BY <1>5, <1>0, <2>1, PoolFrame DEF Send
  <2>2. CASE d = c
    <3>1. Started(c)' = Started(c) /\ Done(c)' = Done(c) \cup {k} /\ k \notin Done(c)
      BY <1>5 DEF Send, Started, Done
    <3>2. Cardinality(Done(c)') = Cardinality(Done(c)) + 1
      BY <3>1, DoneIsFinite, FS_AddElement
    <3>3. Len(outcomes'[c]) = Len(outcomes[c]) + 1
      BY <1>5 DEF Send
    <3>4. Reported(c)' = Reported(c) \cup {k}
      <4> DEFINE o == [cur |-> k, ver |-> held[c][k]]
      <4>1. /\ outcomes'[c] = Append(outcomes[c], o)
            /\ outcomes[c] \in Seq(Outcome) /\ o \in Outcome
        BY <1>5 DEF Send, Outcome
      <4>2. \A i \in 1..Len(outcomes[c]) : outcomes'[c][i] = outcomes[c][i]
        BY <4>1
      <4>3. outcomes'[c][Len(outcomes[c]) + 1] = o /\ o.cur = k
        BY <4>1
      <4> QED
        BY <3>3, <4>1, <4>2, <4>3 DEF Reported
    <3> QED
      BY <1>0, <1>5, <2>2, <3>1, <3>2, <3>3, <3>4 DEF Send, PoolOK, Pooling
  <2> QED
    BY <2>1, <2>2
<1>6. ASSUME NEW c \in Call,
             WaitReturns(c) \/ UpsertOk(c) \/ UpsertFails(c) \/ UpsertCancelled(c)
      PROVE  PoolOK(d)'
  <2>1. CASE d # c
    BY <1>6, <1>0, <2>1, PoolFrame DEF WaitReturns, UpsertOk, UpsertFails, UpsertCancelled
  <2>2. CASE d = c
    <3>1. /\ Started(d)' = Started(d) /\ Running(d)' = Running(d) /\ Done(d)' = Done(d)
          /\ Reported(d)' = Reported(d) /\ (HasSaved(d)' <=> HasSaved(d))
      BY <1>6 DEF WaitReturns, UpsertOk, UpsertFails, UpsertCancelled, Started, Running,
                  Done, Reported, HasSaved, IsRate, Failure
    <3>2. Running(d) = {}
      BY <1>0, <1>6, <2>2 DEF WaitReturns, UpsertOk, UpsertFails, UpsertCancelled, PoolOK
    <3>3. list'[d] = list[d] /\ next'[d] = next[d] /\ outcomes'[d] = outcomes[d]
      BY <1>6 DEF WaitReturns, UpsertOk, UpsertFails, UpsertCancelled
    <3>4. list[d] # <<>> /\ next[d] = Len(list[d]) + 1
      BY <1>0, <1>6, <2>2 DEF WaitReturns, UpsertOk, UpsertFails, UpsertCancelled, PoolOK
    <3>5. pc'[d] = "returned" \/ (pc'[d] = "upsert" /\ HasSaved(d))
      BY <1>6, <2>2 DEF WaitReturns, UpsertOk, UpsertFails, UpsertCancelled
    <3> QED
      BY <1>0, <3>1, <3>2, <3>3, <3>4, <3>5 DEF PoolOK
  <2> QED
    BY <2>1, <2>2
<1>7. ASSUME NEW c \in Call, Cancel(c) PROVE PoolOK(d)'
  BY <1>7, <1>0, PoolFrame DEF Cancel
<1>8. ASSUME NEW C, Die(C) PROVE PoolOK(d)'
  BY <1>8, <1>0, PoolFrame DEF Die
<1>9. ASSUME UNCHANGED ingestVars PROVE PoolOK(d)'
  BY <1>9, <1>0, PoolFrame DEF ingestVars
<1> QED
  BY <1>1, <1>2, <1>3, <1>4, <1>5, <1>6, <1>7, <1>8, <1>9
     DEF IngestNext, AllEnded, FetchFails, FetchOk


(* The inductive invariant.                                                *)
THEOREM IngestInvariant == IngestSpec => []IngestInv
<1>1. IngestInv /\ [IngestNext]_ingestVars => IngestInv'
  BY TypeStep, PoolStep DEF IngestInv
<1> QED
  BY InitEstablishesInv, <1>1, PTL DEF IngestSpec

(* Types, for every value of the constants.                                *)
THEOREM IngestTypeCorrect == IngestSpec => []IngestTypeOK
<1>1. IngestInv => IngestTypeOK
  BY DEF IngestInv
<1> QED
  BY IngestInvariant, <1>1, PTL

(* The bookkeeping of the pool: goroutines are started in list order, and  *)
(* outcomes are those of the ended ones, one each (service.go:71-99).      *)
THEOREM PoolIsKept == IngestSpec => []PoolInvariant
<1>1. IngestInv => PoolInvariant
  BY DEF IngestInv
<1> QED
  BY IngestInvariant, <1>1, PTL

(* An interval 1..n has n elements.                                        *)
LEMMA IntervalCardinality ==
  ASSUME NEW n \in Nat
  PROVE  IsFiniteSet(1..n) /\ Cardinality(1..n) = n
  BY FS_Interval

(* A duplicate-free list has as many elements as its length says.          *)
LEMMA ListedCardinality ==
  ASSUME NEW l \in Lists \cup {<<>>}, l # <<>>
  PROVE  Cardinality({l[i] : i \in 1..Len(l)}) = Len(l)
<1> DEFINE S == {l[i] : i \in 1..Len(l)}
           f == [i \in 1..Len(l) |-> l[i]]
<1>1. l \in Lists /\ l \in Seq(Currency) /\ Len(l) \in Nat
  BY ListsAssumption
<1>2. f \in Surjection(1..Len(l), S)
  BY DEF Surjection
<1>3. f \in Injection(1..Len(l), S)
  <2>1. \A i, j \in 1..Len(l) : l[i] = l[j] => i = j
    BY <1>1, ListsAssumption
  <2> QED
    BY <1>2, <2>1 DEF Injection, Surjection, IsInjective
<1>4. IsFiniteSet(1..Len(l)) /\ Cardinality(1..Len(l)) = Len(l)
  BY <1>1, IntervalCardinality
<1> QED
  BY <1>2, <1>3, <1>4, FS_Surjection

(* A goroutine is never blocked on the channel: it is itself among those   *)
(* started and not among those that have reported, so the buffer, as large *)
(* as the list, is not full.                                               *)
THEOREM SendsNeverBlock == IngestSpec => []SendNeverBlocks
<1>1. ASSUME IngestInv, NEW c \in Call, NEW k \in Currency, task[c][k] = "sending"
      PROVE  Len(outcomes[c]) < ChannelCapacity(c)
  <2> DEFINE S == {list[c][i] : i \in 1..Len(list[c])}
  <2>1. PoolOK(c)
    BY <1>1 DEF IngestInv, PoolInvariant
  <2>2. Started(c) = {list[c][i] : i \in 1..(next[c] - 1)} /\ next[c] \in 1..(Len(list[c]) + 1)
    BY <2>1 DEF PoolOK
  <2>3. k \in Started(c) /\ k \notin Done(c)
    BY <1>1 DEF Started, Done
  <2>4. list[c] \in Seq(Currency) /\ Len(list[c]) \in Nat
    BY <1>1 DEF IngestInv, IngestTypeOK
  <2>5. Started(c) \subseteq S
    BY <2>2, <2>4
  <2>6. list[c] # <<>>
    BY <2>2, <2>3, <2>4
  <2>7. Cardinality(S) = Len(list[c])
    BY <2>1, <2>6, ListedCardinality DEF PoolOK
  <2>8. IsFiniteSet(S)
    <3> DEFINE f == [i \in 1..Len(list[c]) |-> list[c][i]]
    <3>1. f \in Surjection(1..Len(list[c]), S)
      BY DEF Surjection
    <3> QED
      BY <3>1, <2>4, FS_Surjection, IntervalCardinality
  <2>9. Done(c) \subseteq S /\ Done(c) # S
    BY <1>1, <2>3, <2>5, DoneIsFinite
  <2>10. Cardinality(Done(c)) <= Cardinality(S) /\ Cardinality(Done(c)) # Cardinality(S)
    BY <2>8, <2>9, FS_Subset
  <2>11. Cardinality(Done(c)) \in Nat /\ Len(outcomes[c]) = Cardinality(Done(c))
    BY <1>1, <2>1, DoneIsFinite DEF PoolOK
  <2> QED
    BY <2>4, <2>7, <2>10, <2>11 DEF ChannelCapacity
<1>2. IngestInv => SendNeverBlocks
  BY <1>1 DEF SendNeverBlocks
<1> QED
  BY IngestInvariant, <1>2, PTL


(* With all goroutines started and none running, the outcomes are those of *)
(* the listed currencies, one of each.                                     *)
LEMMA AllReported ==
  ASSUME IngestInv, NEW c \in Call,
         list[c] # <<>>, next[c] = Len(list[c]) + 1, Running(c) = {}
  PROVE  /\ Len(outcomes[c]) = Len(list[c]) /\ Len(list[c]) \in Nat \ {0}
         /\ Reported(c) = {list[c][i] : i \in 1..Len(list[c])}
         /\ \A i, j \in 1..Len(outcomes[c]) :
              outcomes[c][i].cur = outcomes[c][j].cur => i = j
<1>1. PoolOK(c)
  BY DEF IngestInv, PoolInvariant
<1>2. list[c] \in Seq(Currency) /\ Len(list[c]) \in Nat \ {0} /\ Len(outcomes[c]) \in Nat
  BY DEF IngestInv, IngestTypeOK
<1>3. Started(c) = {list[c][i] : i \in 1..Len(list[c])}
  BY <1>1, <1>2 DEF PoolOK
<1>4. Done(c) = Started(c)
  BY DEF IngestInv, IngestTypeOK, TaskStage, Done, Started, Running
<1>5. Cardinality(Done(c)) = Len(list[c])
  BY <1>1, <1>3, <1>4, ListedCardinality DEF PoolOK
<1>6. Reported(c) = Done(c) /\ Len(outcomes[c]) = Len(list[c])
  BY <1>1, <1>5 DEF PoolOK
<1>7. \A i, j \in 1..Len(outcomes[c]) : outcomes[c][i].cur = outcomes[c][j].cur => i = j
  <2> DEFINE f == [i \in 1..Len(outcomes[c]) |-> outcomes[c][i].cur]
  <2>1. f \in Surjection(1..Len(outcomes[c]), Reported(c))
    BY DEF Surjection, Reported
  <2>2. IsFiniteSet(1..Len(outcomes[c])) /\ Cardinality(1..Len(outcomes[c])) = Len(outcomes[c])
    BY <1>2, IntervalCardinality
  <2>3. Cardinality(Reported(c)) = Cardinality(1..Len(outcomes[c]))
    BY <1>5, <1>6, <2>2
  <2>4. f \in Injection(1..Len(outcomes[c]), Reported(c))
    BY <2>1, <2>2, <2>3, FS_Surjection
  <2> QED
    BY <2>4 DEF Injection, IsInjective
<1> QED
  BY <1>2, <1>3, <1>4, <1>6, <1>7

(* No outcome is lost, doubled or invented between the goroutines and the  *)
(* result of the call.                                                     *)
THEOREM EveryCurrencyHasOneOutcome == IngestSpec => []OneOutcomePerCurrency
<1>1. ASSUME IngestInv, NEW c \in Call,
             pc[c] = "upsert" \/ (pc[c] = "returned" /\ err[c] # "empty")
      PROVE  /\ Len(outcomes[c]) = Len(list[c])
             /\ \A i \in 1..Len(list[c]) :
                  \E j \in 1..Len(outcomes[c]) :
                    /\ outcomes[c][j].cur = list[c][i]
                    /\ \A m \in 1..Len(outcomes[c]) :
                         outcomes[c][m].cur = list[c][i] => m = j
  <2>1. list[c] # <<>> /\ next[c] = Len(list[c]) + 1 /\ Running(c) = {}
    BY <1>1 DEF IngestInv, PoolInvariant, PoolOK
  <2>2. /\ Len(outcomes[c]) = Len(list[c])
        /\ Reported(c) = {list[c][i] : i \in 1..Len(list[c])}
        /\ \A i, j \in 1..Len(outcomes[c]) :
             outcomes[c][i].cur = outcomes[c][j].cur => i = j
    BY <1>1, <2>1, AllReported
  <2>3. ASSUME NEW i \in 1..Len(list[c])
        PROVE  \E j \in 1..Len(outcomes[c]) :
                 /\ outcomes[c][j].cur = list[c][i]
                 /\ \A m \in 1..Len(outcomes[c]) :
                      outcomes[c][m].cur = list[c][i] => m = j
    <3>1. PICK j \in 1..Len(outcomes[c]) : outcomes[c][j].cur = list[c][i]
      BY <2>2 DEF Reported
    <3>2. \A m \in 1..Len(outcomes[c]) : outcomes[c][m].cur = list[c][i] => m = j
      BY <2>2, <3>1
    <3> QED
      BY <3>1, <3>2
  <2> QED
    BY <2>2, <2>3
<1>2. IngestInv => OneOutcomePerCurrency
  BY <1>1 DEF OneOutcomePerCurrency
<1> QED
  BY IngestInvariant, <1>2, PTL

(* ErrorIsTruthful of one call.                                            *)
TruthfulFor(c) ==
  pc[c] = "returned" =>
    /\ err[c] = "nil" => list[c] # <<>> /\ AllFetched(c)
    /\ err[c] = "fetch" => HasFailed(c)
    /\ err[c] = "cancelled" => ctx[c] = "cancelled" /\ HasSaved(c)

(* Every step keeps the truth of the error, given the bookkeeping.         *)
LEMMA TruthfulStep ==
  ASSUME IngestInv, [IngestNext]_ingestVars, NEW d \in Call, TruthfulFor(d)
  PROVE  TruthfulFor(d)'
<1> USE DEF IngestInv, IngestTypeOK
<1>0. PoolOK(d)
  BY DEF PoolInvariant
<1>1. ASSUME pc'[d] # "returned" PROVE TruthfulFor(d)'
  BY <1>1 DEF TruthfulFor
<1>2. ASSUME pc'[d] = pc[d], list'[d] = list[d], err'[d] = err[d],
             ctx'[d] = ctx[d] \/ ctx'[d] = "cancelled", outcomes'[d] = outcomes[d]
      PROVE  TruthfulFor(d)'
  <2>1. (HasSaved(d)' <=> HasSaved(d)) /\ (HasFailed(d)' <=> HasFailed(d))
    BY <1>2 DEF HasSaved, HasFailed, IsRate, Failure
  <2>2. AllFetched(d)' <=> AllFetched(d)
    BY <1>2 DEF AllFetched, IsRate, Failure
  <2> QED
    BY <1>2, <2>1, <2>2 DEF TruthfulFor
<1>3. ASSUME NoCurrencies(d) PROVE TruthfulFor(d)'
  BY <1>3 DEF NoCurrencies, TruthfulFor
<1>4. ASSUME WaitReturns(d), ~HasSaved(d) PROVE TruthfulFor(d)'
  <2>1. Len(outcomes[d]) \in Nat \ {0}
    BY <1>0, <1>4, AllReported DEF WaitReturns, PoolOK
  <2>2. HasFailed(d)
    <3>1. 1 \in 1..Len(outcomes[d])
      BY <2>1
    <3> QED
      BY <1>4, <3>1 DEF HasSaved, HasFailed
  <2>3. outcomes' = outcomes /\ err'[d] = "fetch"
    BY <1>4 DEF WaitReturns
  <2> QED
    BY <2>2, <2>3 DEF TruthfulFor, HasFailed, IsRate, Failure
<1>5. ASSUME UpsertOk(d) PROVE TruthfulFor(d)'
  <2>1. /\ list[d] # <<>> /\ next[d] = Len(list[d]) + 1 /\ Running(d) = {}
        /\ outcomes' = outcomes /\ list' = list
        /\ err'[d] = IF HasFailed(d) THEN "fetch" ELSE "nil"
    BY <1>0, <1>5 DEF UpsertOk, PoolOK
  <2>2. Reported(d) = {list[d][i] : i \in 1..Len(list[d])}
    BY <2>1, AllReported
  <2>3. \A i \in 1..Len(list[d]) : \E j \in 1..Len(outcomes[d]) :
          outcomes[d][j].cur = list[d][i]
    BY <2>2 DEF Reported
  <2>4. CASE HasFailed(d)
    BY <2>1, <2>4 DEF TruthfulFor, HasFailed, IsRate, Failure
  <2>5. CASE ~HasFailed(d)
    <3>1. \A j \in 1..Len(outcomes[d]) : IsRate(outcomes[d][j])
      BY <2>5 DEF HasFailed
    <3> QED
      BY <2>1, <2>3, <2>5, <3>1 DEF TruthfulFor, AllFetched, IsRate, Failure
  <2> QED
    BY <2>4, <2>5
<1>6. ASSUME UpsertFails(d) PROVE TruthfulFor(d)'
  BY <1>6 DEF UpsertFails, TruthfulFor
<1>7. ASSUME UpsertCancelled(d) PROVE TruthfulFor(d)'
  <2>1. pc[d] = "upsert" /\ ctx[d] = "cancelled"
    BY <1>7 DEF UpsertCancelled, UpsertCtxEnded
  <2>2. HasSaved(d)
    BY <1>0, <2>1 DEF PoolOK
  <2>3. err'[d] = "cancelled" /\ outcomes' = outcomes /\ ctx' = ctx
    BY <1>7 DEF UpsertCancelled
  <2> QED
    BY <2>1, <2>2, <2>3 DEF TruthfulFor, HasSaved, IsRate, Failure
<1>8. CASE \E c \in Call : c # d /\
             \/ NoCurrencies(c) \/ (\E l \in Lists : FetchAndStore(c, l)) \/ Go(c)
             \/ (\E k \in Currency, v \in Version \cup {Failure} : FetchReturns(c, k, v))
             \/ (\E k \in Currency : Send(c, k))
             \/ WaitReturns(c) \/ UpsertOk(c) \/ UpsertFails(c) \/ UpsertCancelled(c)
             \/ Cancel(c)
  <2> SUFFICES ASSUME NEW c \in Call, c # d,
                 \/ NoCurrencies(c) \/ (\E l \in Lists : FetchAndStore(c, l)) \/ Go(c)
                 \/ (\E k \in Currency, v \in Version \cup {Failure} : FetchReturns(c, k, v))
                 \/ (\E k \in Currency : Send(c, k))
                 \/ WaitReturns(c) \/ UpsertOk(c) \/ UpsertFails(c) \/ UpsertCancelled(c)
                 \/ Cancel(c)
               PROVE  TruthfulFor(d)'
    BY <1>8
  <2>1. CASE NoCurrencies(c) \/ (\E l \in Lists : FetchAndStore(c, l)) \/ Go(c)
    BY <2>1, <1>2 DEF NoCurrencies, FetchAndStore, Go
  <2>2. CASE \/ (\E k \in Currency, v \in Version \cup {Failure} : FetchReturns(c, k, v))
             \/ (\E k \in Currency : Send(c, k))
    BY <2>2, <1>2 DEF FetchReturns, Send
  <2>3. CASE \/ WaitReturns(c) \/ UpsertOk(c) \/ UpsertFails(c) \/ UpsertCancelled(c)
             \/ Cancel(c)
    BY <2>3, <1>2 DEF WaitReturns, UpsertOk, UpsertFails, UpsertCancelled, Cancel
  <2> QED
    BY <2>1, <2>2, <2>3
<1>9. CASE \/ (\E l \in Lists : FetchAndStore(d, l)) \/ Go(d)
           \/ (\E k \in Currency, v \in Version \cup {Failure} : FetchReturns(d, k, v))
           \/ (\E k \in Currency : Send(d, k))
           \/ Cancel(d)
           \/ (WaitReturns(d) /\ HasSaved(d))
  BY <1>9, <1>1 DEF FetchAndStore, Go, FetchReturns, Pooling, Send, Cancel, WaitReturns
<1>10. ASSUME NEW C, Die(C) PROVE TruthfulFor(d)'
  BY <1>10, <1>1, <1>2 DEF Die
<1>11. CASE UNCHANGED ingestVars
  BY <1>11, <1>2 DEF ingestVars
<1> QED
  BY <1>3, <1>4, <1>5, <1>6, <1>7, <1>8, <1>9, <1>10, <1>11
     DEF IngestNext, AllEnded, FetchFails, FetchOk

(* The error a call returns tells what became of it.                       *)
THEOREM ErrorsAreTruthful == IngestSpec => []ErrorIsTruthful
<1> DEFINE T == \A d \in Call : TruthfulFor(d)
<1>1. IngestInit => T
  BY DEF IngestInit, TruthfulFor
<1>2. IngestInv /\ T /\ [IngestNext]_ingestVars => T'
  BY TruthfulStep
<1>3. T => ErrorIsTruthful
  BY DEF TruthfulFor, ErrorIsTruthful
<1> QED
  BY IngestInvariant, <1>1, <1>2, <1>3, PTL DEF IngestSpec

(* A call that has not started has fetched nothing.                        *)
LEMMA IdleIsFresh ==
  ASSUME IngestInv, NEW c \in Call, pc[c] = "idle"
  PROVE  (\A k \in Currency : task[c][k] = "none") /\ Len(outcomes[c]) = 0
<1>1. PoolOK(c)
  BY DEF IngestInv, PoolInvariant
<1>2. list[c] = <<>> /\ next[c] = 1
  BY <1>1 DEF PoolOK
<1>3. Started(c) = {}
  BY <1>1, <1>2 DEF PoolOK
<1>4. Done(c) = {}
  BY <1>3 DEF Done, Started
<1> QED
  BY <1>1, <1>3, <1>4, FS_EmptySet DEF PoolOK, Started

(* r is what the drain keeps of the first n outcomes of s: the rates among *)
(* them, all of them, and in the order of the channel.                     *)
DrainKept(s, n, r) ==
  /\ r \in Seq(Outcome)
  /\ \E at \in [1..Len(r) -> 1..n] :
       /\ \A i \in 1..Len(r) : r[i] = s[at[i]] /\ IsRate(r[i])
       /\ \A i, j \in 1..Len(r) : i < j => at[i] < at[j]
  /\ \A j \in 1..n : IsRate(s[j]) => \E i \in 1..Len(r) : r[i] = s[j]

(* A turn of the drain yields a list of outcomes again.                    *)
LEMMA KeptType ==
  ASSUME NEW r \in Seq(Outcome), NEW o \in Outcome PROVE Kept(r, o) \in Seq(Outcome)
  BY DEF Kept

(* The drain takes the outcomes one after the other.                       *)
LEMMA DrainUnfolds ==
  ASSUME NEW s \in Seq(Outcome)
  PROVE  \E f : /\ Drained(s) = f[Len(s)]
                /\ f[0] = <<>>
                /\ \A n \in 1..Len(s) : f[n] = Kept(f[n - 1], s[n])
<1> DEFINE N    == Len(s)
           D    == Seq(Outcome)
           none == <<>>
           turn == [p \in (1..N) \X D |-> Kept(p[2], s[p[1]])]
           Rec(f) == f = [n \in 0..N |-> IF n = 0 THEN none ELSE Kept(f[n - 1], s[n])]
<1>1. N \in Nat /\ none \in D /\ \A n \in 1..N : s[n] \in Outcome
  OBVIOUS
<1>2. turn \in [(1..N) \X D -> D]
  BY <1>1, KeptType
<1>3. \A n \in 1..N, r \in D : turn[<<n, r>>] = Kept(r, s[n])
  OBVIOUS
<1>4. \E f : Rec(f)
  <2> HIDE DEF turn, D, N, none
  <2>1. PICK f : Accumulates(f, N, D, none, turn)
    BY <1>1, <1>2, Accumulator
  <2>2. /\ f \in [0..N -> D] /\ f[0] = none
        /\ \A n \in 1..N : f[n - 1] \in D /\ f[n] = turn[<<n, f[n - 1]>>]
    BY <1>1, <2>1 DEF Accumulates
  <2>3. \A n \in 1..N : f[n] = Kept(f[n - 1], s[n])
    BY <1>3, <2>2
  <2>4. Rec(f)
    BY <1>1, <2>2, <2>3
  <2> QED
    BY <2>4
<1>5. PICK f : Rec(f) /\ Drained(s) = f[N]
  <2> HIDE DEF turn
  <2> QED
    BY <1>4 DEF Drained
<1>6. f[0] = none /\ \A n \in 1..N : f[n] = Kept(f[n - 1], s[n])
  <2> HIDE DEF turn, N, none
  <2> QED
    BY <1>1, <1>5
<1> QED
  BY <1>5, <1>6

(* result.Saved is the rates that were sent, in the order of the channel   *)
(* (service.go:93-99).                                                     *)
LEMMA DrainKeepsRates ==
  ASSUME NEW s \in Seq(Outcome)
  PROVE  DrainKept(s, Len(s), Drained(s))
<1> DEFINE N == Len(s)
<1>0. N \in Nat /\ \A n \in 1..N : s[n] \in Outcome
  OBVIOUS
<1>1. PICK g : /\ Drained(s) = g[N]
               /\ g[0] = <<>>
               /\ \A n \in 1..N : g[n] = Kept(g[n - 1], s[n])
  BY DrainUnfolds
<1> DEFINE T == {n \in 0..N : DrainKept(s, n, g[n])}
<1>2. 0 \in T
  <2> DEFINE none == g[0]
             at   == [i \in 1..0 |-> i]
  <2>1. none \in Seq(Outcome) /\ Len(none) = 0
    BY <1>1
  <2>2. at \in [1..Len(none) -> 1..0] /\ \A i \in 1..Len(none) : FALSE
    BY <2>1
  <2> HIDE DEF none, at
  <2>3. \E f \in [1..Len(none) -> 1..0] :
          /\ \A i \in 1..Len(none) : none[i] = s[f[i]] /\ IsRate(none[i])
          /\ \A i, j \in 1..Len(none) : i < j => f[i] < f[j]
    BY <2>2
  <2>4. \A j \in 1..0 : FALSE
    OBVIOUS
  <2>5. DrainKept(s, 0, none)
    BY <2>1, <2>3, <2>4 DEF DrainKept
  <2> QED
    BY <1>0, <2>5 DEF none
<1>3. ASSUME NEW n \in 1..N, n - 1 \in T PROVE n \in T
  <2> DEFINE r == g[n - 1]
             q == g[n]
  <2>1. DrainKept(s, n - 1, r)
    BY <1>3
  <2>2. r \in Seq(Outcome) /\ Len(r) \in Nat
    BY <2>1 DEF DrainKept
  <2>3. PICK at \in [1..Len(r) -> 1..(n - 1)] :
          /\ \A i \in 1..Len(r) : r[i] = s[at[i]] /\ IsRate(r[i])
          /\ \A i, j \in 1..Len(r) : i < j => at[i] < at[j]
    BY <2>1 DEF DrainKept
  <2>4. \A j \in 1..(n - 1) : IsRate(s[j]) => \E i \in 1..Len(r) : r[i] = s[j]
    BY <2>1 DEF DrainKept
  <2>5. q = IF IsRate(s[n]) THEN Append(r, s[n]) ELSE r
    BY <1>1 DEF Kept
  <2> HIDE DEF r, q
  <2>6. CASE ~IsRate(s[n])
    <3>1. q = r
      BY <2>5, <2>6
    <3>2. at \in [1..Len(r) -> 1..n]
      BY <1>0
    <3>3. \A j \in 1..n : IsRate(s[j]) => \E i \in 1..Len(r) : r[i] = s[j]
      BY <1>0, <2>4, <2>6
    <3>4. DrainKept(s, n, q)
      BY <2>2, <2>3, <3>1, <3>2, <3>3 DEF DrainKept
    <3> QED
      BY <3>4 DEF q
  <2>7. CASE IsRate(s[n])
    <3>1. /\ q \in Seq(Outcome) /\ Len(q) = Len(r) + 1 /\ q[Len(r) + 1] = s[n]
          /\ \A i \in 1..Len(r) : q[i] = r[i]
      BY <1>0, <2>2, <2>5, <2>7
    <3> DEFINE to == [i \in 1..Len(q) |-> IF i = Len(r) + 1 THEN n ELSE at[i]]
    <3>2. to \in [1..Len(q) -> 1..n]
      BY <1>0, <2>2, <3>1
    <3>3. \A i \in 1..Len(q) : q[i] = s[to[i]] /\ IsRate(q[i])
      BY <2>2, <2>3, <2>7, <3>1
    <3>4. \A i, j \in 1..Len(q) : i < j => to[i] < to[j]
      <4> SUFFICES ASSUME NEW i \in 1..Len(q), NEW j \in 1..Len(q), i < j
                   PROVE  to[i] < to[j]
        BY DEF to
      <4>1. i \in 1..Len(r) /\ to[i] = at[i] /\ at[i] \in 1..(n - 1)
        <5>1. i \in 1..Len(r)
          BY <2>2, <3>1
        <5>2. to[i] = at[i]
          BY <2>2, <3>1, <5>1
        <5> QED
          BY <5>1, <5>2
      <4>2. CASE j = Len(r) + 1
        BY <4>1, <4>2
      <4>3. CASE j # Len(r) + 1
        <5>1. j \in 1..Len(r) /\ to[j] = at[j]
          BY <2>2, <3>1, <4>3
        <5> HIDE DEF to
        <5> QED
          BY <2>3, <4>1, <5>1
      <4> QED
        BY <4>2, <4>3
    <3> HIDE DEF to
    <3>5. ASSUME NEW j \in 1..n, IsRate(s[j]) PROVE \E i \in 1..Len(q) : q[i] = s[j]
      <4>1. CASE j = n
        <5>1. Len(r) + 1 \in 1..Len(q)
          BY <2>2, <3>1
        <5> QED
          BY <3>1, <4>1, <5>1
      <4>2. CASE j # n
        <5>1. j \in 1..(n - 1)
          BY <4>2
        <5>2. PICK i \in 1..Len(r) : r[i] = s[j]
          BY <2>4, <3>5, <5>1
        <5>3. i \in 1..Len(q) /\ q[i] = s[j]
          BY <2>2, <3>1, <5>2
        <5> QED
          BY <5>3
      <4> QED
        BY <4>1, <4>2
    <3>6. DrainKept(s, n, q)
      BY <3>1, <3>2, <3>3, <3>4, <3>5 DEF DrainKept
    <3> QED
      BY <3>6 DEF q
  <2> QED
    BY <2>6, <2>7
<1>4. N \in T
  <2> HIDE DEF T
  <2>1. \A n \in 0..N : n \in T
    BY <1>0, <1>2, <1>3, TurnInduction
  <2> QED
    BY <1>0, <2>1
<1> QED
  BY <1>1, <1>4

(* The rates a call has to save, and the outcomes they come from.          *)
LEMMA SavedFacts ==
  ASSUME IngestTypeOK, NEW c \in Call
  PROVE  /\ Saved(c) \in Seq(Outcome)
         /\ \A i \in 1..Len(Saved(c)) :
              /\ IsRate(Saved(c)[i]) /\ Saved(c)[i].ver \in Version
              /\ \E j \in 1..Len(outcomes[c]) : Saved(c)[i] = outcomes[c][j]
         /\ \A j \in 1..Len(outcomes[c]) :
              IsRate(outcomes[c][j]) => \E i \in 1..Len(Saved(c)) : Saved(c)[i] = outcomes[c][j]
         /\ HasSaved(c) <=> Len(Saved(c)) > 0
<1> DEFINE s == outcomes[c]
           r == Saved(c)
<1>1. s \in Seq(Outcome) /\ Len(s) \in Nat
  BY DEF IngestTypeOK
<1>2. DrainKept(s, Len(s), r)
  BY <1>1, DrainKeepsRates DEF Saved
<1> HIDE DEF r
<1>3. PICK at \in [1..Len(r) -> 1..Len(s)] : \A i \in 1..Len(r) : r[i] = s[at[i]] /\ IsRate(r[i])
  BY <1>2 DEF DrainKept
<1>4. /\ r \in Seq(Outcome) /\ Len(r) \in Nat
      /\ \A j \in 1..Len(s) : IsRate(s[j]) => \E i \in 1..Len(r) : r[i] = s[j]
  BY <1>2 DEF DrainKept
<1>5. \A i \in 1..Len(r) :
        IsRate(r[i]) /\ r[i].ver \in Version /\ \E j \in 1..Len(s) : r[i] = s[j]
  <2> SUFFICES ASSUME NEW i \in 1..Len(r)
               PROVE  IsRate(r[i]) /\ r[i].ver \in Version /\ \E j \in 1..Len(s) : r[i] = s[j]
    OBVIOUS
  <2>1. at[i] \in 1..Len(s) /\ r[i] = s[at[i]] /\ IsRate(r[i])
    BY <1>3
  <2>2. r[i] \in Outcome
    BY <1>4
  <2> QED
    BY <2>1, <2>2 DEF Outcome, IsRate
<1>6. HasSaved(c) <=> Len(r) > 0
  <2>1. ASSUME HasSaved(c) PROVE Len(r) > 0
    BY <1>4, <2>1 DEF HasSaved
  <2>2. ASSUME Len(r) > 0 PROVE HasSaved(c)
    <3>1. 1 \in 1..Len(r)
      BY <1>4, <2>2
    <3>2. PICK j \in 1..Len(s) : r[1] = s[j]
      BY <1>5, <3>1
    <3> QED
      BY <1>5, <3>1, <3>2 DEF HasSaved
  <2> QED
    BY <2>1, <2>2
<1> QED
  BY <1>4, <1>5, <1>6 DEF r

(* Once the pool is drained no currency is saved twice.                    *)
LEMMA SavedOnce ==
  ASSUME IngestInv, NEW c \in Call,
         list[c] # <<>>, next[c] = Len(list[c]) + 1, Running(c) = {},
         NEW i \in 1..Len(Saved(c)), NEW j \in 1..Len(Saved(c)),
         Saved(c)[i].cur = Saved(c)[j].cur
  PROVE  i = j
<1> DEFINE s == outcomes[c]
           r == Saved(c)
<1>1. s \in Seq(Outcome)
  BY DEF IngestInv, IngestTypeOK
<1>2. DrainKept(s, Len(s), r)
  BY <1>1, DrainKeepsRates DEF Saved
<1>3. PICK at \in [1..Len(r) -> 1..Len(s)] :
        /\ \A k \in 1..Len(r) : r[k] = s[at[k]]
        /\ \A k, l \in 1..Len(r) : k < l => at[k] < at[l]
  <2> HIDE DEF r
  <2> QED
    BY <1>2 DEF DrainKept
<1>4. \A k, l \in 1..Len(s) : s[k].cur = s[l].cur => k = l
  BY AllReported
<1>5. at[i] = at[j]
  <2> HIDE DEF s, r
  <2>1. at[i] \in 1..Len(s) /\ at[j] \in 1..Len(s)
    BY <1>3 DEF r
  <2>2. r[i] = s[at[i]] /\ r[j] = s[at[j]] /\ r[i].cur = r[j].cur
    BY <1>3 DEF r
  <2> QED
    BY <1>4, <2>1, <2>2
<1>6. at[i] \in Nat /\ i \in Int /\ j \in Int
  <2>1. Len(s) \in Nat /\ Len(r) \in Nat
    BY <1>1, <1>2 DEF DrainKept
  <2> HIDE DEF s, r
  <2>2. at[i] \in 1..Len(s)
    BY <1>3 DEF r
  <2> QED
    BY <2>1, <2>2 DEF r
<1>7. ~(i < j) /\ ~(j < i)
  <2>1. ~(at[i] < at[j]) /\ ~(at[j] < at[i])
    BY <1>5, <1>6
  <2> HIDE DEF s, r
  <2> QED
    BY <1>3, <2>1 DEF r
<1> QED
  BY <1>6, <1>7
=============================================================================
