------------------------------ MODULE Ingestion ------------------------------
(***************************************************************************)
(* ingestion.Service.FetchAndStore (src/internal/ingestion/service.go).    *)
(*                                                                         *)
(* One call fetches every currency of its list on a goroutine of its own.  *)
(* errgroup.SetLimit bounds how many run at once; each goroutine sends one *)
(* outcome into a buffered channel that nobody reads before group.Wait     *)
(* has returned; the drained outcomes are split into Saved and Failed, and *)
(* Saved is handed to the repository once.                                 *)
(*                                                                         *)
(* Calls of this module do not interact: they meet in the database         *)
(* (RateStore) and the module RatesService composes the two.  The          *)
(* repository is here only its result, nil or an error.                    *)
(***************************************************************************)
EXTENDS Integers, Sequences, FiniteSets

CONSTANTS
  Call,         \* the calls of FetchAndStore, each made at most once
  Currency,     \* canonical currency codes
  Lists,        \* the lists normalizeCurrencies can return (module Currencies)
  Version,      \* what a fetch can bring back: the editions of the feed
  Concurrency   \* FETCH_CONCURRENCY

(* NewService raises a limit below one to one (service.go:40-42).          *)
ASSUME ConcurrencyAssumption == Concurrency \in Nat \ {0}

ASSUME VersionAssumption == Version \subseteq Nat \ {0}

(* normalizeCurrencies drops every repetition (service.go:122-124), so a   *)
(* list it returns names no currency twice.                                *)
ASSUME ListsAssumption ==
  /\ Lists \subseteq Seq(Currency)
  /\ \A l \in Lists : \A i, j \in 1..Len(l) : l[i] = l[j] => i = j

VARIABLES
  pc,        \* where the call is: see Stage
  list,      \* the normalized currencies the call works on
  next,      \* index of the next currency for which group.Go is called
  task,      \* per currency, where its goroutine is: see TaskStage
  held,      \* per currency, what FetchCurrency returned: a version or Failure
  outcomes,  \* the channel, oldest first
  ctx,       \* the caller's context
  err        \* the error returned: see Error

ingestVars == <<pc, list, next, task, held, outcomes, ctx, err>>

Stage     == {"idle", "spawn", "wait", "upsert", "returned", "dead"}
TaskStage == {"none", "fetching", "sending", "done"}
Error     == {"nil", "empty", "fetch", "upsert", "cancelled"}

(* A fetchOutcome carries either a rate or a failure.  The version stands  *)
(* for the rate; a failure is version 0.                                   *)
Failure == 0
Outcome == [cur : Currency, ver : Version \cup {Failure}]

Listed(c)  == {list[c][i] : i \in 1..Len(list[c])}
Running(c) == {k \in Currency : task[c][k] \in {"fetching", "sending"}}
Done(c)    == {k \in Currency : task[c][k] = "done"}
Pooling(c) == pc[c] \in {"spawn", "wait"}

IsRate(o)    == o.ver # Failure
HasSaved(c)  == \E i \in 1..Len(outcomes[c]) : IsRate(outcomes[c][i])
HasFailed(c) == \E i \in 1..Len(outcomes[c]) : ~IsRate(outcomes[c][i])

(* One turn of the loop that drains the channel: a rate is appended to     *)
(* result.Saved; of the failures only that there are any matters.          *)
Kept(saved, o) == IF IsRate(o) THEN Append(saved, o) ELSE saved

(* result.Saved when the loop has drained the channel s.                   *)
Drained(s) ==
  LET saved[n \in 0..Len(s)] == IF n = 0 THEN <<>> ELSE Kept(saved[n - 1], s[n])
  IN  saved[Len(s)]

Saved(c) == Drained(outcomes[c])

(* Mutant of ChannelCapacity: a buffer for the workers only.               *)
CapacityOfPool(c) == Concurrency

(* make(chan fetchOutcome, len(currencies)).                               *)
ChannelCapacity(c) == Len(list[c])

(* Mutant of GroupCtxEnded: requests made without the context.             *)
NeverEnded(c) == FALSE

(* The group's context ends when the caller's does, and also when Wait     *)
(* returns.  Goroutines use it; UpsertRates is given the caller's.         *)
GroupCtxEnded(c)  == ctx[c] = "cancelled" \/ pc[c] \in {"upsert", "returned"}

(* Mutant of UpsertCtxEnded: the upsert is given the group's context.      *)
UpsertOnGroupCtx(c) == GroupCtxEnded(c)
UpsertCtxEnded(c)   == ctx[c] = "cancelled"

-----------------------------------------------------------------------------

IngestInit ==
  /\ pc       = [c \in Call |-> "idle"]
  /\ list     = [c \in Call |-> <<>>]
  /\ next     = [c \in Call |-> 1]
  /\ task     = [c \in Call |-> [k \in Currency |-> "none"]]
  /\ held     = [c \in Call |-> [k \in Currency |-> Failure]]
  /\ outcomes = [c \in Call |-> <<>>]
  /\ ctx      = [c \in Call |-> "live"]
  /\ err      = [c \in Call |-> "nil"]

(* Nothing left after normalization: the call fails at once.               *)
NoCurrencies(c) ==
  /\ pc[c] = "idle"
  /\ <<>> \in Lists
  /\ pc'  = [pc EXCEPT ![c] = "returned"]
  /\ err' = [err EXCEPT ![c] = "empty"]
  /\ UNCHANGED <<list, next, task, held, outcomes, ctx>>

FetchAndStore(c, l) ==
  /\ pc[c] = "idle"
  /\ l # <<>>
  /\ pc'   = [pc EXCEPT ![c] = "spawn"]
  /\ list' = [list EXCEPT ![c] = l]
  /\ UNCHANGED <<next, task, held, outcomes, ctx, err>>

(* Mutant of Go: the loop stops one currency short.                        *)
GoAllButLast(c) ==
  /\ pc[c] = "spawn"
  /\ Cardinality(Running(c)) < Concurrency
  /\ task' = [task EXCEPT ![c][list[c][next[c]]] = "fetching"]
  /\ next' = [next EXCEPT ![c] = @ + 1]
  /\ pc'   = [pc EXCEPT ![c] = IF next[c] + 1 >= Len(list[c]) THEN "wait" ELSE "spawn"]
  /\ UNCHANGED <<list, held, outcomes, ctx, err>>

(* One turn of the loop: group.Go blocks while the limit is reached, then  *)
(* starts the goroutine of the next currency.                              *)
Go(c) ==
  /\ pc[c] = "spawn"
  /\ Cardinality(Running(c)) < Concurrency
  /\ task' = [task EXCEPT ![c][list[c][next[c]]] = "fetching"]
  /\ next' = [next EXCEPT ![c] = @ + 1]
  /\ pc'   = [pc EXCEPT ![c] = IF next[c] = Len(list[c]) THEN "wait" ELSE "spawn"]
  /\ UNCHANGED <<list, held, outcomes, ctx, err>>

FetchReturns(c, k, v) ==
  /\ Pooling(c)
  /\ task[c][k] = "fetching"
  /\ task' = [task EXCEPT ![c][k] = "sending"]
  /\ held' = [held EXCEPT ![c][k] = v]
  /\ UNCHANGED <<pc, list, next, outcomes, ctx, err>>

(* FetchCurrency found a rate, or failed: transport, status, parse, or the *)
(* group's context ended.                                                  *)
FetchOk(c, k, v) == v # Failure /\ FetchReturns(c, k, v)
FetchFails(c, k) == FetchReturns(c, k, Failure)

(* Mutant of Send: a failure is sent without its currency.                 *)
SendAnonymous(c, k) ==
  /\ Pooling(c)
  /\ task[c][k] = "sending"
  /\ Len(outcomes[c]) < ChannelCapacity(c)
  /\ outcomes' = [outcomes EXCEPT ![c] =
       Append(@, [cur |-> IF held[c][k] = Failure THEN "" ELSE k, ver |-> held[c][k]])]
  /\ task' = [task EXCEPT ![c][k] = "done"]
  /\ UNCHANGED <<pc, list, next, held, ctx, err>>

(* The send into the channel.  It blocks while the buffer is full; after   *)
(* it the goroutine ends and frees its place in the group.                 *)
Send(c, k) ==
  /\ Pooling(c)
  /\ task[c][k] = "sending"
  /\ Len(outcomes[c]) < ChannelCapacity(c)
  /\ outcomes' = [outcomes EXCEPT ![c] = Append(@, [cur |-> k, ver |-> held[c][k]])]
  /\ task' = [task EXCEPT ![c][k] = "done"]
  /\ UNCHANGED <<pc, list, next, held, ctx, err>>

(* Mutant of WaitReturns: the channel is drained without group.Wait.       *)
DrainAtOnce(c) ==
  /\ pc[c] = "wait"
  /\ pc'  = [pc EXCEPT ![c] = IF HasSaved(c) THEN "upsert" ELSE "returned"]
  /\ err' = [err EXCEPT ![c] = IF HasSaved(c) THEN "nil" ELSE "fetch"]
  /\ UNCHANGED <<list, next, task, held, outcomes, ctx>>

(* Mutant of WaitReturns: UpsertRates is called with nothing to save too.  *)
UpsertAlways(c) ==
  /\ pc[c] = "wait"
  /\ Running(c) = {}
  /\ pc' = [pc EXCEPT ![c] = "upsert"]
  /\ UNCHANGED <<list, next, task, held, outcomes, ctx, err>>

(* group.Wait returns, the channel is closed and drained; with nothing to  *)
(* save the call ends here, with an error.                                 *)
WaitReturns(c) ==
  /\ pc[c] = "wait"
  /\ Running(c) = {}
  /\ pc'  = [pc EXCEPT ![c] = IF HasSaved(c) THEN "upsert" ELSE "returned"]
  /\ err' = [err EXCEPT ![c] = IF HasSaved(c) THEN "nil" ELSE "fetch"]
  /\ UNCHANGED <<list, next, task, held, outcomes, ctx>>

(* UpsertRates returned nil: what is left to report is the failed fetches. *)
UpsertOk(c) ==
  /\ pc[c] = "upsert"
  /\ pc'  = [pc EXCEPT ![c] = "returned"]
  /\ err' = [err EXCEPT ![c] = IF HasFailed(c) THEN "fetch" ELSE "nil"]
  /\ UNCHANGED <<list, next, task, held, outcomes, ctx>>

(* UpsertRates returned an error of the database.                          *)
UpsertFails(c) ==
  /\ pc[c] = "upsert"
  /\ pc'  = [pc EXCEPT ![c] = "returned"]
  /\ err' = [err EXCEPT ![c] = "upsert"]
  /\ UNCHANGED <<list, next, task, held, outcomes, ctx>>

(* UpsertRates gave up because the context it was given had ended.         *)
UpsertCancelled(c) ==
  /\ pc[c] = "upsert"
  /\ UpsertCtxEnded(c)
  /\ pc'  = [pc EXCEPT ![c] = "returned"]
  /\ err' = [err EXCEPT ![c] = "cancelled"]
  /\ UNCHANGED <<list, next, task, held, outcomes, ctx>>

(* The HTTP client goes away, or SIGINT reaches the fetch command.         *)
Cancel(c) ==
  /\ pc[c] \in {"spawn", "wait", "upsert"}
  /\ ctx[c] = "live"
  /\ ctx' = [ctx EXCEPT ![c] = "cancelled"]
  /\ UNCHANGED <<pc, list, next, task, held, outcomes, err>>

(* A process ends under its calls: nothing of them runs again.             *)
Die(C) ==
  /\ \E c \in C : pc[c] \in {"spawn", "wait", "upsert"}
  /\ pc' = [c \in Call |-> IF c \in C /\ pc[c] \in {"spawn", "wait", "upsert"}
                           THEN "dead" ELSE pc[c]]
  /\ UNCHANGED <<list, next, task, held, outcomes, ctx, err>>

(* Every call has ended: the one state in which nothing has to happen.     *)
AllEnded ==
  /\ \A c \in Call : pc[c] \in {"returned", "dead"}
  /\ UNCHANGED ingestVars

IngestNext ==
  \/ \E c \in Call :
       \/ NoCurrencies(c)
       \/ \E l \in Lists : FetchAndStore(c, l)
       \/ Go(c)
       \/ \E k \in Currency : FetchFails(c, k) \/ Send(c, k)
       \/ \E k \in Currency, v \in Version : FetchOk(c, k, v)
       \/ WaitReturns(c)
       \/ UpsertOk(c) \/ UpsertFails(c) \/ UpsertCancelled(c)
       \/ Cancel(c)
  \/ \E C \in SUBSET Call : Die(C)
  \/ AllEnded

(* The Go scheduler runs every goroutine that can run.  A fetch is not     *)
(* assumed to end: main gives the fetcher an http.Client without a timeout *)
(* (main.go:69, main.go:87), so a silent upstream is waited for until the  *)
(* context ends.  With the context ended the fetch and the upsert end.     *)
IngestFairness ==
  \A c \in Call :
    /\ WF_ingestVars(Go(c))
    /\ WF_ingestVars(WaitReturns(c))
    /\ WF_ingestVars(UpsertCancelled(c))
    /\ \A k \in Currency :
         /\ WF_ingestVars(GroupCtxEnded(c) /\ FetchFails(c, k))
         /\ WF_ingestVars(Send(c, k))

IngestSpec == IngestInit /\ [][IngestNext]_ingestVars /\ IngestFairness

-----------------------------------------------------------------------------

(* Types.                                                                  *)
IngestTypeOK ==
  /\ pc \in [Call -> Stage]
  /\ list \in [Call -> Seq(Currency)]
  /\ next \in [Call -> Nat \ {0}]
  /\ task \in [Call -> [Currency -> TaskStage]]
  /\ held \in [Call -> [Currency -> Version \cup {Failure}]]
  /\ outcomes \in [Call -> Seq(Outcome)]
  /\ ctx \in [Call -> {"live", "cancelled"}]
  /\ err \in [Call -> Error]

(* The bookkeeping of the pool: goroutines are started in the order of the *)
(* list, one per currency, all of them before Wait, and each has put one   *)
(* outcome into the channel when it has ended (service.go:73-91).          *)
Started(c)  == {k \in Currency : task[c][k] # "none"}
Reported(c) == {outcomes[c][i].cur : i \in 1..Len(outcomes[c])}

PoolOK(c) ==
  /\ list[c] \in Lists \cup {<<>>}
  /\ next[c] \in 1..(Len(list[c]) + 1)
  /\ Started(c) = {list[c][i] : i \in 1..(next[c] - 1)}
  /\ pc[c] = "idle" => list[c] = <<>>
  /\ pc[c] = "spawn" => next[c] <= Len(list[c])
  /\ pc[c] \in {"wait", "upsert"} => list[c] # <<>> /\ next[c] = Len(list[c]) + 1
  /\ pc[c] = "returned" /\ err[c] # "empty" => list[c] # <<>> /\ next[c] = Len(list[c]) + 1
  /\ pc[c] \in {"upsert", "returned"} => Running(c) = {}
  /\ pc[c] = "upsert" => HasSaved(c)
  /\ Reported(c) = Done(c)
  /\ Len(outcomes[c]) = Cardinality(Done(c))

PoolInvariant == \A c \in Call : PoolOK(c)

(* A goroutine that has its outcome can always send it, although nobody    *)
(* reads the channel before every goroutine has ended: the buffer has room *)
(* for the outcomes of all of them (service.go:68, 79, 82, 87).            *)
SendNeverBlocks ==
  \A c \in Call : \A k \in Currency :
    task[c][k] = "sending" => Len(outcomes[c]) < ChannelCapacity(c)

(* Once the pool is drained every listed currency has exactly one outcome  *)
(* and there is no other outcome: none is lost, counted twice or invented, *)
(* so len(Saved) + len(Failed) = len(currencies) (service.go:93-108).      *)
OneOutcomePerCurrency ==
  \A c \in Call :
    pc[c] = "upsert" \/ (pc[c] = "returned" /\ err[c] # "empty") =>
      /\ Len(outcomes[c]) = Len(list[c])
      /\ \A i \in 1..Len(list[c]) :
           \E j \in 1..Len(outcomes[c]) :
             /\ outcomes[c][j].cur = list[c][i]
             /\ \A m \in 1..Len(outcomes[c]) :
                  outcomes[c][m].cur = list[c][i] => m = j

AllFetched(c) ==
  \A i \in 1..Len(list[c]) :
    \E j \in 1..Len(outcomes[c]) :
      outcomes[c][j].cur = list[c][i] /\ IsRate(outcomes[c][j])

(* The error tells the caller what happened: nil only if every currency    *)
(* was fetched, a fetch error only if one failed, and a cancelled upsert   *)
(* only if it was the caller's own context that ended, not the group's,    *)
(* which has always ended by then (service.go:70, 87, 102).                *)
ErrorIsTruthful ==
  \A c \in Call : pc[c] = "returned" =>
    /\ err[c] = "nil" => list[c] # <<>> /\ AllFetched(c)
    /\ err[c] = "fetch" => HasFailed(c)
    /\ err[c] = "cancelled" => ctx[c] = "cancelled" /\ HasSaved(c)

(* A caller that gives up gets its answer, however many fetches hang and   *)
(* wherever the call is: no goroutine keeps it waiting (service.go:76-91). *)
CancelledCallReturns ==
  \A c \in Call :
    ctx[c] = "cancelled" ~> pc[c] \in {"returned", "dead"}

=============================================================================
