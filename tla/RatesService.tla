---------------------------- MODULE RatesService ----------------------------
(***************************************************************************)
(* The whole of one fetch: POST /api/v1/rates/fetch of the server and the  *)
(* fetch command, over Ingestion and RateStore, against a feed that the    *)
(* bank changes while requests are under way.                              *)
(*                                                                         *)
(* The server answers several requests at once, each of them a call of     *)
(* FetchAndStore of its own; the command is a process of its own that      *)
(* makes one call.  All of them write the same table.                      *)
(***************************************************************************)
EXTENDS Ingestion, RatesQueries

CONSTANTS
  Commands,   \* the calls that are runs of the fetch command
  Date,       \* effective dates
  DateOf,     \* per edition of the feed, the effective date of its rates
  MaxConns,   \* connections the server and the commands have together
  NoRow

ASSUME CommandsAssumption == Commands \subseteq Call

(* CHAR(3) and DATE have finitely many values; both are numbers here,      *)
(* which order as they do.                                                 *)
ASSUME ColumnAssumption ==
  /\ Currency \subseteq Int /\ IsFiniteSet(Currency)
  /\ Date \subseteq Int /\ IsFiniteSet(Date) /\ NoDate \notin Date

(* The feed has a first edition, and every edition a date.                 *)
ASSUME EditionAssumption == 1 \in Version /\ DateOf \in [Version -> Date]

ASSUME StoreAssumption == NoRow \notin [id : Call, rate : Call] /\ MaxConns \in Nat \ {0}

VARIABLES
  step, batch, pos, snapshot, work, fate, table, conns, reply,  \* RateStore
  edition,    \* the edition of the feed the bank serves
  before,     \* history: per call, the calls that had ended when it started
  answer      \* per call, what its client was told: see Answer

storeVars   == <<step, batch, pos, snapshot, work, fate, table, conns, reply>>
outerVars   == <<edition, before, answer>>
serviceVars == <<ingestVars, storeVars, outerVars>>

Answer == {"none", "200", "207", "500", "exit0", "exit1", "lost"}

(* The unique key of exchange_rates: source and base currency are fixed.   *)
RateKey == [cur : Currency, date : Date]

UniqueSeqs == {s \in UNION {[1..n -> RateKey] : n \in 1..Cardinality(Currency)} :
                 \A i, j \in 1..Len(s) : s[i].cur = s[j].cur => i = j}

Store == INSTANCE RateStore WITH Tx <- Call, Key <- RateKey, Batches <- UniqueSeqs

KeyOf(o)    == [cur |-> o.cur, date |-> DateOf[o.ver]]
SavedAt(c)  == {KeyOf(Saved(c)[i]) : i \in 1..Len(Saved(c))}
VersionAt(c, k) == CHOOSE v \in Version :
  \E i \in 1..Len(Saved(c)) : KeyOf(Saved(c)[i]) = k /\ Saved(c)[i].ver = v

(* The table t as the queries see it.                                      *)
RowsOf(t) ==
  {[id |-> t[k].id, quote_currency |-> k.cur, rate |-> t[k].rate, effective_date |-> k.date,
    source |-> "bank.lv"] : k \in {k \in RateKey : t[k] # NoRow}}

-----------------------------------------------------------------------------

ServiceInit ==
  /\ IngestInit
  /\ Store!StoreInit
  /\ edition = 1
  /\ before  = [c \in Call |-> {}]
  /\ answer  = [c \in Call |-> "none"]

(* The bank serves its next edition.                                       *)
Publish ==
  /\ edition + 1 \in Version
  /\ edition' = edition + 1
  /\ UNCHANGED <<ingestVars, storeVars, before, answer>>

Start(c) ==
  /\ NoCurrencies(c) \/ \E l \in Lists : FetchAndStore(c, l)
  /\ before' = [before EXCEPT ![c] = {d \in Call : pc[d] \in {"returned", "dead"}}]
  /\ UNCHANGED <<storeVars, edition, answer>>

(* Mutant of Fetch: the first item of the feed is taken, whatever its date.*)
FetchAnyEdition(c, k) == (\E v \in 1..edition : FetchOk(c, k, v)) \/ FetchFails(c, k)

(* ParseBankLVRSS takes the item with the latest date of the feed that is  *)
(* served when the goroutine asks for it; it may reach the channel late.   *)
Fetch(c, k) == FetchOk(c, k, edition) \/ FetchFails(c, k)

Pool(c) ==
  /\ \/ Go(c)
     \/ \E k \in Currency : Fetch(c, k) \/ Send(c, k)
     \/ WaitReturns(c)
     \/ Cancel(c)
  /\ UNCHANGED <<storeVars, outerVars>>

(* s.repository.UpsertRates(ctx, result.Saved), once.                      *)
CallUpsertRates(c) ==
  /\ pc[c] = "upsert"
  /\ Store!UpsertRates(c, [i \in 1..Len(Saved(c)) |-> KeyOf(Saved(c)[i])])
  /\ UNCHANGED <<ingestVars, outerVars>>

StoreWorks(c) == Store!StoreStep(c) /\ UNCHANGED <<ingestVars, outerVars>>

UpsertReturns(c) ==
  /\ \/ reply[c] = "ok" /\ UpsertOk(c)
     \/ reply[c] = "error" /\ (UpsertFails(c) \/ UpsertCancelled(c))
  /\ UNCHANGED <<storeVars, outerVars>>

(* Mutants of PostStatus: the error is ignored; any error is a 500; a      *)
(* request for no currency gets a status of its own.                       *)
StatusByFailed(c) == IF HasFailed(c) THEN "207" ELSE "200"
StatusByError(c)  == IF err[c] # "nil" THEN "500" ELSE "200"
StatusByCause(c)  == IF err[c] = "empty" THEN "422"
                     ELSE IF err[c] # "nil" THEN "207" ELSE "200"

(* PostRatesFetch: the status depends on the error and on result.Saved,    *)
(* which is the drained channel also when UpsertRates failed.              *)
PostStatus(c) ==
  IF err[c] # "nil" /\ ~HasSaved(c) THEN "500"
  ELSE IF err[c] # "nil" \/ HasFailed(c) THEN "207"
  ELSE "200"

(* runFetch: log.Fatal on any error.                                       *)
ExitCode(c) == IF err[c] = "nil" THEN "exit0" ELSE "exit1"

Respond(c) ==
  /\ pc[c] = "returned"
  /\ answer[c] = "none"
  /\ answer' = [answer EXCEPT ![c] = IF c \in Commands THEN ExitCode(c) ELSE PostStatus(c)]
  /\ UNCHANGED <<ingestVars, storeVars, edition, before>>

(* WRITE_TIMEOUT has passed, or the client is gone: nobody gets the answer.*)
ResponseLost(c) ==
  /\ pc[c] = "returned"
  /\ answer[c] = "none"
  /\ c \notin Commands
  /\ answer' = [answer EXCEPT ![c] = "lost"]
  /\ UNCHANGED <<ingestVars, storeVars, edition, before>>

(* A process is killed, with every call it is running.                     *)
ProcessDies(C) ==
  /\ Die(C)
  /\ \/ Store!ClientsDie(C)
     \/ /\ \A c \in C : step[c] \in {"idle", "returned", "dead"}
        /\ UNCHANGED storeVars
  /\ UNCHANGED outerVars

DatabaseRestarts == Store!DatabaseRestarts /\ UNCHANGED <<ingestVars, outerVars>>

AllAnswered ==
  /\ \A c \in Call : pc[c] = "dead" \/ answer[c] # "none"
  /\ \A c \in Call : fate[c] # "open"
  /\ edition + 1 \notin Version
  /\ UNCHANGED serviceVars

ServiceNext ==
  \/ Publish
  \/ \E c \in Call : Start(c) \/ Pool(c) \/ CallUpsertRates(c) \/ StoreWorks(c)
                     \/ UpsertReturns(c) \/ Respond(c) \/ ResponseLost(c)
  \/ ProcessDies(Call \ Commands)
  \/ \E c \in Commands : ProcessDies({c})
  \/ DatabaseRestarts
  \/ AllAnswered

ServiceSpec == ServiceInit /\ [][ServiceNext]_serviceVars

-----------------------------------------------------------------------------

(* Types of what this module adds.                                         *)
ServiceTypeOK ==
  /\ edition \in Version
  /\ before \in [Call -> SUBSET Call]
  /\ answer \in [Call -> Answer]

(* UpsertRates is used the way RateStore assumes: once per call, with at   *)
(* least one rate and never two of one currency (service.go:93-105).       *)
StoreIsUsedAsAssumed == Store!StoreInit /\ [][Store!StoreNext]_storeVars

(* Status 200 and exit code 0 mean that everything asked for was fetched   *)
(* and is in the table for good (rates.go:43-49, main.go:101-104).         *)
OkMeansStored ==
  \A c \in Call : answer[c] \in {"200", "exit0"} =>
    /\ fate[c] = "committed"
    /\ {k.cur : k \in SavedAt(c)} = Listed(c)
    /\ \A k \in SavedAt(c) : table[k] # NoRow

(* Status 500 means that nothing of the request is, or will be, in the     *)
(* table (rates.go:43-45; docs/openapi.yaml:104-105 "Fetch failed before   *)
(* data could be saved").                                                  *)
ServerErrorWroteNothing ==
  \A c \in Call : answer[c] = "500" =>
    /\ fate[c] = "none"
    /\ \A k \in RateKey : table[k] # NoRow => table[k].rate # c /\ table[k].id # c

(* A stored rate goes back to an older edition of the feed only if the two *)
(* calls overlapped: of two calls made one after the other the later one   *)
(* wins, also when the earlier one's COMMIT was still under way when it    *)
(* returned (banklv.go:135, service.go:102, repository.go:51-56).          *)
RegressionNeedsOverlap ==
  [][\A k \in RateKey :
       LET old == table[k].rate  new == table'[k].rate IN
       /\ table[k] # NoRow
       /\ table'[k] # table[k]
       /\ VersionAt(new, k) < VersionAt(old, k)
       => old \notin before[new] /\ new \notin before[old]]_serviceVars

(* README.md:69: "After it returns, GET /api/v1/rates and GET              *)
(* /api/v1/rates/{currency}/history read those stored rows".  After a 200  *)
(* the first shows, of every currency saved, the date saved or a later     *)
(* one, whoever wrote since, and the second shows the date saved.          *)
ReadYourFetch ==
  \A c \in Call : answer[c] = "200" =>
    \A k \in SavedAt(c) :
      /\ \A shown \in LatestRates(RowsOf(table)) :
           \E i \in 1..Len(shown) : /\ shown[i].currency = k.cur
                                    /\ shown[i].effective_date >= k.date
      /\ \A shown \in History(RowsOf(table), k.cur, k.date, k.date, 0) :
           Len(shown) = 1

(* GET /rates and the history stay complete while batches are committed:   *)
(* see ShowsTheLatest and ShowsHistory of RatesQueries.                    *)
LatestIsNewest == [][table' # table => ShowsTheLatest(RowsOf(table'))]_serviceVars

HistoryIsComplete ==
  [][\A k \in RateKey : table'[k] # table[k] =>
       \A from, to \in Date \cup {NoDate}, limit \in -1..(MaxLimit + 1) :
         ShowsHistory(RowsOf(table'), k.cur, from, to, limit)]_serviceVars

(* README.md:69: "stores successful currency rates in PostgreSQL. After it *)
(* returns, GET ... read those stored rows": what an answer lists as saved *)
(* is in the table.                                                        *)
SavedIsStored ==
  \A c \in Call : answer[c] \in {"200", "207"} =>
    \A k \in SavedAt(c) : table[k] # NoRow

=============================================================================
