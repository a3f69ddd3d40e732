# A verification development for rates-service

TLA+ modules that model the currency rate service of this repository, TLC
configurations that check them on small instances, and proofs checked by
TLAPS.  Paths are relative to `src/`; `service.go` without a directory is
`internal/ingestion/service.go`, and likewise `repository.go`, `rates.go`,
`server.go`, `middleware.go`, `banklv.go`, `config.go`, `main.go`,
`openapi.gen.go`; `bob/`, `factory/`, `dbinfo/` are below `internal/db/bob/`.

## The system

The program fetches euro rates from the RSS feed of bank.lv, keeps them in
PostgreSQL and serves them over HTTP.  One binary, two commands: `serve` (HTTP
server) and `fetch` (one ingestion, then exit).  Several processes may share
one database and one Redis.

| component | state | operations | what makes it correct |
|---|---|---|---|
| ingestion service (`service.go`) | per call: list of currencies, goroutines, a buffered channel, two contexts | `FetchAndStore`, `normalizeCurrencies` | one outcome per currency; nobody blocks on the channel; the returned error is true; giving up ends the call |
| repository (`repository.go`, migration) | table `exchange_rates`, connection pool, one transaction per call | `UpsertRates`; `LatestRates`, `History`, `Ping` | a batch is stored whole or not at all; nothing unseen is overwritten; rows keep their id; connections and locks are given back; the two queries return what they promise |
| fetch handler, `fetch` command (`rates.go`, `main.go`) | what the client is told | `PostRatesFetch`, `runFetch` | status or exit code agree with the table |
| bank.lv client and parser (`banklv.go`) | none (the feed is the bank's) | `FetchCurrency`, `ParseBankLVRSS` | the latest rate of a currency, or an error |
| rate limiter (`middleware.go`) | a counter with a time to live per path and client, in Redis | `rateLimitMiddleware`, `clientIP` | no client gets much more than the limit through; a refused client is served again |
| lifecycle (`service/service.go`, `main.go`) | where main and the two goroutines of `Run` are; server, pool, Redis client, signal context, exit code | `main`, `runServe`, `runFetch`, `Run`, `Shutdown`, deferred closes | stops when told to; nothing is used after it is closed; the exit code is true |
| routes and GET handlers (`server.go`, `rates.go`, generated `openapi.gen.go`) | per request: where its handler is, what was written | limiter, router, wrappers that bind parameters, `GetRates`, history, health, redirects, not found, `writeJSON` | one answer per request; what is refused costs no query and no fetch |
| configuration and lists of currencies (`config.go`, `rates.go`, `service.go`) | none after start | `Load`, `splitCurrencies`, the choice of a list, `normalizeCurrencies` | values the rest relies on; the codes somebody named, each once, in order |
| generated models and factories (`bob/`, `factory/`, `dbinfo/`) | objects and slices in memory, a template and base mods, rows | setters, `Update`, `Delete`, `Reload` of an object and of a slice, `Create`, `CreateMany`, `Build` | the methods of a setter agree; a statement touches its own rows; objects follow their rows |
| request log, API documents | none | - | - |

How they interact.  A request passes the limiter (Redis), the router, and
`PostRatesFetch`, which calls `FetchAndStore` with the request's context.  That
starts one goroutine per currency, at most `FETCH_CONCURRENCY` at a time; each
calls bank.lv and sends one outcome into a channel.  When all have ended, the
successful rates go to `UpsertRates`, which writes them in one serializable
transaction on a connection of the shared pool.  The outcomes and the error come
back to the handler, which picks a status from both.  `fetch` does the same
without limiter and handler.  Calls share the database, the pool and bank.lv;
nothing else in memory.

The process around this is `main`: it opens the pool (and, for `serve`, the
Redis client), starts `Run`, and closes both by deferred calls after `Run` has
returned, which it does when the listener has ended and `Shutdown` has seen the
last handler off.  The generated models are used twice: the three methods of
the repository go through them, and the factories make rows for tests.

What is hard: goroutines that block on a channel nobody reads yet; a group
context that ends before the caller's does; transactions that lock rows in the
order their outcomes happened to arrive; a `COMMIT` whose answer is lost; a feed
that changes between two fetches; handlers whose client has gone; two Redis
commands that ought to be one; a server told to stop, or losing its listener,
with handlers in the middle of something; objects in memory whose rows another
session changes; processes and servers that die at any of these points.
`PROJECT.json` lists each such hazard at its line.

## The modules

| module | models | needs |
|---|---|---|
| `Ingestion` | `FetchAndStore` | |
| `AtomicUpsert` | what a caller of `UpsertRates` may rely on (abstract) | |
| `RateStore` | `UpsertRates` and the PostgreSQL it depends on | refines `AtomicUpsert` |
| `RatesQueries` | `LatestRates`, `History` and what becomes of their rows | |
| `RatesService` | `PostRatesFetch` and `runFetch` over these, with the bank | extends `Ingestion` and `RatesQueries`, instantiates `RateStore` |
| `BankLVParser` | `FetchCurrency`, `ParseBankLVRSS` | |
| `RateLimiter` | `rateLimitMiddleware` and its Redis key | |
| `Currencies` | `splitCurrencies`, `normalizeCurrencies`, which list is used | |
| `ApiRoutes` | one request through limiter, routes, wrappers, handlers and answer | extends `Currencies` |
| `Lifecycle` | `main`, `runServe`, `runFetch`, `Load`, `Service.Run` around the handlers | extends `ApiRoutes` |
| `ExchangeRateModel` | the generated model of `exchange_rates` and a session that uses it | |
| `RateFactory` | the generated factory beside that session | extends `ExchangeRateModel` |
| `...Proofs` | theorems about `Ingestion`, `RateStore`, `RatesService`, `BankLVParser`, `RateLimiter`, `Lifecycle`, and about the two models (`ModelProofs`) | extend the module they are about |
| `LoopLemmas` | lemmas about loops over a slice, for the proofs | |
| `MC...` | values of the constants for TLC | extend what they instantiate |

An operator whose comment begins with "Mutant of" is a plausible mistake in
the definition that follows it.  No behaviour uses it; each property has one
that breaks it, which shows that the property says something about the code.

### Ingestion

| code | TLA+ |
|---|---|
| position in `FetchAndStore` (service.go:58-112) | `pc` |
| the `for` over `currencies` with `group.Go` (73-77) | `next`, action `Go`, whose guard is `SetLimit` |
| body of a goroutine (76-85) | `task`; `FetchOk`/`FetchFails`, then `Send` |
| `outcomes` (68) | `outcomes`, bounded by `ChannelCapacity` |
| `group.Wait`, `close`, the draining loop (87-99) | `WaitReturns` |
| `UpsertRates(ctx, ...)` and the returns (101-111) | `UpsertOk`, `UpsertFails`, `UpsertCancelled` |
| the caller's `ctx`; `groupCtx` (70) | `ctx`; `GroupCtxEnded` |

Draining is one step with `Wait`: every goroutine has ended by then, so nothing
can come between.  `result.Saved` is what the loop keeps of the drained channel
(`Kept` is its body, `Drained` the loop) and is not stored twice.  A rate is
represented by the edition of the feed it was taken from.  The lists are any
repetition-free sequences, which is what `normalizeCurrencies` returns.

### RateStore

The client side has one action per statement of `UpsertRates`: `BeginTx` (with
the wait for a connection), `TakeSnapshot` and `UpsertRow` for the statements of
the loop, `ServerCommits`/`CommitReturns`, the deferred `Rollback`, and one
action per way out (`BeginFails`, `RowRefused`, `RowGivesUp`, `CommitGivesUp`,
`RollbackUnsent`).  The server side is PostgreSQL as far as this code depends
on it, under SERIALIZABLE (repository.go:39):

- a row written stays locked until the transaction ends *at the server*;
- a snapshot is taken when the first statement begins, before it waits;
- an update of a row committed after the snapshot fails (40001);
- a cycle of waits is broken by aborting one of its members (40P01);
- a transaction may be refused at `COMMIT`;
- a `COMMIT` already sent may be processed after the client has given up;
- a connection closed without a word is noticed at some later time;
- a restart keeps what was committed and drops what was not.

A row is recorded by the two calls that determine it: the one whose `id` it
carries and the one whose rate and publication date it carries.  Conversion to
`NUMERIC(20,8)` and to setters (repository.go:46-49, 119-142) can only fail,
and appears as `RowRefused` and `RowGivesUp`.  `step` is the client's position
and `fate` the transaction's at the server; the two part ways exactly where the
network or a context comes between them.

### RatesService

`Publish` changes the feed; `Fetch` returns the edition served at that moment
and may reach the channel much later.  `CallUpsertRates` hands the rates of
the drained channel to `RateStore`; `UpsertReturns` brings its result back;
`Respond` computes the status as rates.go:43-49 does, or the exit code as
main.go:101-104 does; `ResponseLost` is a handler that outlives
`WRITE_TIMEOUT` (server.go:60) or its client.  `ProcessDies` kills all the calls
of the server at once, or one command.  Two history variables do not influence
behaviour: `before`, the calls that had ended when a call began, and `answer`.

`RowsOf` is the table as the queries see it; `ReadYourFetch`, `LatestIsNewest`
and `HistoryIsComplete` ask them of every table the calls produce.

The key of a row is currency and effective date: source and base currency are
the same everywhere.  The connections of server and command are counted in one
pool of as many connections as both have, `MaxConns = 2` for two calls, so that
nobody waits for a connection here; waiting for one is in `MCRateStore`.

### BankLVParser

One call for one currency, one step per item of the feed.  A text is the
sequence of its fields (`strings.Fields` of title and description); a field is
told apart by being the code (`equal`), a longer word around it (`inside`) or
neither, and by the number `SetString` makes of it.  `Skip`, `Take` and `Abort`
are the three ways through the loop body (banklv.go:107-138), `Finish` what
follows it, `NoFeed` every failure before it.  Dates are hours: those of a feed
in UTC, as `parseRSSDate` returns them, and the fallback as the local clock shows
it, because `dateOnly` keeps the zone of `time.Now()`.  Amounts are counted in
the ninth decimal, of which `Rounded` keeps eight.  Any other text that bank.lv
may send is some sequence of such fields.

### RateLimiter

One Redis key, because keys do not interact.  Time is in ticks.  `Incr`,
`Expire`, then `Serve` or `Refuse` are the three moments of the handler
(middleware.go:12-27); `IncrUnanswered` is an `INCR` that Redis counted and whose
answer was lost, after which go-redis sends it again or gives up; `IncrFails`
fails open, and the request is served uncounted; `ExpireFails` is the dropped
error.  Ticks, other requests, a restart of Redis and the death of the process
may come between any two.  The counter stops at `Enough = Limit + 2`: beyond the
limit the values are not told apart, and 1 is reached only from 0.

`env/docker-compose.yaml` runs the Redis image with its own settings, which save
a snapshot now and then.  `disk` is the key in the last one; `RedisRestarts`
goes on from it, with an older count, with a key that has no time to live, or,
when nothing was saved, without the key.  A snapshot holds the time at which the
key expires, so the time to live on disk runs down like the other.  Two
variables are history: `age` says how long ago each request passed the `INCR`,
`lossAge` how long ago Redis restarted.  No fault touches either; a request is
forgotten, and its name used again, when it was refused, when its process died,
or when it was served and is a whole window old.

`Faults` chooses what may go wrong.  The bound on a window is checked and proved
with all of it.  That a counting period ends is true only while each period's
`EXPIRE` arrives: `limiter_period` excludes failing `EXPIRE`s, answers to `INCR`
that are lost after Redis counted, processes that die between the two commands,
and snapshots, for each of them can leave a key without a time to live.

### RatesQueries

A query is one statement and sees one state of the table, so the queries are
operators on a set of rows and need no state of their own.  `ORDER BY` leaves
equal rows in any order: `LatestRates` and `History` are therefore the *sets* of
answers there can be, and the properties quantify over them.  `FirstOfEach` is
the map of `LatestRates` (repository.go:77-83) with the sort after it.  Quote
currencies and dates are numbers, ordered as they are.  `DefaultLimit` and
`MaxLimit` stand for 100 and 500.

### Currencies, ApiRoutes

A name is the code it comes to after trimming and upper case, or `Blank`, and a
form that keeps two spellings apart; `Split` and `Mention` are the bodies of the
two loops over such names.

A request is an input record: route, whether `wantsHTML` is true of it, body,
whether the trimmed currency has three bytes, and which parameter, of the path or
of the query, cannot be bound first.  `at` is where its handler is; `sent` the statuses passed to
`WriteHeader`, so that a second one would be seen; `calls` what was asked of
Redis, PostgreSQL and bank.lv for it.  An action is what a handler does from one
such call to the next.  Order is the code's: the limiter before any route
(server.go:72-74), the wrapper's binding before the handler's check of the
length (openapi.gen.go:142-199, rates.go:53-56), decoding of the body before
the choice of the list.  `WriteFails` is an answer that does not get through;
the generated wrapper may then pass a second status to `WriteHeader`.
`PostRatesFetch` leaves out the 500 for a server without a fetcher
(rates.go:26-28): `main` always gives it one.

### Lifecycle

| code | TLA+ |
|---|---|
| `main` with its defers and `log.Fatal`s (main.go:26-117) | `main`, `code`; `StartFails`, `RunServe`, `RunFetch`, `FetchEnds`, `RunReturns`, `ClosePool`, `MainReturns` |
| `signal.NotifyContext` (27-28) | `told`, `Interrupt` |
| `Load` (config.go:88-131) | `LoadFails`; `config` is what the server keeps of the settings |
| goroutine in `ListenAndServe` (service.go:22-28) | `listener`; `Listen`, `ListenerFails` |
| goroutine that waits for the group's context (30-33) | `shutdown`; `BeginShutdown`, `ShutdownReturns`, which waits for `Drained` |
| `group.Wait` (35) | `RunIsOver` |

`connected` says that the listener has listened, so that connections may be open:
a request comes over one of them, also after the listener has failed, and, at
most one for each connection, while `Shutdown` drains (net/http closes idle
connections and keeps none alive then).  `Shutdown` returns the error of closing
the listener, if there is one, after it has drained.

The handlers' contexts do not come from the signal's (server.go:61-63), so
nothing in `ApiRoutes` depends on `told`.  What a fetch does inside is
`RatesService`; here it is a call that ends some time, or never.

### ExchangeRateModel, RateFactory

The session has one object in its hands, `held`, and one slice, `items`.
Objects are pointers: an element of the slice may be the held object (`same`)
and then changes with it.  A setter is a function from columns to a value or
`Unset`; `Null` is a value of the one nullable column.  `SetColumns`,
`Overwrite`, `Apply` and `Expressions` are its four methods, each translated on
its own, with `MethodsAgree` to compare them.  The table is a function from ids
to rows, with the constraints that `dbinfo` and `dberrors` name; UPDATE and
INSERT return the one they break.  `copyMatchingRows` makes new elements and
leaves the old objects alone, which is how the code differs from the calls on
one object.  A statement and the copying of what it returned are one step:
another session may change the rows in between, but it sees nothing of the
objects and the copying nothing of the table, so the two may change places.

`ObjectsFollowRows` compares objects with the rows as the statement left them.
For a slice it says nothing of an UPDATE that gives rows other ids.
`copyMatchingRows` looks for the element whose id a returned row *now* has
(bob/exchange_rates.bob.go:410-421): an element whose row went to an id that no
element has is left as it was, and an element that had the id takes the content
of a row it never stood for.  That is in the model; nothing in the repository
promises otherwise, so it is a hazard and not a property.

A template has a function per column: none (`Unset`), one that returns a value,
or one that draws (`Random`); what is drawn is any row of values that are not
NULL (a comment at factory/exchange_rates.bob.go:510 says that
`RandomSourcePublishedAt` gives NULL sometimes; its code does not).  A template
is made where it is used; those of `FromExistingExchangeRate` read the object
when they are used (factory/bobfactory_main.bob.go:43-50), so that a snapshot of
it at that moment is the same.  `CreateMany` is a statement per row, leaves the
rows it made behind when a later one fails, and may be interrupted by the other session, and end, between any two.

## What the runs check

| run | instance | shows |
|---|---|---|
| `ingestion_pool` | 1 call, lists of 0 to 3 of three currencies, 2 workers | pool bookkeeping, one outcome per currency, sends never block, truthful error; a cancelled call returns |
| `rate_store` | 3 calls, 2 rows in opposite orders, 2 connections | atomicity by refinement of `AtomicUpsert`, row locks, no overwriting of what was not seen, row identity, connections come back, every call ends |
| `answers` | 1 request and 1 command, lists of 0 to 2 currencies, 1 edition | 200, exit 0 and 500 are true of the table; `RateStore` is called as it assumes |
| `editions` | 1 request and 1 command, each for one of 2 currencies, 3 editions on 2 dates | an older edition replaces a newer one only between overlapping calls; after a 200 both queries show what was fetched; in every state of the table `LatestRates` shows the newest row of each currency and `History` has no gap |
| `parser` | every feed of 0 to 3 items over 7 texts and 4 datings | the latest day wins, failures have a reason, rounding |
| `limiter` | 4 requests, limit 2, window 2, one restart remembered, every fault | what one window lets through is bounded by two counting periods, one more for a restart, and what Redis did not answer |
| `limiter_period` | 3 requests, limit 1, window 2, restarts the only fault | the same around a restart; a counting period ends |
| `lifecycle` | 2 requests of 18 inputs, 7 environments | refused requests do no work, the list fetched is the one named, nothing used after close, true exit code, the process stops unless a handler hangs |
| `models` | 2 ids, 2 quote currencies, 3 setters, 4 lists of mods, `CreateMany` of 2 | the methods of a setter and the uses of a template agree; a creation can only fail on a key; statements touch their rows only; objects follow their rows |
| `saved_is_stored` | as `answers` | violation, see Findings |
| `limiter_stuck` | as `limiter_period`, but `EXPIRE` may fail and Redis does not restart | violation, see Findings |
| `invalid_date` | as `lifecycle`, a history request with a date that is none | violation, see Findings |

Why these bounds.  Calls of `FetchAndStore` share nothing but the database, so
one suffices for the pool; three currencies on two workers is the smallest
instance where `group.Go` blocks and where a channel the size of the pool would
fill.  Two transactions with opposite orders deadlock, and the third is there to
wait for a connection, or for a row that the victim of the deadlock held. In the
composed runs `Concurrency` is 1 because scheduling within a call is
`ingestion_pool`'s subject; outcomes still arrive as successes and failures in
every combination.  Three editions give two of one date (the bank corrects a
rate) and one of another; a second currency makes a table in which the rows of
one must not hide those of the other, and the limits 1 and 2 are both reached
and passed by its rows.  Three items are enough for two of one day and one of
another, in any order, with an unreadable one before, between or after; the
seven texts take every branch of `extractRate` and `normalizeRate`.  A limit of
two lets three requests pass in a window that no restart falls into, and a fourth
would break that bound; around one restart a limit of one lets two pass, and a
third would break it.  Two ticks let a period begin, and an `EXPIRE` arrive, in
the middle of a window. Handlers share nothing but the
process, so in `lifecycle` one is enough to be under way when it stops and the
second to arrive meanwhile; the inputs take every branch of `ApiRoutes`, the
environments every branch of `main`.  Two ids and two quote currencies give the
unique keys something to collide in; the other columns have one value because no
statement tells their values apart. `models` uses a `VIEW` that leaves out the
last call and its result: nothing that follows depends on them, and action
properties are evaluated on steps. TLC stops on deadlock in every run:
`AllEnded`, `StoreEnded`, `AllAnswered`, `Returned` and `Ended` are the only
states that may stay as they are.

### Fairness

- `IngestFairness`: the Go scheduler runs a goroutine that can run, so `Go`,
  `Send` and `WaitReturns` are weakly fair.  A fetch is **not** assumed to end:
  `http.Client{}` has no timeout (main.go:69, 87).  What ends it is its context,
  hence fairness of `GroupCtxEnded /\ FetchFails` and of `UpsertCancelled` only.
- `StoreFairness`: the client makes its next step when it can; the server
  answers a statement that waits for no lock, breaks deadlocks
  (`deadlock_timeout`), processes a `COMMIT` or notices a closed connection.  No
  fairness on cancellation, refusal, death or restart.
- `LimiterFairness`: time passes and a handler that has begun reaches `EXPIRE`.

- `LifeFairness`: main, both goroutines of `Run`, and a handler that waits for
  nothing make their next step.  **No** fairness on what PostgreSQL and bank.lv
  answer (`Outside`): there is no timeout on either, and `Shutdown` is called
  with `context.Background()` (service.go:32).  So the process is shown to stop
  *or* to have a handler that waits for ever.  A `fetch` command that was
  interrupted does end, by `CancelledCallReturns`.

`RatesService` and `RateFactory` claim safety only and state no fairness.

### Findings

1. **Rates listed as saved that are not** (`saved_is_stored`, rates.go:43-49).
   `FetchAndStore` returns the fetched rates in `result.Saved` also when
   `UpsertRates` failed (service.go:102-103).  The handler's 500 is guarded by
   `len(result.Saved) == 0`, so the answer is 207 with those rates under
   `saved`, and none is in the table.  README.md:69 says that rates are stored
   after the call returns; docs/openapi.yaml:99 describes 207 as partial
   failures.
2. **A limit that never resets** (`limiter_stuck`, middleware.go:19-21).  Only
   the request that created the key sends `EXPIRE`, and its error is dropped.  In
   the run nothing else can go wrong: `INCR` is answered 1, the `EXPIRE` fails,
   the key never expires, and a client past the limit is refused until the key
   is deleted.
3. **A date that is none gets 400** (`invalid_date`, openapi.gen.go:309-313,
   server.go:82-98).  docs/openapi.yaml:63-64 gives the history a 422 for an
   "Invalid currency or date." and declares no 400.  The wrapper binds `from`
   and `to` before the handler runs, and `routes` passes no error handler for
   that, so the generated default answers.

## What is proved

For all values of the constants that satisfy the named assumptions.  None of the
proofs depends on fairness: `[][Next]_vars` and the initial condition are all
they use.

`IngestionProofs`, from `ConcurrencyAssumption`, `VersionAssumption`,
`ListsAssumption`:

- `IngestInvariant`: the conjunction of the types and `PoolInvariant` is
  inductive.  `SendNeverBlocks` is not: it has to be known that each outcome in
  the channel belongs to a different goroutine that has ended.  `PoolOK` says so:
  the started goroutines are those of `list[1..next-1]`, the currencies
  reported are those of the ended goroutines, and the length of the channel is
  the *number* of ended goroutines.
- `SendsNeverBlock`: a goroutine about to send is started and not ended, so the
  ended ones are a proper subset of those listed, of which there are at most as
  many as the list is long.
- `EveryCurrencyHasOneOutcome`: after `Wait` nobody is running, so all listed
  have ended; a sequence as long as the set of its elements has no repetition.
- `ErrorsAreTruthful`, `PoolIsKept`, `IngestTypeCorrect`.
- The lemmas `SavedFacts` and `SavedOnce`, which `RatesServiceProofs` builds on:
  what the loop over the drained channel keeps are the rates in it, all of them,
  and no currency twice.

`RateStoreProofs`, from `NoRowAssumption`, `PoolAssumption`,
`BatchesAssumption`:

- `StoreInvariant`: types, `ControlOK` (how far a call is, by its `step` and
  `fate`), `WorkIsCurrent` and `ReplacesWhatItSees` are inductive together.  The
  work of an open transaction is computed from the table at the time of each
  statement and applied at the commit, so atomicity needs that the table has not
  changed under a locked row in between.  That is `WorkIsCurrent`: locks
  are exclusive, and a commit writes only rows it has locked.
- `StoreRefinesAtomicUpsert`: under that invariant, `ServerCommits` is
  `AtomicUpsert!Apply`, and every other step is another step of it or a
  stutter.
- `UnseenIsKept`, `IdentityIsKept`: action properties, from the invariant.
- `RecordsAreTrue`: what rows, batches and snapshots say of each other over any
  number of calls.  A row names calls that committed and whose batch has its
  key; a committed batch has all its rows from then on; a snapshot contains
  committed calls only.
- `WorkStaysCurrent`, `ConnectionsAreReturned`, `StoreTypeCorrect`.

`RatesServiceProofs`, from the assumptions of `Ingestion`, `ColumnAssumption`,
`EditionAssumption`, `StoreAssumption`, `CommandsAssumption` and
`LimitAssumption`, for any number of requests and commands:

- `ServiceInvariant`: the invariants of the two components, and three statements
  per call that join them.  `LinkOK`: the repository is idle until the channel
  is drained, and the batch it then gets is what was drained, so that an answer,
  which is made from the error and the outcomes, says something of the table.
  `EditionOK`: nothing is fetched before it is published.  `PastOK`: a call that
  had ended when another began takes no further step, its snapshot does not
  contain the other, and what it fetched is no later than what the other does.
- The invariant of `RateStore` holds inside the service because `RateStoreProofs`
  is instantiated with the service's calls and keys.  That needs its assumptions,
  above all that a batch repeats no key: `BatchIsProper`, from `SavedOnce`.  Every
  step of the service is a step of the store or leaves it alone
  (`StoreIsUsedWell`).
- `ServiceStoresAtomically`: the service refines `AtomicUpsert`, because its steps are
  steps of the store and the store's invariant holds in it.
- `OkIsStored`: 200 means that `UpsertRates` returned without an error, so the
  batch is committed; no outcome failed, so it has a rate for every currency
  listed.
- `ServerErrorStoresNothing`: a 500 means that there was nothing to save, so the
  repository was never called.
- `LaterCallWins`: if one of the two calls had ended before the other began,
  either `PastOK` orders their editions, or the older writer has no further step.
- `LatestStaysNewest`, `HistoryStaysComplete`: of the queries for any finite set
  of rows (`LatestIsRight`, `HistoryIsRight`), applied to the table, whose rows
  are finitely many because columns are of finite types.
- `FetchedIsRead` combines `OkIsStored` with both; `ServiceTypeCorrect`.

`BankLVParserProofs`, from `FeedsAssumption` (feeds are sequences of items, of any
length) and `ClockAssumption`:

- `ParserInvariant`: the loop invariant.  After `at - 1` items `latest` is what
  `LatestOf` says of them, the rate of the first item of the latest day; every
  item passed that mentions the code was readable.  `OneMoreItem` is the step of
  the argument: a further item either is of a later day than the winner, and then
  than all others, or leaves it the winner.
- `LatestRateWins`, `FailuresHaveReasons`, `RatesAreNearest` follow at the end of
  the loop; `ParserTypeCorrect`.

`RateLimiterProofs`, from `LimiterAssumption` and `FiniteAssumption` (only so many
requests and restarts are remembered at a time), for any number of both, any limit
and window, and any of the faults:

- `LimiterInvariant`: types, `KeyInv` (a time to live belongs to a key, and the one
  on disk is no longer) and `Lives`.  `LimitsPerWindow` counts requests;
  inductive is where they come from.  Each recent one was counted by some life of
  the key, and within a life counts are all different and at most `Limit`.  Which
  lives reach into a window?  The present one; the one before, if its time to
  live ended it; and one for each restart in the window, which cuts a life short
  and lets an older one go on.  Why not two that were ended by a time to live?
  Some `EXPIRE` gave that time to *this* life a whole window before, whoever sent
  it, and by then the requests of the life before, and the one that created this
  life, had been counted (`OutBy`): when the time is up they are no longer
  recent.  This is also why the bound is not reached: of the life before, count 1
  is never recent.
- `PassingIsBounded`: recent requests have different places, a life and a count
  (`RecentPlaced`), and `PlacesCounted` says how many there are.
- `LimiterTypeCorrect`.

`LifecycleProofs`, for any requests, inputs and environments:

- `LifeInvariant`: three parts that need each other.  `HandlersInv` relates the
  stage of a request to its answer and its calls.  `DrainInv`: a handler under
  way implies that main is serving and `Shutdown` has not returned; it is kept
  when a request arrives because connections are open only under the same
  condition.  `RunInv` also ties the exit code to the listener and to `Shutdown`.
- `ResourcesOutliveHandlers`, `ExitCodeTellsTheTruth`, `RefusalsCostNothing`; and
  `AnswersAreSingle`, that no handler goes on after it has answered.  The last is
  not checked by a run: it follows from what `HandlersInv` says of one handler.
- `NamedInvariant`: a list handed to `FetchAndStore` is `normalizeCurrencies` of
  the list chosen from body, settings or defaults.  The settings that it is
  chosen from are read once, before any request arrives, hence the first
  conjunct of `NamedOK`: while main is starting no request is under way.
- `FetchesAreNamed`, with `CodeAssumption`, `InputsAssumption` and
  `SettingsAssumption`: of the loop of `normalizeCurrencies`, for lists of any
  length, `MentionsAll` (each code named, and no other) and `MentionsInOrder` (in
  the order of first mention, so each once).
- `LifeTypeCorrect`; that `splitCurrencies` returns names is `SplitType`.

`ModelProofs`, from `DomainAssumption`, `SettersAssumption`,
`RecipesAssumption`, `IdAssumption` (there are finitely many ids, as of UUIDs),
`NilAssumption` (a nil pointer is not an object) and `RandomAssumption` (a
function that draws is a function):

- `TableStaysKeyed`: the row filed under an id has that id.  It is needed
  because an UPDATE may change ids: `OthersAreKept` shows that a row outside the
  statement stays what it was, since another row that took its id would have
  broken the primary key.
- `StatementsTouchTheirRows` follows.
- `SetterMethodsAgree`, `CreatedRowsAreComplete`: of operators, for every setter,
  row and template.
- `ModelInvariant`: besides keys, the types of rows (`RowsInv`), what the
  objects in memory contain and that elements shared with the held object change
  with it (`ObjectsInv`), and that a `CreateMany` in the middle has a proper
  template (`CallsInv`).
- `ObjectsAreFresh` and `CreatesAreComplete` follow step by step.  The core of the
  first are `UpdateMovesNone` (an UPDATE after which the same ids are stored has
  moved no row) and `UpdatedIsFound` (a returned row is found in the table under
  its id, because two rows of one statement that took the same id would have
  broken the primary key).
- `TemplatesAlwaysAgree`: `ModsApplied` shows what the loop over mods of any
  length leaves in a template, `SetColumnsFacts` which columns `SetColumns`
  lists.
- `ModelTypeCorrect`.

`LoopLemmas`: a loop over a slice is a recursive function of its turns.  The
library's induction theorems take an operator as a parameter and cannot be used
here; `TurnInduction` states induction of a *set* of turn numbers, from the
least number of a nonempty set, and `Accumulator` that a loop has such a
function.  The proofs about `Drained`, `splitCurrencies`, `normalizeCurrencies`,
`SetColumns` and the mods of a template rest on these two.

Only model-checked: the liveness properties `CancelledCallReturns`,
`EveryUpsertEnds`, `PeriodEnds` and `StopsUnlessAHandlerHangs`, because liveness
under fairness is out of the prover's reach, and the three violations under
Findings, each of which is a counterexample and needs no proof.  Every
invariant and every action property that a passing run checks is a theorem as
well.

## Not modelled

- The request log (`log`, middleware.go:30-40), printed texts and the logger: they
  change no state.
- Of the generated models: hooks (the repository registers none, so each is a
  loop over nothing), joins, counts, loaders, `Exists`, `MergeMod` and the query
  mods nobody calls (`bob_*.bob.go`, the `where` and `select` helpers).  Their
  bodies build SQL for tables with relations; this schema has one table and
  no relation.
- A template kept from one call to the next: templates are made where they are
  used, and nothing in the repository keeps one.
- The contents of the API documents, command line parsing beyond the command's
  name, addresses, URIs and durations, which are only passed on.
- The total load on bank.lv: the limit of `FETCH_CONCURRENCY` is per call, and
  nothing in the repository claims more.
- `clientIP`, which only chooses the key.
