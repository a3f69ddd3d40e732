------------------------------- MODULE ApiRoutes -------------------------------
(***************************************************************************)
(* A request through the HTTP server: the middleware and routes of         *)
(* server.go, the generated wrappers of openapi.gen.go, the handlers of    *)
(* rates.go, and the answer.                                               *)
(*                                                                         *)
(* Handlers run at the same time and share nothing here; they meet when    *)
(* the server is told to stop (module Lifecycle).  What Redis decides is   *)
(* the subject of RateLimiter, what FetchAndStore returns that of          *)
(* RatesService, what the queries return that of RatesQueries: here each   *)
(* is a call that takes some time and succeeds or fails.                   *)
(***************************************************************************)
EXTENDS Currencies

CONSTANTS
  Request,    \* requests under way
  Inputs,     \* what a client may send: see Input
  NoInput,
  Malformed   \* a body that is not JSON of the right shape

VARIABLES
  config,     \* config.Config, as far as the server reads it: see Config
  req,        \* per request, what was sent
  at,         \* per request, where its handler is: see Stage
  sent,       \* per request, the statuses passed to WriteHeader, in order
  calls,      \* history: per request, the outside calls made for it
  handed      \* per request, the list FetchAndStore works on, or NoBody

apiVars == <<req, at, sent, calls, handed>>

Route == {"health", "root", "rates", "fetch", "history", "docs", "docsroot",
          "other", "othermethod"}

(* html: a GET that wantsHTML is true of.  body: the list, NoBody, or      *)
(* Malformed.  three: the trimmed currency has three bytes.  unbound: the  *)
(* first parameter that cannot be bound, that of the path before those of  *)
(* the query.                                                              *)
Input == [route : Route, html : BOOLEAN, body : Seq(Name) \cup {NoBody, Malformed},
          three : BOOLEAN, unbound : {"none", "path", "date", "limit"}]

ASSUME InputsAssumption == Inputs \subseteq Input /\ NoInput \notin Inputs

Config == [limited : BOOLEAN, currencies : Seq(Name)]

Waits  == {"ping", "query", "fetch"}
Stage  == {"idle", "limiter", "router", "visit", "done", "lost", "cut"} \cup Waits
Call   == {"redis", "ping", "query", "fetch"}
Status == {200, 206, 207, 301, 302, 304, 400, 404, 405, 412, 416, 422, 429, 500, 503}

Active(r) == at[r] \notin {"idle", "done", "lost", "cut"}

-----------------------------------------------------------------------------

ApiInit ==
  /\ req    = [r \in Request |-> NoInput]
  /\ at     = [r \in Request |-> "idle"]
  /\ sent   = [r \in Request |-> <<>>]
  /\ calls  = [r \in Request |-> {}]
  /\ handed = [r \in Request |-> NoBody]

Go(r, stage) == at' = [at EXCEPT ![r] = stage]

(* A call of something outside: the handler goes on when it returns.       *)
Ask(r, call, stage) ==
  /\ calls' = [calls EXCEPT ![r] = @ \cup {call}]
  /\ Go(r, stage)

(* writeJSON, writeError, http.Error, http.Redirect: a status and a body,  *)
(* after which the handler returns.                                        *)
Answer(r, status) ==
  /\ sent' = [sent EXCEPT ![r] = Append(@, status)]
  /\ Go(r, "done")

AtRoute(r, route) == at[r] = "router" /\ req[r].route = route

(* The chain of r.Use: the limiter is in it only if it is enabled, and     *)
(* comes before any route is looked up.                                    *)
Arrive(r) ==
  /\ at[r] = "idle"
  /\ \E i \in Inputs : req' = [req EXCEPT ![r] = i]
  /\ Go(r, IF config.limited THEN "limiter" ELSE "router")
  /\ UNCHANGED <<sent, calls, handed>>

LimiterRefuses(r) ==
  /\ at[r] = "limiter"
  /\ calls' = [calls EXCEPT ![r] = @ \cup {"redis"}]
  /\ Answer(r, 429)
  /\ UNCHANGED <<req, handed>>

LimiterAdmits(r) ==
  /\ at[r] = "limiter"
  /\ Ask(r, "redis", "router")
  /\ UNCHANGED <<req, sent, handed>>

(* notFound: a browser is sent to the documents.                           *)
NotFoundStatus(i) == IF i.html THEN 302 ELSE 404

(* The routes that answer at once: "/", the documents, no such path, no    *)
(* such method.  http.FileServer also answers ranges and conditions: the   *)
(* embedded files have neither a time nor an ETag.                         *)
StaticStatus(i) ==
  CASE i.route = "root"         -> {302}
    [] i.route = "docsroot"    -> {301}
    [] i.route = "docs"         -> {200, 206, 301, 304, 404, 412, 416}
    [] i.route = "other"        -> {NotFoundStatus(i)}
    [] i.route = "othermethod" -> {405}
    [] OTHER                    -> {}

Static(r) ==
  /\ at[r] = "router"
  /\ \E s \in StaticStatus(req[r]) : Answer(r, s)
  /\ UNCHANGED <<req, calls, handed>>

Health(r) ==
  /\ AtRoute(r, "health")
  /\ Ask(r, "ping", "ping")
  /\ UNCHANGED <<req, sent, handed>>

PingReturns(r) ==
  /\ at[r] = "ping"
  /\ \E s \in {200, 503} : Answer(r, s)
  /\ UNCHANGED <<req, calls, handed>>

GetRates(r) ==
  /\ AtRoute(r, "rates")
  /\ Ask(r, "query", "query")
  /\ UNCHANGED <<req, sent, handed>>

(* The wrapper binds the parameters.  No ErrorHandlerFunc is passed to     *)
(* HandlerFromMuxWithBaseURL, so that one that cannot be bound gets the    *)
(* generated default, http.Error.                                          *)
NotBound(r) ==
  /\ AtRoute(r, "history")
  /\ req[r].unbound # "none"
  /\ Answer(r, 400)
  /\ UNCHANGED <<req, calls, handed>>

(* Then the handler looks at the length.                                   *)
GetHistory(r) ==
  /\ AtRoute(r, "history")
  /\ req[r].unbound = "none"
  /\ req[r].three
  /\ Ask(r, "query", "query")
  /\ UNCHANGED <<req, sent, handed>>

(* Mutant of HistoryRefuses: the currency is looked at after the query.    *)
RefusesAfterQuery(r) ==
  /\ AtRoute(r, "history")
  /\ req[r].unbound = "none"
  /\ ~req[r].three
  /\ calls' = [calls EXCEPT ![r] = @ \cup {"query"}]
  /\ sent' = [sent EXCEPT ![r] = Append(@, 422)]
  /\ Go(r, "visit")
  /\ UNCHANGED <<req, handed>>

HistoryRefuses(r) ==
  /\ AtRoute(r, "history")
  /\ req[r].unbound = "none"
  /\ ~req[r].three
  /\ sent' = [sent EXCEPT ![r] = Append(@, 422)]
  /\ Go(r, "visit")
  /\ UNCHANGED <<req, calls, handed>>

(* The repository's error becomes a 500 in the ResponseErrorHandlerFunc.   *)
QueryFails(r) ==
  /\ at[r] = "query"
  /\ Answer(r, 500)
  /\ UNCHANGED <<req, calls, handed>>

QueryReturns(r) ==
  /\ at[r] = "query"
  /\ sent' = [sent EXCEPT ![r] = Append(@, 200)]
  /\ Go(r, "visit")
  /\ UNCHANGED <<req, calls, handed>>

BodyRefused(r) ==
  /\ AtRoute(r, "fetch")
  /\ req[r].body = Malformed
  /\ Answer(r, 422)
  /\ UNCHANGED <<req, calls, handed>>

(* New is given a fetcher by main, so that the 500 for none never happens. *)
PostRatesFetch(r) ==
  /\ AtRoute(r, "fetch")
  /\ req[r].body # Malformed
  /\ handed' = [handed EXCEPT
       ![r] = normalizeCurrencies(ChooseList(req[r].body, config.currencies))]
  /\ Ask(r, "fetch", "fetch")
  /\ UNCHANGED <<req, sent>>

(* FetchAndStore refuses an empty list; RatesService says which of the     *)
(* three statuses it is otherwise.                                         *)
FetchReturns(r) ==
  /\ at[r] = "fetch"
  /\ \E s \in (IF handed[r] = <<>> THEN {500} ELSE {200, 207, 500}) :
       sent' = [sent EXCEPT ![r] = Append(@, s)]
  /\ Go(r, "visit")
  /\ UNCHANGED <<req, calls, handed>>

(* Visit...Response writes the encoded body after the status.              *)
Written(r) ==
  /\ at[r] = "visit"
  /\ Go(r, "done")
  /\ UNCHANGED <<req, sent, calls, handed>>

(* The client is gone or WRITE_TIMEOUT has passed.  If the write says so,  *)
(* the ResponseErrorHandlerFunc passes a second status to WriteHeader.     *)
WriteFails(r) ==
  /\ at[r] = "visit"
  /\ Go(r, "lost")
  /\ sent' \in {sent, [sent EXCEPT ![r] = Append(@, 500)]}
  /\ UNCHANGED <<req, calls, handed>>

Handle(r) ==
  \/ LimiterRefuses(r) \/ LimiterAdmits(r)
  \/ Static(r) \/ Health(r) \/ GetRates(r)
  \/ NotBound(r) \/ GetHistory(r) \/ HistoryRefuses(r)
  \/ BodyRefused(r) \/ PostRatesFetch(r)
  \/ Written(r) \/ WriteFails(r)

(* What the handler waits for, for as long as it takes.                    *)
OutsideReturns(r) == PingReturns(r) \/ QueryFails(r) \/ QueryReturns(r) \/ FetchReturns(r)

-----------------------------------------------------------------------------

ApiTypeOK ==
  /\ config \in Config
  /\ req \in [Request -> Inputs \cup {NoInput}]
  /\ at \in [Request -> Stage]
  /\ sent \in [Request -> Seq(Status)]
  /\ calls \in [Request -> SUBSET Call]
  /\ \A r \in Request : handed[r] # NoBody => handed[r] \in Seq(Code)

(* A request that is refused, not found or redirected cost the database    *)
(* and bank.lv nothing: validation, routes and limiter all come before the *)
(* first such call (server.go:72-101, openapi.gen.go:146-199,              *)
(* rates.go:53-56).                                                        *)
RejectedDoesNoWork ==
  \A r \in Request :
    sent[r] # <<>> /\ sent[r][1] \in {301, 302, 400, 404, 405, 422, 429} =>
      calls[r] \subseteq {"redis"}

(* A request whose answer arrives was given exactly one: no handler goes   *)
(* on after it has answered (middleware.go:22-25, server.go:104-118,       *)
(* openapi.gen.go:496-504).                                                *)
OneAnswerEach ==
  \A r \in Request : at[r] = "done" => Len(sent[r]) = 1

(* What FetchAndStore works on are the codes somebody named, each once, in *)
(* the order of first mention: those of the body as soon as the body has a *)
(* list, be it of blanks only, otherwise the configured ones, otherwise    *)
(* the defaults (rates.go:30-36, config.go:133-143, service.go:114-129).   *)
FetchesWhatWasNamed ==
  \A r \in Request : handed[r] # NoBody =>
    LET named == IF req[r].body \notin {NoBody, <<>>} THEN req[r].body
                 ELSE IF config.currencies # <<>> THEN config.currencies
                 ELSE AsWritten(Defaults)
        first(k) == CHOOSE i \in 1..Len(named) : /\ named[i].code = k
                                                 /\ \A j \in 1..(i - 1) : named[j].code # k
    IN /\ {handed[r][i] : i \in 1..Len(handed[r])} =
            {named[i].code : i \in 1..Len(named)} \ {Blank}
       /\ \A i, j \in 1..Len(handed[r]) : i < j => first(handed[r][i]) < first(handed[r][j])

(* docs/openapi.yaml:63-64 gives 422 to an "Invalid currency or date".     *)
InvalidDateIs422 ==
  \A r \in Request :
    /\ req[r] # NoInput
    /\ req[r].route = "history"
    /\ req[r].unbound = "date"
    /\ at[r] = "done"
    => sent[r][1] \in {422, 429}

=============================================================================
