----------------------------- MODULE RatesQueries -----------------------------
(***************************************************************************)
(* The two queries of the repository, LatestRates and History, and what    *)
(* the handlers make of their rows.                                        *)
(*                                                                         *)
(* A query is one statement and sees one state of the table, here a set of *)
(* rows with the columns of exchange_rates.  ORDER BY leaves the order of  *)
(* equal rows open, so an operator returns the set of possible answers.    *)
(* Quote currencies and dates are numbers that order as they do.           *)
(***************************************************************************)
EXTENDS Integers, Sequences, FiniteSets, SequencesExt

CONSTANTS
  DefaultLimit,  \* 100
  MaxLimit,      \* 500
  NoDate         \* a bound the client did not give

ASSUME LimitAssumption == DefaultLimit \in 1..MaxLimit /\ MaxLimit \in Nat

Ordered(rows, Before(_, _)) ==
  {s \in SetToSeqs(rows) : \A i, j \in 1..Len(s) : i < j => ~Before(s[j], s[i])}

ByQuote(a, b)  == a.quote_currency < b.quote_currency

(* Mutant of ByNewest: ascending.                                          *)
ByOldest(a, b) == a.effective_date < b.effective_date
ByNewest(a, b) == a.effective_date > b.effective_date

ByQuoteThenNewest(a, b) ==
  ByQuote(a, b) \/ (a.quote_currency = b.quote_currency /\ ByNewest(a, b))

(* The map of LatestRates holds the first row of each currency; its values *)
(* are then sorted.                                                        *)
FirstOfEach(s) ==
  {s[i] : i \in {i \in 1..Len(s) :
                   \A j \in 1..(i - 1) : s[j].quote_currency # s[i].quote_currency}}

(* toEntity and toResponses: the columns a client is shown.                *)
Response(row) == [id |-> row.id, currency |-> row.quote_currency, rate |-> row.rate,
                  effective_date |-> row.effective_date, source |-> row.source]

Responses(s) == [i \in 1..Len(s) |-> Response(s[i])]

LatestRates(rows) ==
  {Responses(l) : l \in UNION {Ordered(FirstOfEach(s), ByQuote) :
                                 s \in Ordered(rows, ByQuoteThenNewest)}}

(* Mutant of Clamp: a large limit is cut off instead of replaced, and so   *)
(* is none.                                                                *)
ClampToRange(limit) == IF limit > MaxLimit THEN MaxLimit ELSE limit

(* Also what a limit that was not given becomes, which is 0 (rates.go:58). *)
Clamp(limit) == IF limit <= 0 \/ limit > MaxLimit THEN DefaultLimit ELSE limit

Matches(row, quote, from, to) ==
  /\ row.quote_currency = quote
  /\ from # NoDate => row.effective_date >= from
  /\ to # NoDate => row.effective_date <= to

History(rows, quote, from, to, limit) ==
  {Responses(SubSeq(s, 1, IF Clamp(limit) < Len(s) THEN Clamp(limit) ELSE Len(s))) :
     s \in Ordered({row \in rows : Matches(row, quote, from, to)}, ByNewest)}

-----------------------------------------------------------------------------

(* GET /rates shows every stored currency once, in alphabetical order, and *)
(* of each a row than which none is newer (repository.go:69-92;            *)
(* docs/openapi.yaml:13 "latest stored rates for all currencies").         *)
ShowsTheLatest(rows) ==
  \A answer \in LatestRates(rows) :
    /\ {a.currency : a \in ToSet(answer)} = {row.quote_currency : row \in rows}
    /\ \A i, j \in 1..Len(answer) : i < j => answer[i].currency < answer[j].currency
    /\ \A a \in ToSet(answer) :
         /\ \E row \in rows : a = Response(row)
         /\ \A row \in rows : row.quote_currency = a.currency =>
                                row.effective_date <= a.effective_date

(* A history has no gap: newest first, within its bounds, and what it      *)
(* leaves out is no newer than what it shows.  A limit from 1 to MaxLimit  *)
(* is kept to; without one, or beyond, DefaultLimit is (repository.go:95-  *)
(* 117).                                                                   *)
ShowsHistory(rows, quote, from, to, limit) ==
  LET all  == {row \in rows : Matches(row, quote, from, to)}
      most == IF limit \in 1..MaxLimit THEN limit ELSE DefaultLimit IN
  \A answer \in History(rows, quote, from, to, limit) :
    LET shown == ToSet(answer) IN
    /\ Len(answer) = IF Cardinality(all) < most THEN Cardinality(all) ELSE most
    /\ shown \subseteq {Response(row) : row \in all}
    /\ \A i, j \in 1..Len(answer) :
         i < j => answer[i].effective_date >= answer[j].effective_date
    /\ \A row \in all : Response(row) \notin shown =>
         \A a \in shown : row.effective_date <= a.effective_date

=============================================================================
