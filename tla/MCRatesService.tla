--------------------------- MODULE MCRatesService ---------------------------
(* RatesService for TLC: one request to the server and one run of the      *)
(* fetch command.  Either up to two currencies and one edition of the feed *)
(* (how an answer relates to what is stored), or one of two currencies     *)
(* each and a feed that changes twice, once without changing its date (who *)
(* overwrites whom, and what is shown of it).                              *)
EXTENDS RatesService

gbp == 1
usd == 2

Both == {gbp, usd}

today    == 1
tomorrow == 2

OneDate      == {today}
OneEdition   == 1..1
TwoLists     == {<<>>, <<usd>>, <<gbp, usd>>}
SameDate     == [v \in OneEdition |-> today]

SomeDates    == {today, tomorrow}
SomeEditions == 1..3
OneEach      == {<<gbp>>, <<usd>>}
TwoDates     == [v \in SomeEditions |-> IF v < 3 THEN today ELSE tomorrow]
=============================================================================
