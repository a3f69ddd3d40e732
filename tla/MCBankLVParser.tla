--------------------------- MODULE MCBankLVParser ---------------------------
(* BankLVParser for TLC: feeds of up to three items over texts with the    *)
(* code before its number, after it, inside a word only, alone, twice, or  *)
(* not at all, and dates on two days, missing, or only in the second field.*)
EXTENDS BankLVParser

F(c, n) == [code |-> c, num |-> n]

Gbp    == F("equal", 0)
GbpEur == F("inside", 0)
Eur    == F("absent", 0)

MCTexts == {
  <<Gbp, F("absent", 8567), Eur>>,     \* GBP and its number, others follow
  <<F("absent", 12), Gbp>>,            \* 1 EUR = 0.000000012 GBP
  <<Gbp, F("absent", 4)>>,             \* rounded to nothing
  <<Gbp, F("absent", -12)>>,
  <<GbpEur, Gbp, F("absent", 25)>>,
  <<GbpEur, F("absent", 30)>>,
  <<Eur, F("absent", 10)>> }

(* pubDate and date, in hours: the evening of day 0, the morning of day 1. *)
MCDates == {<<20, NoDate>>, <<30, NoDate>>, <<NoDate, 30>>, <<NoDate, NoDate>>}

MCItems == {[text |-> t, pubDate |-> d[1], date |-> d[2]] : t \in MCTexts, d \in MCDates}

MCFeeds == UNION {[1..n -> MCItems] : n \in 0..3}

(* Soon after a midnight that UTC has yet to see, and the afternoon before.*)
MCClock == {16, 25}
=============================================================================
