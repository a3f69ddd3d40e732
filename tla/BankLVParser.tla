---------------------------- MODULE BankLVParser ----------------------------
(***************************************************************************)
(* FetchCurrency and ParseBankLVRSS (src/internal/fetcher/banklv.go): one  *)
(* call for one currency, one step per item of the feed.                   *)
(*                                                                         *)
(* A text is the sequence of its fields, and a field is told apart by what *)
(* it is to the currency asked for and by the number it reads as.  Time is *)
(* counted in hours, amounts of a feed in units of the ninth decimal, so   *)
(* that there is a digit for the eight of FloatString(8) to round away.    *)
(***************************************************************************)
EXTENDS Integers, Sequences

CONSTANTS
  Feeds,   \* what bank.lv may serve: sequences of items
  Clock    \* what the local clock of the process may show then

NoDate == -1

(* "equal": the code itself, once cleanToken has trimmed the field;        *)
(* "inside": a longer word that contains it, like GBP/EUR.  What SetString *)
(* does not accept counts as 0, which is refused for the same reason.      *)
Field == [code : {"equal", "inside", "absent"}, num : Int]

(* The fields of title and description, and what parseRSSDate makes of the *)
(* two dates: UTC, or nothing when no layout fits.                         *)
Item == [text : Seq(Field), pubDate : Nat \cup {NoDate}, date : Nat \cup {NoDate}]

ASSUME FeedsAssumption == Feeds \subseteq Seq(Item)

ASSUME ClockAssumption == Clock \subseteq Nat

VARIABLES
  step,    \* where the call is: see ParseStep
  feed,    \* the items of the decoded feed
  now,     \* what f.now() returned
  at,      \* index of the item whose turn it is
  latest   \* the rate to return, NoRate while there is none

parserVars == <<step, feed, now, at, latest>>

ParseStep == {"request", "decode", "scan", "ok", "failed", "aborted", "notfound"}

NoRate == [amount |-> -1, day |-> 0, published |-> NoDate]

Day(hour) == hour \div 24

(* The filter looks for the code anywhere in the text.                     *)
Mentions(item) == \E i \in DOMAIN item.text : item.text[i].code # "absent"

(* extractRate takes the first field that is the code, and the field after *)
(* it; before it, if it is the last one.                                   *)
Codes(text)     == {i \in DOMAIN text : text[i].code = "equal"}
FirstCode(text) == CHOOSE i \in Codes(text) : \A j \in Codes(text) : i <= j
RateAt(text)    == IF FirstCode(text) < Len(text) THEN FirstCode(text) + 1
                   ELSE FirstCode(text) - 1

(* Mutant of Readable: the sign of the number is not looked at.            *)
ReadableAnySign(text) == Codes(text) # {} /\ RateAt(text) \in DOMAIN text

(* normalizeRate accepts what extractRate found.                           *)
Readable(text) ==
  /\ Codes(text) # {}
  /\ RateAt(text) \in DOMAIN text
  /\ text[RateAt(text)].num > 0

(* Mutant of Rounded: the ninth decimal is cut off.                        *)
RoundedDown(n) == n \div 10

(* rat.FloatString(8).                                                     *)
Rounded(n) == (n + 5) \div 10

(* The date of an item, and the day its rate is for; without a date it is  *)
(* today, where the process runs.                                          *)
PublishedAt(item) == IF item.pubDate # NoDate THEN item.pubDate ELSE item.date

EffectiveDate(item, fallback) ==
  IF PublishedAt(item) # NoDate THEN Day(PublishedAt(item)) ELSE Day(fallback)

RateOf(item, fallback) ==
  [amount    |-> Rounded(item.text[RateAt(item.text)].num),
   day       |-> EffectiveDate(item, fallback),
   published |-> PublishedAt(item)]

(* Mutant of Replaces: of two items of one day the last one is taken.      *)
ReplacesSameDay(item) == latest = NoRate \/ EffectiveDate(item, now) >= latest.day
Replaces(item)        == latest = NoRate \/ EffectiveDate(item, now) > latest.day

-----------------------------------------------------------------------------

ParserInit ==
  /\ step   = "request"
  /\ feed   = <<>>
  /\ now    = 0
  /\ at     = 1
  /\ latest = NoRate

Respond ==
  /\ step = "request"
  /\ step' = "decode"
  /\ now' \in Clock
  /\ UNCHANGED <<feed, at, latest>>

Decode ==
  /\ step = "decode"
  /\ step' = "scan"
  /\ feed' \in Feeds
  /\ UNCHANGED <<now, at, latest>>

(* No answer, a status other than 200, a context that has ended, or XML    *)
(* that is damaged or cut off at 2 MiB.                                    *)
NoFeed ==
  /\ step \in {"request", "decode"}
  /\ step' = "failed"
  /\ UNCHANGED <<feed, now, at, latest>>

Scanning == step = "scan" /\ at <= Len(feed)

Skip ==
  /\ Scanning
  /\ ~Mentions(feed[at])
  /\ at' = at + 1
  /\ UNCHANGED <<step, feed, now, latest>>

Take ==
  /\ Scanning
  /\ Mentions(feed[at])
  /\ Readable(feed[at].text)
  /\ at' = at + 1
  /\ latest' = IF Replaces(feed[at]) THEN RateOf(feed[at], now) ELSE latest
  /\ UNCHANGED <<step, feed, now>>

(* Mutant of Abort: an item without a rate is passed over.                 *)
AbortNot ==
  /\ Scanning
  /\ Mentions(feed[at])
  /\ ~Readable(feed[at].text)
  /\ at' = at + 1
  /\ UNCHANGED <<step, feed, now, latest>>

(* An item that mentions the code and has no rate ends the whole call.     *)
Abort ==
  /\ Scanning
  /\ Mentions(feed[at])
  /\ ~Readable(feed[at].text)
  /\ step' = "aborted"
  /\ UNCHANGED <<feed, now, at, latest>>

Finish ==
  /\ step = "scan"
  /\ at > Len(feed)
  /\ step' = IF latest = NoRate THEN "notfound" ELSE "ok"
  /\ UNCHANGED <<feed, now, at, latest>>

(* The call has returned.                                                  *)
Returned ==
  /\ step \in {"ok", "failed", "aborted", "notfound"}
  /\ UNCHANGED parserVars

ParserNext ==
  Respond \/ Decode \/ NoFeed \/ Skip \/ Take \/ Abort \/ Finish \/ Returned

ParserSpec == ParserInit /\ [][ParserNext]_parserVars

-----------------------------------------------------------------------------

(* Types; an amount is never negative.                                     *)
ParserTypeOK ==
  /\ step \in ParseStep
  /\ feed \in Feeds \cup {<<>>}
  /\ now \in Nat
  /\ at \in 1..(Len(feed) + 1)
  /\ latest \in [amount : Nat, day : Int, published : Nat \cup {NoDate}] \cup {NoRate}

(* Item i of feed f is the one to take among the first n: of those that    *)
(* mention the code none is of a later day, and none before it is of the   *)
(* same day.                                                               *)
Wins(f, fallback, n, i) ==
  /\ Mentions(f[i])
  /\ \A j \in 1..n : Mentions(f[j]) =>
       \/ EffectiveDate(f[j], fallback) < EffectiveDate(f[i], fallback)
       \/ EffectiveDate(f[j], fallback) = EffectiveDate(f[i], fallback) /\ i <= j

(* What r ought to be after n items: the rate of the item that wins among  *)
(* them, or none when none of them mentions the code.                      *)
LatestOf(f, fallback, n, r) ==
  IF r = NoRate
  THEN \A j \in 1..n : ~Mentions(f[j])
  ELSE \E i \in 1..n : Wins(f, fallback, n, i) /\ r = RateOf(f[i], fallback)

(* The rate returned is that of the latest day in the whole feed, wherever *)
(* its item stands and whether its day is published or, for want of a      *)
(* date, today's; of one day, the first (banklv.go:107-138).               *)
LatestWins ==
  step = "ok" =>
    \E i \in 1..Len(feed) : /\ Wins(feed, now, Len(feed), i)
                            /\ latest = RateOf(feed[i], now)

(* One item that mentions the code and cannot be read hides the rates of   *)
(* all others, later and earlier; nothing else makes a parse fail but a    *)
(* feed that never mentions it (banklv.go:109-117, 137-144).               *)
FailureHasReason ==
  /\ step = "ok" => \A i \in 1..Len(feed) : Mentions(feed[i]) => Readable(feed[i].text)
  /\ step = "aborted" => \E i \in 1..Len(feed) : Mentions(feed[i]) /\ ~Readable(feed[i].text)
  /\ step = "notfound" => \A i \in 1..Len(feed) : ~Mentions(feed[i])

(* What is returned is the published number to the nearest eighth decimal, *)
(* and so zero only for one below half a unit of it (banklv.go:171-175).   *)
RateIsNearest ==
  step = "ok" =>
    \E i \in 1..Len(feed) : \E k \in DOMAIN feed[i].text :
      LET num == feed[i].text[k].num IN
      /\ num > 0
      /\ 10 * latest.amount - num \in -4..5

=============================================================================
