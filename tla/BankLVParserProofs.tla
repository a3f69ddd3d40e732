------------------------- MODULE BankLVParserProofs -------------------------
(***************************************************************************)
(* For every feed of any length, every clock and every time zone: the loop *)
(* of ParseBankLVRSS returns the rate of the latest day, rounded to the    *)
(* nearest eighth decimal, and fails only for the reasons it should.       *)
(*                                                                         *)
(* What the loop has after each item is LatestOf.  The rest of the         *)
(* invariant says that every item passed was readable, and where the loop  *)
(* stood when it ended.                                                    *)
(***************************************************************************)
EXTENDS BankLVParser, TLAPS

ScanOK ==
  /\ step \in {"request", "decode"} => at = 1 /\ latest = NoRate
  /\ step \notin {"request", "decode", "failed"} => LatestOf(feed, now, at - 1, latest)
  /\ step = "ok" => latest # NoRate
  /\ step = "notfound" => latest = NoRate
  /\ step \in {"ok", "notfound"} => at = Len(feed) + 1
  /\ step = "aborted" => at <= Len(feed) /\ Mentions(feed[at]) /\ ~Readable(feed[at].text)
  /\ \A j \in 1..(at - 1) : Mentions(feed[j]) => Readable(feed[j].text)

ParserInv == ParserTypeOK /\ ScanOK

(* Rounding never makes a positive number negative, and never moves it by  *)
(* more than half a unit of the last decimal kept.                         *)
LEMMA RoundedNearest ==
  ASSUME NEW n \in Int, n > 0
  PROVE  Rounded(n) \in Nat /\ 10 * Rounded(n) - n \in -4..5
BY DEF Rounded

(* A feed is a sequence of items, before it is decoded the empty one.      *)
LEMMA FeedIsSeq ==
  ASSUME ParserTypeOK
  PROVE  /\ feed \in Seq(Item)
         /\ Len(feed) \in Nat
         /\ \A i \in 1..Len(feed) : feed[i] \in Item
<1>1. feed \in Seq(Item)
  <2>1. <<>> \in Seq(Item)
    OBVIOUS
  <2>2. QED
    BY <2>1, FeedsAssumption DEF ParserTypeOK
<1>2. QED
  BY <1>1

(* A readable item has a number where extractRate looks.                   *)
LEMMA ReadableHasNumber ==
  ASSUME NEW item \in Item, Readable(item.text)
  PROVE  /\ RateAt(item.text) \in DOMAIN item.text
         /\ item.text[RateAt(item.text)].num \in Int
         /\ item.text[RateAt(item.text)].num > 0
<1>1. item.text \in Seq(Field)
  BY DEF Item
<1>2. RateAt(item.text) \in DOMAIN item.text
  BY DEF Readable
<1>3. item.text[RateAt(item.text)] \in Field
  BY <1>1, <1>2
<1>4. QED
  BY <1>2, <1>3 DEF Field, Readable

(* The day of an item is a number, and its date one or missing.            *)
LEMMA EffectiveDateIsDay ==
  ASSUME NEW item \in Item, NEW fallback \in Nat
  PROVE  EffectiveDate(item, fallback) \in Int /\ PublishedAt(item) \in Nat \cup {NoDate}
BY DEF EffectiveDate, PublishedAt, Day, Item, NoDate

(* The rate of a readable item has its type, and is not the absent rate.   *)
LEMMA RateOfType ==
  ASSUME NEW item \in Item, Readable(item.text), NEW fallback \in Nat
  PROVE  /\ RateOf(item, fallback) \in
              [amount : Nat, day : Int, published : Nat \cup {NoDate}]
         /\ RateOf(item, fallback) # NoRate
<1>1. Rounded(item.text[RateAt(item.text)].num) \in Nat
  BY ReadableHasNumber, RoundedNearest
<1>2. EffectiveDate(item, fallback) \in Int /\ PublishedAt(item) \in Nat \cup {NoDate}
  BY EffectiveDateIsDay
<1>3. QED
  BY <1>1, <1>2 DEF RateOf, NoRate

(* One readable item more: what wins among the first n - 1 items, or item  *)
(* n when it is of a later day, wins among the first n.                    *)
LEMMA OneMoreItem ==
  ASSUME NEW f \in Seq(Item), NEW n \in 1..Len(f), NEW t \in Nat, NEW r,
         LatestOf(f, t, n - 1, r), Mentions(f[n]), Readable(f[n].text)
  PROVE  LatestOf(f, t, n,
           IF r = NoRate \/ EffectiveDate(f[n], t) > r.day THEN RateOf(f[n], t) ELSE r)
<1>1. \A j \in 1..Len(f) : f[j] \in Item /\ EffectiveDate(f[j], t) \in Int
  <2>1. \A j \in 1..Len(f) : f[j] \in Item
    OBVIOUS
  <2>2. \A item \in Item : EffectiveDate(item, t) \in Int
    BY EffectiveDateIsDay
  <2> QED
    BY <2>1, <2>2
<1>2. RateOf(f[n], t) # NoRate
  BY <1>1, RateOfType
<1>3. CASE r = NoRate
  <2>1. \A j \in 1..(n - 1) : ~Mentions(f[j])
    BY <1>3 DEF LatestOf
  <2>2. Wins(f, t, n, n)
    BY <2>1 DEF Wins
  <2>3. QED
    BY <1>2, <1>3, <2>2 DEF LatestOf
<1>4. CASE r # NoRate
  <2>1. PICK i \in 1..(n - 1) : Wins(f, t, n - 1, i) /\ r = RateOf(f[i], t)
    BY <1>4 DEF LatestOf
  <2>2. r.day = EffectiveDate(f[i], t)
    BY <2>1 DEF RateOf
  <2>3. CASE EffectiveDate(f[n], t) > r.day
    <3> DEFINE D(j) == EffectiveDate(f[j], t)
    <3>1. D(i) < D(n) /\ D(i) \in Int /\ D(n) \in Int
      BY <1>1, <2>2, <2>3
    <3>2. \A j \in 1..(n - 1) : Mentions(f[j]) => D(j) < D(n)
      <4> SUFFICES ASSUME NEW j \in 1..(n - 1), Mentions(f[j]) PROVE D(j) < D(n)
        OBVIOUS
      <4>1. D(j) < D(i) \/ D(j) = D(i)
        BY <2>1 DEF Wins
      <4>2. D(j) \in Int
        BY <1>1
      <4> HIDE DEF D
      <4> QED
        BY <3>1, <4>1, <4>2
    <3>3. \A j \in 1..n : Mentions(f[j]) => D(j) < D(n) \/ (D(j) = D(n) /\ n <= j)
      <4> HIDE DEF D
      <4> QED
        BY <3>2
    <3>4. Wins(f, t, n, n)
      BY <3>3 DEF Wins
    <3>5. QED
      BY <1>2, <2>3, <3>4 DEF LatestOf
  <2>4. CASE ~(EffectiveDate(f[n], t) > r.day)
    <3>1. Wins(f, t, n, i)
      BY <1>1, <2>1, <2>2, <2>4 DEF Wins
    <3>2. QED
      BY <1>4, <2>1, <2>4, <3>1 DEF LatestOf
  <2>5. QED
    BY <2>3, <2>4
<1>5. QED
  BY <1>3, <1>4

(* An item that does not mention the code leaves the winner as it is.      *)
LEMMA OneItemSkipped ==
  ASSUME NEW f, NEW n \in Nat \ {0}, NEW t, NEW r,
         LatestOf(f, t, n - 1, r), ~Mentions(f[n])
  PROVE  LatestOf(f, t, n, r)
<1>1. CASE r = NoRate
  <2>1. \A j \in 1..n : ~Mentions(f[j])
    BY <1>1 DEF LatestOf
  <2>2. QED
    BY <1>1, <2>1 DEF LatestOf
<1>2. CASE r # NoRate
  <2>1. PICK i \in 1..(n - 1) : Wins(f, t, n - 1, i) /\ r = RateOf(f[i], t)
    BY <1>2 DEF LatestOf
  <2>2. Wins(f, t, n, i)
    BY <2>1 DEF Wins
  <2>3. QED
    BY <1>2, <2>1, <2>2 DEF LatestOf
<1>3. QED
  BY <1>1, <1>2

(* The invariant is inductive.                                             *)
LEMMA ParserStep ==
  ASSUME ParserInv, [ParserNext]_parserVars
  PROVE  ParserInv'
<1> USE DEF ParserInv
<1>0. /\ Len(feed) \in Nat
      /\ \A i \in 1..Len(feed) : feed[i] \in Item
      /\ at \in 1..(Len(feed) + 1)
      /\ now \in Nat
  BY FeedIsSeq DEF ParserTypeOK
<1>1. CASE Respond
  <2>1. ParserTypeOK'
    BY <1>1, ClockAssumption DEF Respond, ParserTypeOK, ParseStep
  <2>2. ScanOK'
    BY <1>1 DEF Respond, ScanOK
  <2>3. QED
    BY <2>1, <2>2
<1>2. CASE Decode
  <2>1. at = 1 /\ latest = NoRate /\ at' = at /\ latest' = latest /\ now' = now
    BY <1>2 DEF Decode, ScanOK
  <2>2. feed' \in Seq(Item)
    BY <1>2, FeedsAssumption DEF Decode
  <2>3. ParserTypeOK'
    BY <1>2, <2>1, <2>2 DEF Decode, ParserTypeOK, ParseStep
  <2>4. LatestOf(feed', now', at' - 1, latest')
    BY <2>1 DEF LatestOf
  <2>5. ScanOK'
    BY <1>2, <2>1, <2>4 DEF Decode, ScanOK
  <2>6. QED
    BY <2>3, <2>5
<1>3. CASE NoFeed
  BY <1>3 DEF NoFeed, ParserTypeOK, ParseStep, ScanOK
<1>4. CASE Skip
  <2>1. LatestOf(feed, now, at, latest)
    BY <1>0, <1>4, OneItemSkipped DEF Skip, Scanning, ScanOK
  <2>2. ParserTypeOK'
    BY <1>0, <1>4 DEF Skip, Scanning, ParserTypeOK
  <2>3. ScanOK'
    BY <1>0, <1>4, <2>1 DEF Skip, Scanning, ScanOK
  <2>4. QED
    BY <2>2, <2>3
<1>5. CASE Take
  <2>1. at \in 1..Len(feed) /\ feed[at] \in Item
    BY <1>0, <1>5 DEF Take, Scanning
  <2>2. feed \in Seq(Item)
    BY FeedIsSeq
  <2>3. LatestOf(feed, now, at - 1, latest) /\ Mentions(feed[at]) /\ Readable(feed[at].text)
    BY <1>5 DEF Take, Scanning, ScanOK
  <2>4. LatestOf(feed, now, at, latest')
    BY <1>0, <1>5, <2>1, <2>2, <2>3, OneMoreItem DEF Take, Replaces
  <2>5. ParserTypeOK'
    <3>1. RateOf(feed[at], now) \in [amount : Nat, day : Int, published : Nat \cup {NoDate}]
      BY <1>0, <2>1, <2>3, RateOfType DEF ParserTypeOK
    <3>2. latest' \in {RateOf(feed[at], now), latest}
      BY <1>5 DEF Take
    <3>3. latest' \in [amount : Nat, day : Int, published : Nat \cup {NoDate}] \cup {NoRate}
      BY <1>0, <3>1, <3>2 DEF ParserTypeOK
    <3>4. at' \in 1..(Len(feed) + 1)
      BY <1>5, <2>1 DEF Take
    <3> QED
      BY <1>0, <1>5, <3>3, <3>4 DEF Take, ParserTypeOK
  <2>6. ScanOK'
    BY <1>0, <1>5, <2>1, <2>3, <2>4 DEF Take, Scanning, ScanOK
  <2>7. QED
    BY <2>5, <2>6
<1>6. CASE Abort
  <2>1. ParserTypeOK'
    BY <1>6 DEF Abort, Scanning, ParserTypeOK, ParseStep
  <2>2. ScanOK'
    BY <1>6 DEF Abort, Scanning, ScanOK
  <2>3. QED
    BY <2>1, <2>2
<1>7. CASE Finish
  <2>1. ParserTypeOK'
    BY <1>7 DEF Finish, ParserTypeOK, ParseStep
  <2>2. at > Len(feed)
    BY <1>7 DEF Finish
  <2>3. at = Len(feed) + 1
    BY <1>0, <2>2
  <2>4. ScanOK'
    BY <1>7, <2>3 DEF Finish, ScanOK
  <2>5. QED
    BY <2>1, <2>4
<1>8. CASE UNCHANGED parserVars
  BY <1>8 DEF parserVars, ParserTypeOK, ScanOK
<1>9. QED
  BY <1>1, <1>2, <1>3, <1>4, <1>5, <1>6, <1>7, <1>8 DEF ParserNext, Returned

(* Every state of every behaviour satisfies the loop invariant.            *)
THEOREM ParserInvariant == ParserSpec => []ParserInv
<1>1. ParserInit => ParserInv
  BY DEF ParserInit, ParserInv, ParserTypeOK, ParseStep, ScanOK
<1>2. QED
  BY <1>1, ParserStep, PTL DEF ParserSpec

(* The variables of the parser keep their types, and no amount it takes is *)
(* negative.                                                               *)
THEOREM ParserTypeCorrect == ParserSpec => []ParserTypeOK
BY ParserInvariant, PTL DEF ParserInv

(* The rate ParseBankLVRSS returns is that of the latest day in the feed.  *)
THEOREM LatestRateWins == ParserSpec => []LatestWins
<1>1. ParserInv => LatestWins
  <2> SUFFICES ASSUME ParserInv, step = "ok" PROVE LatestWins
    BY DEF LatestWins
  <2>1. latest # NoRate /\ at - 1 = Len(feed) /\ LatestOf(feed, now, at - 1, latest)
    BY FeedIsSeq DEF ParserInv, ScanOK
  <2>2. QED
    BY <2>1 DEF LatestOf, LatestWins
<1>2. QED
  BY <1>1, ParserInvariant, PTL

(* A parse fails because of an item that cannot be read, or because no     *)
(* item mentions the code, and for no other reason.                        *)
THEOREM FailuresHaveReasons == ParserSpec => []FailureHasReason
<1>1. ParserInv => FailureHasReason
  <2> SUFFICES ASSUME ParserInv PROVE FailureHasReason
    OBVIOUS
  <2>1. Len(feed) \in Nat /\ at \in 1..(Len(feed) + 1)
    BY FeedIsSeq DEF ParserInv, ParserTypeOK
  <2>2. step = "ok" => \A i \in 1..Len(feed) : Mentions(feed[i]) => Readable(feed[i].text)
    BY <2>1 DEF ParserInv, ScanOK
  <2>3. step = "aborted" => at \in 1..Len(feed) /\ Mentions(feed[at]) /\ ~Readable(feed[at].text)
    BY <2>1 DEF ParserInv, ScanOK
  <2>4. step = "notfound" => \A i \in 1..Len(feed) : ~Mentions(feed[i])
    <3> SUFFICES ASSUME step = "notfound" PROVE \A i \in 1..Len(feed) : ~Mentions(feed[i])
      OBVIOUS
    <3>1. latest = NoRate
      BY DEF ParserInv, ScanOK
    <3>2. at - 1 = Len(feed) /\ LatestOf(feed, now, at - 1, latest)
      BY FeedIsSeq DEF ParserInv, ScanOK
    <3>3. QED
      BY <3>1, <3>2 DEF LatestOf
  <2>5. QED
    BY <2>2, <2>3, <2>4 DEF FailureHasReason
<1>2. QED
  BY <1>1, ParserInvariant, PTL

(* The amount returned is the published number to the nearest eighth       *)
(* decimal.                                                                *)
THEOREM RatesAreNearest == ParserSpec => []RateIsNearest
<1>1. ParserInv => RateIsNearest
  <2> SUFFICES ASSUME ParserInv, step = "ok" PROVE RateIsNearest
    BY DEF RateIsNearest
  <2>1. latest # NoRate /\ at - 1 = Len(feed) /\ LatestOf(feed, now, at - 1, latest)
    BY FeedIsSeq DEF ParserInv, ScanOK
  <2>2. PICK i \in 1..Len(feed) : Mentions(feed[i]) /\ latest = RateOf(feed[i], now)
    BY <2>1 DEF LatestOf, Wins
  <2>3. Readable(feed[i].text) /\ feed[i] \in Item
    BY <2>1, <2>2, FeedIsSeq DEF ParserInv, ScanOK
  <2> DEFINE k == RateAt(feed[i].text)
  <2> DEFINE num == feed[i].text[k].num
  <2>4. k \in DOMAIN feed[i].text /\ num \in Int /\ num > 0
    BY <2>3, ReadableHasNumber
  <2>5. 10 * Rounded(num) - num \in -4..5
    BY <2>4, RoundedNearest
  <2>6. latest.amount = Rounded(num)
    BY <2>2 DEF RateOf
  <2>7. 10 * latest.amount - num \in -4..5
    BY <2>5, <2>6
  <2>8. QED
    BY <2>4, <2>7 DEF RateIsNearest
<1>2. QED
  BY <1>1, ParserInvariant, PTL

=============================================================================
