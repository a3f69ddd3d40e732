\* One call on every feed of up to three items.
CONSTANTS
  Feeds <- MCFeeds
  Clock <- MCClock

SPECIFICATION ParserSpec

INVARIANTS
  ParserTypeOK
  LatestWins
  FailureHasReason
  RateIsNearest
