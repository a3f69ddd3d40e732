\* INCR is answered or not counted, EXPIRE is always sent and works, and a
\* restart loses the key: every counting period ends.  Three requests are
\* one more than may pass around one restart.
CONSTANTS
  Request = {r1, r2, r3}
  Loss = {l1}
  Limit = 1
  Window = 2
  Faults = {"restart"}

SPECIFICATION LimiterSpec

INVARIANT LimitsPerWindow
PROPERTY PeriodEnds
