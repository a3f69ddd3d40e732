\* EXPIRE can fail, and its error is dropped: a counting period that never
\* ends.
CONSTANTS
  Request = {r1, r2, r3}
  Loss = {l1}
  Limit = 1
  Window = 2
  Faults = {"expire"}

SPECIFICATION LimiterSpec

PROPERTY PeriodEnds
