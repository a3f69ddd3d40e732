\* Four requests against a limit of two: one more than may pass in two
\* counting periods while Redis keeps the key, with everything that can go
\* wrong between INCR and EXPIRE.
CONSTANTS
  Request = {r1, r2, r3, r4}
  Loss = {l1}
  Limit = 2
  Window = 2
  Faults = {"answer", "expire", "death", "restart", "snapshot"}

SPECIFICATION LimiterSpec
SYMMETRY Symmetry

INVARIANTS
  LimiterTypeOK
  LimitsPerWindow
