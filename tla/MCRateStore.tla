----------------------------- MODULE MCRateStore -----------------------------
(* RateStore for TLC: three calls, a pool of two connections, and batches  *)
(* that meet on their keys in opposite orders.                             *)
EXTENDS RateStore

CONSTANTS k1, k2

MCKey     == {k1, k2}
MCBatches == {<<k1, k2>>, <<k2, k1>>}
=============================================================================
