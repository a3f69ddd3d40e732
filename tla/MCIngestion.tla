----------------------------- MODULE MCIngestion -----------------------------
(* Ingestion for TLC: one call (calls do not interact in this module) on   *)
(* the empty list and on lists of one, two and three currencies.           *)
EXTENDS Ingestion

CONSTANTS gbp, pln, usd

MCCurrency == {gbp, pln, usd}
MCLists    == {<<>>, <<usd>>, <<gbp, usd>>, <<usd, gbp, pln>>}
MCVersion  == {1}
=============================================================================
