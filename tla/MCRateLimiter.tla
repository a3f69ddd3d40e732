---------------------------- MODULE MCRateLimiter ----------------------------
(* RateLimiter for TLC.  Each cfg chooses the limit, the window and faults.*)
EXTENDS RateLimiter, TLC

(* Requests differ in nothing.                                             *)
Symmetry == Permutations(Request)
=============================================================================
