--------------------------- MODULE MCRateLimiter ---------------------------
(***************************************************************************)
(* Callers are alike, and so are the gateway's slots for requests.         *)
(***************************************************************************)
EXTENDS RateLimiter, TLC

Symmetry == Permutations(Callers) \union Permutations(Slots)
=============================================================================
