-------------------------- MODULE MCBasketCheckout --------------------------
(***************************************************************************)
(* BasketCheckout for TLC: requests are interchangeable.                   *)
(***************************************************************************)
EXTENDS BasketCheckout, TLC

RequestSymmetry == Permutations(Requests)
=============================================================================
