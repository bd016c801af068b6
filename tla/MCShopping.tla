----------------------------- MODULE MCShopping -----------------------------
(***************************************************************************)
(* Shopping for TLC: products are interchangeable, and so are pages.       *)
(***************************************************************************)
EXTENDS Shopping, TLC

ShopSymmetry == Permutations(Products) \union Permutations(Pages)
=============================================================================
