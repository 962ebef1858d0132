---------------------------- MODULE MCStorefront ----------------------------
(***************************************************************************)
(* Instances of Storefront for the model checker.                          *)
(***************************************************************************)
EXTENDS Storefront, TLC

ProductSymmetry == Permutations(Products)
=============================================================================
