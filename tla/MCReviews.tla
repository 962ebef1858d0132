------------------------------ MODULE MCReviews ------------------------------
(***************************************************************************)
(* Instances of Reviews for the model checker.                             *)
(***************************************************************************)
EXTENDS Reviews, TLC

UserSymmetry == Permutations(Users)
=============================================================================
