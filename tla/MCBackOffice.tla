---------------------------- MODULE MCBackOffice ----------------------------
(***************************************************************************)
(* Instances of BackOffice for the model checker.                          *)
(***************************************************************************)
EXTENDS BackOffice, TLC

FileSymmetry == Permutations(Files)
=============================================================================
