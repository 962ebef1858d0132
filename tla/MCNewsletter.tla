---------------------------- MODULE MCNewsletter ----------------------------
(***************************************************************************)
(* Instances of Newsletter for the model checker.                          *)
(***************************************************************************)
EXTENDS Newsletter
=============================================================================
