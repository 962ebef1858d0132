---------------------------- MODULE MCFulfilment ----------------------------
(***************************************************************************)
(* Instances of Fulfilment for the model checker.                          *)
(***************************************************************************)
EXTENDS Fulfilment
=============================================================================
