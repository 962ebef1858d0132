----------------------------- MODULE MCSessions -----------------------------
(***************************************************************************)
(* Instances of Sessions for the model checker.                            *)
(***************************************************************************)
EXTENDS Sessions
=============================================================================
