-------------------------- MODULE MCOrderLifecycle --------------------------
(***************************************************************************)
(* Instances of OrderLifecycle for the model checker.                      *)
(***************************************************************************)
EXTENDS OrderLifecycle, TLC

(* Handlers have no identity: two in flight may be exchanged. *)
WorkerSymmetry == Permutations(Workers)

(* acked, newestHistory and failedRefund guard nothing the safety          *)
(* properties read (a step that writes a history row writes all of it), so *)
(* states that differ only there are one state.                            *)
SafetyView ==
  <<status, refundAmount, pointsEarned, payment, balance, ledger, captured,
    refunded, refundKeys, events, failures, job>>
=============================================================================
