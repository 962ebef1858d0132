----------------------------- MODULE MCCheckout -----------------------------
(***************************************************************************)
(* Instances of Checkout for the model checker.                            *)
(***************************************************************************)
EXTENDS Checkout, TLC

(* Orders are alike, and so are requests. *)
CheckoutSymmetry == Permutations(Orders) \cup Permutations(Calls)
=============================================================================
