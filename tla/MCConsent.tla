----------------------------- MODULE MCConsent -----------------------------
(* Pages have no identity in the code. *)
EXTENDS Consent, TLC

PageSymmetry == Permutations(Pages)
=============================================================================
