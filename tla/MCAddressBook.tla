---------------------------- MODULE MCAddressBook ----------------------------
(***************************************************************************)
(* Instances of AddressBook for the model checker.                         *)
(***************************************************************************)
EXTENDS AddressBook, TLC

TabSymmetry == Permutations(Tabs)
=============================================================================
