------------------------- MODULE MCObjectReconciler -------------------------
(* Small instances of ObjectReconciler for TLC. *)
EXTENDS ObjectReconciler, TLC

Symmetry == Permutations(Identity)
=============================================================================
