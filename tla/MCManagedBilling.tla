-------------------------- MODULE MCManagedBilling ---------------------------
(***************************************************************************)
(* Instances of ManagedBilling for TLC.                                      *)
(***************************************************************************)
EXTENDS ManagedBilling, TLC

\* Slots are alike but for the company Init gives them, and so are companies.
Symmetry == Permutations(Slots) \cup Permutations(Companies)
=============================================================================
