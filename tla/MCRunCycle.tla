----------------------------- MODULE MCRunCycle -----------------------------
(***************************************************************************)
(* Instances of RunCycle for TLC.                                            *)
(***************************************************************************)
EXTENDS RunCycle, TLC

\* Runs and slots are interchangeable.
Symmetry == Permutations(Runs) \cup Permutations(Slots)
=============================================================================
