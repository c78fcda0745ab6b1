---------------------------- MODULE MCPullWorker ----------------------------
(***************************************************************************)
(* Instances of PullWorker for TLC.                                          *)
(***************************************************************************)
EXTENDS PullWorker, TLC

\* The workers of a function are interchangeable; its initiatives, which have an
\* order, are not.
Symmetry == Permutations(Workers)
=============================================================================
