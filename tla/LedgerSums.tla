----------------------------- MODULE LedgerSums -----------------------------
(***************************************************************************)
(* The sum of a function over the slots 1..n, written as a recursive        *)
(* function so that TLC evaluates it and TLAPS can reason about it (the     *)
(* facts about it are in CostMeterProofs).                                 *)
(***************************************************************************)
EXTENDS Integers

\* The running totals of h: PartialSums(h, n)[k] = h[1] + ... + h[k].
PartialSums(h, n) ==
    LET s[k \in 0..n] == IF k = 0 THEN 0 ELSE s[k-1] + h[k]
    IN  s

\* h[1] + ... + h[n].
SumOf(h, n) == PartialSums(h, n)[n]
=============================================================================
