---------------------------- MODULE MCCostMeter -----------------------------
(***************************************************************************)
(* Instances of CostMeter for TLC: on whose account each call slot spends    *)
(* and who makes its calls.                                                  *)
(***************************************************************************)
EXTENDS CostMeter

CONSTANT a1

\* A capped agent thinking while an uncapped one calls paid tools, and a transcript of
\* a third being compacted.
MixedAgentOf == <<a1, NoAgent, NoAgent>>
MixedKind == <<"think", "tool", "side">>

\* Two tasks of one capped agent at once, and the founder's copilot in the API process.
SharedAgentOf == <<a1, a1, NoAgent>>
SharedKind == <<"think", "think", "api">>
=============================================================================
