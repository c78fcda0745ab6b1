---------------------------- MODULE MCOversight -----------------------------
(***************************************************************************)
(* Instances of Oversight for TLC.                                           *)
(***************************************************************************)
EXTENDS Oversight

\* Jobs that overtake their commit; and a CEO that is paused, whose reviews fail or wait,
\* each keeping to its goal, or going on after its verdict and using the wrong tool.
AllScenarios ==
    {{"early_job"},
     {"no_ceo", "review_fails", "review_waits"},
     {"no_ceo", "review_fails", "slow_review", "wrong_tool"},
     {"no_ceo", "review_fails", "review_waits", "slow_review", "wrong_tool"}}
=============================================================================
