----------------------------- MODULE MCBacklog -----------------------------
(***************************************************************************)
(* Backlog for TLC: a bug and a capability that share a title, two calls of    *)
(* one agent and one of another company's founder.                            *)
(***************************************************************************)
EXTENDS Backlog

MCKeys == {"bug", "capability"}
MCTitleOf == [k \in MCKeys |-> "exports fail"]
MCAskers == {"agent1", "agent2", "founder"}
MCVoterOf == [a \in MCAskers |-> IF a = "founder" THEN "founder" ELSE "agent"]
MCCompanyOf == [v \in {"agent", "founder"} |-> IF v = "agent" THEN "c1" ELSE "c2"]
MCWants == [a \in MCAskers |-> IF a = "founder" THEN MCKeys ELSE {"bug"}]
MCScenarios == {{"crash", "outage", "lost_reply"}, {"lag"}, {"by_hand"}}
=============================================================================
