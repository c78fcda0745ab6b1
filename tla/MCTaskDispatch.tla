--------------------------- MODULE MCTaskDispatch ---------------------------
(***************************************************************************)
(* Instances of TaskDispatch for TLC.                                        *)
(***************************************************************************)
EXTENDS TaskDispatch

\* Jobs are lost: to an API process that dies, to enqueues that fail; tools park without
\* saying so or enqueue what they have not committed.  Something is repeated as well.
Losses == {"api_crash", "enqueue_fails"}
Parks == Losses \cup {"quiet_ask", "tool_spawn"}
Restarts == Losses \cup Repeating
AllScenarios == {Parks, Restarts}
=============================================================================
