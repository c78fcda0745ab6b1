----------------------------- MODULE CostMeter ------------------------------
(***************************************************************************)
(* The money path of the backend: runtime/cost_meter.py over                *)
(* services/budget.py, and the two callers that react to a refusal (the     *)
(* native loop's think step and its tool calls).                            *)
(*                                                                         *)
(* A billable call reserves its estimate in a transaction of its own that    *)
(* locks the company's budget row, runs the action with no transaction open, *)
(* and then commits the actual cost or releases the reservation in another   *)
(* transaction.  Each transaction is one action here, because the row lock   *)
(* is held to its end; calls of several tasks and processes interleave       *)
(* between them.                                                            *)
(***************************************************************************)
EXTENDS Integers, FiniteSets, LedgerSums

CONSTANTS
    NumCalls,     \* call slots, each making one billable call after another
    Agents,       \* the agents with a monthly cap
    NoAgent,      \* stands for "no agent, or an agent without a cap"
    AgentOf,      \* [Calls -> Agents \cup {NoAgent}]: on whose account a slot spends
    Kind,         \* [Calls -> CallKinds]: who makes the calls of a slot
    Estimates,    \* the estimates a call may have, in cents
    InitLimit,    \* the company's limit at first
    InitCap,      \* every agent's cap at first
    MinBump,      \* settings.launch_agent_min_budget_cents
    MaxLimit,     \* bound: no limit above this is set
    Faults        \* which of FaultKinds the environment may produce

Calls == 1..NumCalls

\* "think": run_llm from the native loop; "tool": a paid tool call of the loop;
\* "side": the worker's other calls (the compaction of a transcript, the critic, a
\* hired agent's fee).  "api": a call of the API process (a chat reply being
\* classified, the copilot).
CallKinds == {"think", "tool", "side", "api"}

FaultKinds ==
    {"crash",       \* a process dies and is started again
     "overrun",     \* an action costs more than was estimated
     "lost_ack",    \* a transaction commits but its caller is cancelled in the await
     "lower_limit"} \* the founder sets a limit below the present one

ASSUME CallsAssumption == NumCalls \in Nat
ASSUME AccountsAssumption ==
    /\ NoAgent \notin Agents
    /\ AgentOf \in [Calls -> Agents \cup {NoAgent}]
    /\ Kind \in [Calls -> CallKinds]
ASSUME AmountsAssumption ==
    /\ Estimates \subseteq Nat \ {0}
    /\ InitLimit \in Nat
    /\ InitCap \in Nat
    /\ MinBump \in Nat
    /\ MaxLimit \in Nat
ASSUME FaultsAssumption == Faults \subseteq FaultKinds

\* Whose refusal is swallowed, or ends what made the call.
GivesUp(c) == Kind[c] \in {"side", "api"}

Processes == {"worker", "api"}
ProcOf(c) == IF Kind[c] = "api" THEN "api" ELSE "worker"

VARIABLES
    limit, spent, reserved,   \* the company's row of table budgets
    cap,                      \* cap[a]: agents.monthly_budget_cents
    booked,                   \* booked[a]: the sum of the agent's spend_entries
    up,                       \* up[p]: process p is running
    pc,                       \* pc[c]: where the call of slot c stands
    est,                      \* est[c]: its estimate
    scope,                    \* scope[c]: scope of the BudgetExceeded it has got
    amt                       \* amt[c]: the amount the call goes on with: refused,
                              \* the exception's available_cents; extending, the
                              \* cap it will write; parked, the headroom asked for

row   == <<limit, spent, reserved>>
books == <<cap, booked>>
local == <<pc, est, scope, amt>>
vars  == <<limit, spent, reserved, cap, booked, up, pc, est, scope, amt>>

Stages ==
    {"idle",        \* no call
     "reserving",   \* about to run the reserve transaction
     "held",        \* reservation durable, the action is running
     "releasing",   \* the action raised: the shielded release is due
     "refused",     \* BudgetExceeded raised
     "extending",   \* _extend_agent_budget has read, and has not written
     "parked"}      \* task parked on a pending spend approval

Scopes == {"none", "company", "agent"}

\* max(0, a - b), max and min.
Monus(a, b) == IF a >= b THEN a - b ELSE 0
Larger(a, b) == IF a >= b THEN a ELSE b
Smaller(a, b) == IF a <= b THEN a ELSE b

-----------------------------------------------------------------------------
\* The available amounts that services/budget.py computes.

\* Mutated: the reservations of the calls in flight are left out.
Available_IgnoresReserved == limit - spent

Available == limit - spent - reserved

AgentAvailable(a) == cap[a] - booked[a]

\* The slot's call holds a durable reservation it will commit or release.
InFlight(c) == pc[c] \in {"held", "releasing"}
hold == [c \in Calls |-> IF InFlight(c) THEN est[c] ELSE 0]
Held == SumOf(hold, NumCalls)

Move(c, stage, cents, why, n) ==
    /\ pc' = [pc EXCEPT ![c] = stage]
    /\ est' = [est EXCEPT ![c] = cents]
    /\ scope' = [scope EXCEPT ![c] = why]
    /\ amt' = [amt EXCEPT ![c] = n]
Goto(c, stage) == Move(c, stage, est[c], "none", 0)
Leave(c) == Move(c, "idle", 0, "none", 0)

Init ==
    /\ limit = InitLimit
    /\ spent = 0
    /\ reserved = 0
    /\ cap = [a \in Agents |-> InitCap]
    /\ booked = [a \in Agents |-> 0]
    /\ up = [p \in Processes |-> TRUE]
    /\ pc = [c \in Calls |-> "idle"]
    /\ est = [c \in Calls |-> 0]
    /\ scope = [c \in Calls |-> "none"]
    /\ amt = [c \in Calls |-> 0]

-----------------------------------------------------------------------------
(* One billable call: estimate, reserve, run, settle or release.            *)

\* Slot c stands at the given stage, in a running process.
At(c, stage) == pc[c] = stage /\ up[ProcOf(c)]

\* The caller estimates a call and enters the meter.
Begin(c) ==
    /\ At(c, "idle")
    /\ \E cents \in Estimates : Move(c, "reserving", cents, "none", 0)
    /\ UNCHANGED <<row, books, up>>

\* Mutated: an off-by-one in the comparison with the headroom.
FitsCompany_OffByOne(c) == est[c] <= Available + 1

\* The two comparisons of budget.reserve.
FitsCompany(c) == est[c] <= Available
FitsAgent(c) == AgentOf[c] \in Agents => est[c] <= AgentAvailable(AgentOf[c])

\* budget.reserve succeeds and its transaction commits.  A cancellation that
\* lands while the COMMIT is in flight leaves the reservation made and the
\* caller gone: the release in _reserve's finally is not armed yet.
Reserve(c) ==
    /\ At(c, "reserving")
    /\ FitsCompany(c)
    /\ FitsAgent(c)
    /\ reserved' = reserved + est[c]
    /\ \/ Goto(c, "held")
       \/ "lost_ack" \in Faults /\ Leave(c)
    /\ UNCHANGED <<limit, spent, books, up>>

\* budget.reserve raises BudgetExceeded; nothing is written.  The company is
\* tested first.  The native loop handles the exception below.
Refuse(c) ==
    /\ At(c, "reserving")
    /\ ~ (FitsCompany(c) /\ FitsAgent(c))
    /\ \/ GivesUp(c) /\ Leave(c)
       \/ /\ ~ GivesUp(c)
          /\ ~ FitsCompany(c)
          /\ Move(c, "refused", est[c], "company", Available)
       \/ /\ ~ GivesUp(c)
          /\ FitsCompany(c)
          /\ Move(c, "refused", est[c], "agent", AgentAvailable(AgentOf[c]))
    /\ UNCHANGED <<row, books, up>>

\* Mutated: committed["done"] is never set, so a settled call releases again.
Settle_FlagNotSet(c) ==
    /\ At(c, "held")
    /\ \E actual \in Estimates \cup {0} :
         /\ "overrun" \in Faults \/ actual <= est[c]
         /\ spent' = spent + actual
         /\ booked' = [a \in Agents |->
                         IF a = AgentOf[c] THEN booked[a] + actual ELSE booked[a]]
    /\ reserved' = Monus(reserved, est[c])
    /\ Goto(c, "releasing")
    /\ UNCHANGED <<limit, cap, up>>

\* The action returned: commit_spend, in one transaction, takes the reservation
\* back (never below zero), adds the actual cost and writes the ledger entry.
\* A cancellation in the await of that COMMIT leaves committed["done"] false,
\* so the reservation is going to be released once more.
Settle(c) ==
    /\ At(c, "held")
    /\ \E actual \in Estimates \cup {0} :
         /\ "overrun" \in Faults \/ actual <= est[c]
         /\ spent' = spent + actual
         /\ booked' = [a \in Agents |->
                         IF a = AgentOf[c] THEN booked[a] + actual ELSE booked[a]]
    /\ reserved' = Monus(reserved, est[c])
    /\ \/ Leave(c)
       \/ "lost_ack" \in Faults /\ Goto(c, "releasing")
    /\ UNCHANGED <<limit, cap, up>>

\* Mutated: no finally, so a failed action keeps its reservation.
ActionFails_NoRelease(c) ==
    /\ At(c, "held")
    /\ Leave(c)
    /\ UNCHANGED <<row, books, up>>

\* The action raised, or the job timed out while it ran.
ActionFails(c) ==
    /\ At(c, "held")
    /\ Goto(c, "releasing")
    /\ UNCHANGED <<row, books, up>>

\* The shielded release of _reserve's finally.
Release(c) ==
    /\ At(c, "releasing")
    /\ reserved' = Monus(reserved, est[c])
    /\ Leave(c)
    /\ UNCHANGED <<limit, spent, books, up>>

-----------------------------------------------------------------------------
(* What the native loop does with a BudgetExceeded.                          *)

\* _extend_agent_budget reads the company row (unlocked) and the agent's row:
\* it goes on only when the think step exceeded the agent's slice and the
\* company has room for the request.
ExtendRead(c) ==
    /\ At(c, "refused")
    /\ Kind[c] = "think"
    /\ scope[c] = "agent"
    /\ FitsCompany(c)
    /\ LET shortfall == Larger(1, est[c] - Larger(0, amt[c]))
           bump == Smaller(Available, Larger(shortfall, MinBump))
       IN  Move(c, "extending", est[c], "none", cap[AgentOf[c]] + bump)
    /\ UNCHANGED <<row, books, up>>

\* Mutated: the raised slice is not written, and the loop tries again.
ExtendWrite_NotSaved(c) ==
    /\ At(c, "extending")
    /\ Goto(c, "reserving")
    /\ UNCHANGED <<row, books, up>>

\* It writes the cap it read plus the bump, and the loop tries again.
ExtendWrite(c) ==
    /\ At(c, "extending")
    /\ cap' = [cap EXCEPT ![AgentOf[c]] = amt[c]]
    /\ Goto(c, "reserving")
    /\ UNCHANGED <<row, booked, up>>

\* The headroom a parked decision asks for (budget_increase_cents).
Shortfall(c) ==
    IF Kind[c] = "think"
    THEN Larger(0, est[c] - Larger(0, amt[c]))   \* _park_for_budget
    ELSE Larger(0, est[c] - amt[c])              \* _handle_call

\* The task is parked on a spend approval: always for a tool call, and for a
\* think step whose slice could not be extended.
Park(c) ==
    /\ At(c, "refused")
    /\ Kind[c] = "tool" \/ scope[c] = "company" \/ ~ FitsCompany(c)
    /\ Move(c, "parked", est[c], "none", Shortfall(c))
    /\ UNCHANGED <<row, books, up>>

\* The founder approves: resolve_decision lifts the company's limit by the
\* headroom asked for, and the resumed task makes the call again.
Approve(c) ==
    /\ pc[c] = "parked"
    /\ limit + amt[c] <= MaxLimit
    /\ limit' = limit + amt[c]
    /\ Goto(c, "reserving")
    /\ UNCHANGED <<spent, reserved, books, up>>

\* The founder rejects: the task gives the call up.
Reject(c) ==
    /\ pc[c] = "parked"
    /\ Leave(c)
    /\ UNCHANGED <<row, books, up>>

-----------------------------------------------------------------------------
(* The founder's settings and the life of the processes.                     *)

\* PATCH /budget overwrites the limit, without the row lock.
PatchBudget ==
    /\ \E cents \in Estimates :
         \/ limit + cents <= MaxLimit /\ limit' = limit + cents
         \/ "lower_limit" \in Faults /\ cents < limit /\ limit' = limit - cents
    /\ UNCHANGED <<spent, reserved, books, up, local>>

\* A process dies: every call it was making is gone, wherever it stood.  A
\* parked task is a row of the database and survives.
Crash(p) ==
    /\ "crash" \in Faults
    /\ up[p]
    /\ up' = [up EXCEPT ![p] = FALSE]
    /\ LET gone == {c \in Calls : ProcOf(c) = p /\ pc[c] # "parked"}
       IN  /\ pc' = [c \in Calls |-> IF c \in gone THEN "idle" ELSE pc[c]]
           /\ est' = [c \in Calls |-> IF c \in gone THEN 0 ELSE est[c]]
           /\ scope' = [c \in Calls |-> IF c \in gone THEN "none" ELSE scope[c]]
           /\ amt' = [c \in Calls |-> IF c \in gone THEN 0 ELSE amt[c]]
    /\ UNCHANGED <<row, books>>

\* A process starts.  The worker's startup zeroes the company's reservations
\* before it takes work; that is best effort, and the API does no such thing.
Start(p) ==
    /\ ~ up[p]
    /\ up' = [up EXCEPT ![p] = TRUE]
    /\ IF p = "worker" THEN reserved' \in {0, reserved} ELSE UNCHANGED reserved
    /\ UNCHANGED <<limit, spent, books, local>>

CallStep(c) ==
    \/ Reserve(c) \/ Refuse(c) \/ Settle(c) \/ ActionFails(c) \/ Release(c)
    \/ ExtendRead(c) \/ ExtendWrite(c) \/ Park(c)

Next ==
    \/ \E c \in Calls : Begin(c) \/ CallStep(c) \/ Approve(c) \/ Reject(c)
    \/ PatchBudget
    \/ \E p \in Processes : Crash(p) \/ Start(p)

Spec == Init /\ [][Next]_vars

\* A running process keeps executing the calls it has begun; nothing forces a
\* new call, a founder or a restart.
FairSpec == Spec /\ \A c \in Calls : WF_vars(CallStep(c))

-----------------------------------------------------------------------------
(* Properties.                                                              *)

\* The variables stay within their columns' and locals' types.
TypeOK ==
    /\ limit \in Nat /\ spent \in Nat /\ reserved \in Nat
    /\ cap \in [Agents -> Nat]
    /\ booked \in [Agents -> Nat]
    /\ up \in [Processes -> BOOLEAN]
    /\ pc \in [Calls -> Stages]
    /\ est \in [Calls -> Nat]
    /\ scope \in [Calls -> Scopes]
    /\ amt \in [Calls -> Int]

\* Whatever is running is covered: the row's reserved_cents is never below the
\* sum of the reservations that calls in flight are going to take back.
LedgerCoversInFlight == Held <= reserved

\* With nothing lost on the way it is exactly that sum: no call leaves money
\* stranded in reserved_cents, whichever way it ends.
ReservedIsInFlight == Held = reserved

\* The company can pay for every call in flight at its full estimate, however
\* reservations, settlements, refusals and approvals interleave.
Solvent == spent + Held <= limit

\* The think step's "while resp is None" loop ends: a refused call is funded
\* from the company pool, parked for the founder, or over.
RefusalResolves ==
    \A c \in Calls : pc[c] = "refused" ~> pc[c] \in {"held", "parked", "idle"}

\* The meter implements the escrow the budget promises.
E == INSTANCE Escrow WITH Amounts <- Estimates
RefinesEscrow == E!Spec
=============================================================================
