------------------------------- MODULE Escrow -------------------------------
(***************************************************************************)
(* What the budget promises a company, with none of the machinery: money is  *)
(* put on hold before it is spent, a hold fits the free part of the limit    *)
(* when it is placed, settling a hold spends at most what was held, and a    *)
(* hold may be dropped (a failed call, a dead process) at any time.          *)
(* CostMeter implements this; see RefinesEscrow there.                       *)
(***************************************************************************)
EXTENDS LedgerSums

CONSTANTS
    NumCalls,   \* number of billable calls that may be in flight at once
    Amounts,    \* what a call may be estimated at
    MaxLimit    \* no limit is set above this

Calls == 1..NumCalls

VARIABLES
    limit,    \* the company's ceiling
    spent,    \* what has been spent of it
    hold      \* hold[c]: cents on hold for call c, 0 when it holds none

escrowVars == <<limit, spent, hold>>

Held == SumOf(hold, NumCalls)

Init ==
    /\ limit \in Nat
    /\ spent = 0
    /\ hold = [c \in Calls |-> 0]

Place(c, cents) ==
    /\ hold[c] = 0
    /\ spent + Held + cents <= limit
    /\ hold' = [hold EXCEPT ![c] = cents]
    /\ UNCHANGED <<limit, spent>>

Settle(c, cents) ==
    /\ cents <= hold[c]
    /\ spent' = spent + cents
    /\ hold' = [hold EXCEPT ![c] = 0]
    /\ UNCHANGED limit

Drop(S) ==
    /\ hold' = [c \in Calls |-> IF c \in S THEN 0 ELSE hold[c]]
    /\ UNCHANGED <<limit, spent>>

Raise ==
    /\ limit' \in limit+1..MaxLimit
    /\ UNCHANGED <<spent, hold>>

Next ==
    \/ \E c \in Calls, cents \in Amounts : Place(c, cents)
    \/ \E c \in Calls, cents \in Amounts \cup {0} : Settle(c, cents)
    \/ \E S \in SUBSET Calls : Drop(S)
    \/ Raise

Spec == Init /\ [][Next]_escrowVars

\* The company can always pay for everything on hold.
Solvent == spent + Held <= limit
=============================================================================
