--------------------------- MODULE ManagedBilling ---------------------------
(***************************************************************************)
(* Who pays for compute when a founder brings no key: services/billing.py,   *)
(* services/billing_stripe.py and the Stripe webhook, over one row of        *)
(* platform_billing_accounts (accounts of different founders never meet) and *)
(* its append-only ledger platform_charges.                                  *)
(*                                                                         *)
(* A task is granted the platform's key once, when it resolves its provider; *)
(* each call it then makes is settled in the commit transaction of CostMeter *)
(* (its action Settle), which first locks the budget row of its company.     *)
(* Nothing locks the account: it is read, and the sum is written back as a   *)
(* value, so the steps of that transaction are separate actions here, and    *)
(* calls of several companies of one founder interleave in them.             *)
(***************************************************************************)
EXTENDS Integers, FiniteSets

CONSTANTS
    Slots,        \* where the founder's tasks run, each one funded call after another
    Companies,    \* the founder's companies
    Costs,        \* what a call may cost, in cents; a free call records nothing
    FreeTier,     \* settings.platform_free_tier_cents
    DailyCap,     \* settings.platform_daily_cap_cents, 0 when there is none
    MarkupPct,    \* settings.managed_billing_markup, in hundredths
    MaxCharged,   \* bound: no call is settled once this much is charged
    MaxCounted,   \* bound: ... or once Stripe has counted this much
    MaxDays       \* bound: midnights that pass

ASSUME CostsAssumption == Costs \subseteq Nat \ {0}
ASSUME SettingsAssumption ==
    /\ FreeTier \in Nat
    /\ DailyCap \in Nat
    /\ MarkupPct \in Nat
    /\ MaxCharged \in Nat
    /\ MaxCounted \in Nat
    /\ MaxDays \in Nat

VARIABLES
    company,   \* company[s]: whose tasks slot s runs
    exists,    \* the account's row is committed
    tier,      \* its tier: "free" or "paid"
    item,      \* it has a stripe_subscription_item_id
    spent,     \* its platform_spent_cents
    charged,   \* the sum of its platform_charges
    today,     \* the part of it created since midnight
    owed,      \* what the charges marked billed come to in Stripe's units
    counted,   \* what Stripe has counted
    undone,    \* history: counted for a settlement that was then rolled back
    day,       \* midnights that have passed
    pc,        \* pc[s]: where slot s stands
    call       \* call[s]: its open settlement, as far as it has got

account == <<exists, tier, item, spent>>
ledger  == <<charged, today, owed>>
vars    == <<company, exists, tier, item, spent, charged, today, owed, counted, undone,
             day, pc, call>>

Stages ==
    {"idle",       \* no task, or one without the platform's key
     "granted",    \* a task that resolved to the platform's key
     "read",       \* settling a call: budget row locked, account read
     "written",    \* account and charge flushed: account row locked too
     "reported"}   \* the usage record was sent

\* No settlement is open.
NoCall == [cents |-> 0, row |-> FALSE, tier |-> "free", item |-> FALSE,
           spent |-> 0, day |-> 0, sent |-> 0]

Open(s) == pc[s] \in {"read", "written", "reported"}

\* The settlement holds the account's row, or the key of the one it inserts.
Holds(s) == pc[s] \in {"written", "reported"}

Sole == \A s, t \in Slots : company[s] = company[t]

TypeOK ==
    /\ company \in [Slots -> Companies]
    /\ exists \in BOOLEAN /\ tier \in {"free", "paid"} /\ item \in BOOLEAN
    /\ spent \in Nat
    /\ charged \in Nat /\ today \in Nat /\ owed \in Nat
    /\ counted \in Nat /\ undone \in Nat
    /\ day \in 0..MaxDays
    /\ pc \in [Slots -> Stages]
    /\ call \in [Slots -> [cents : Costs \cup {0}, row : BOOLEAN, tier : {"free", "paid"},
                           item : BOOLEAN, spent : Nat, day : 0..MaxDays, sent : Nat]]

Init ==
    /\ company \in [Slots -> Companies]
    /\ exists = FALSE /\ tier = "free" /\ item = FALSE
    /\ spent = 0
    /\ charged = 0 /\ today = 0 /\ owed = 0
    /\ counted = 0 /\ undone = 0
    /\ day = 0
    /\ pc = [s \in Slots |-> "idle"]
    /\ call = [s \in Slots |-> NoCall]

-----------------------------------------------------------------------------
(* The grant.                                                               *)

UnderDailyCap == DailyCap = 0 \/ today < DailyCap

\* A row that is missing is inserted and rolled back with the reading session: it
\* reads as a fresh one.
Eligible == UnderDailyCap /\ (tier = "paid" \/ spent < FreeTier)

\* A task resolves its provider and gets the platform's key.
Resolve(s) ==
    /\ pc[s] = "idle"
    /\ Eligible
    /\ pc' = [pc EXCEPT ![s] = "granted"]
    /\ UNCHANGED <<company, account, ledger, counted, undone, day, call>>

\* The task ends, or goes on with a key of the company's own.
Finish(s) ==
    /\ pc[s] = "granted"
    /\ pc' = [pc EXCEPT ![s] = "idle"]
    /\ UNCHANGED <<company, account, ledger, counted, undone, day, call>>

-----------------------------------------------------------------------------
(* The settlement of one call.                                              *)

\* Mutated: the budget row is not locked.
Read_Unlocked(s, c) ==
    /\ pc[s] = "granted"
    /\ charged < MaxCharged /\ counted < MaxCounted
    /\ pc' = [pc EXCEPT ![s] = "read"]
    /\ call' = [call EXCEPT ![s] = [cents |-> c, row |-> exists, tier |-> tier, item |-> item,
                                    spent |-> spent, day |-> day, sent |-> 0]]
    /\ UNCHANGED <<company, account, ledger, counted, undone, day>>

\* A call cost c: its transaction locks the company's budget and reads the account.
Read(s, c) ==
    /\ pc[s] = "granted"
    /\ \A t \in Slots : Open(t) => company[t] # company[s]
    /\ charged < MaxCharged /\ counted < MaxCounted
    /\ pc' = [pc EXCEPT ![s] = "read"]
    /\ call' = [call EXCEPT ![s] = [cents |-> c, row |-> exists, tier |-> tier, item |-> item,
                                    spent |-> spent, day |-> day, sent |-> 0]]
    /\ UNCHANGED <<company, account, ledger, counted, undone, day>>

\* The account (inserted when it was not there) and the charge are flushed, and wait
\* for whoever holds the row.
Write(s) ==
    /\ pc[s] = "read"
    /\ \A t \in Slots : ~Holds(t)
    /\ exists => call[s].row
    /\ pc' = [pc EXCEPT ![s] = "written"]
    /\ UNCHANGED <<company, account, ledger, counted, undone, day, call>>

\* The transaction rolls back, and what called the meter fails.
RollBack(s) ==
    /\ undone' = undone + call[s].sent
    /\ pc' = [pc EXCEPT ![s] = "idle"]
    /\ call' = [call EXCEPT ![s] = NoCall]
    /\ UNCHANGED <<company, account, ledger, counted, day>>

\* It found no account to read, and one was inserted before its own.
Collide(s) ==
    /\ pc[s] = "read"
    /\ exists /\ ~call[s].row
    /\ RollBack(s)

\* The worker dies, or the job times out.
Abort(s) == Open(s) /\ RollBack(s)

\* x / 100 as round() gives it, the half to the even.
Rounded(x) ==
    LET q == x \div 100
        r == x % 100
    IN IF r > 50 \/ (r = 50 /\ q % 2 = 1) THEN q + 1 ELSE q

\* The units of a usage record.
Quantity(c) ==
    LET n == Rounded(c * MarkupPct) IN IF n > 1 THEN n ELSE 1

Billed(s) == call[s].tier = "paid"

\* Mutated: a report that got no answer is sent again.
Report_Retried(s, n) ==
    /\ pc[s] = "written" /\ Billed(s) /\ call[s].item
    /\ \E again \in {0, n} : counted' = counted + (n + again) * Quantity(call[s].cents)
    /\ pc' = [pc EXCEPT ![s] = "reported"]
    /\ call' = [call EXCEPT ![s].sent = n * Quantity(call[s].cents)]
    /\ UNCHANGED <<company, account, ledger, undone, day>>

\* The usage record: n = 1 when Stripe counted it, whether or not its answer arrived.
\* An error is swallowed.
Report(s, n) ==
    /\ pc[s] = "written" /\ Billed(s) /\ call[s].item
    /\ counted' = counted + n * Quantity(call[s].cents)
    /\ pc' = [pc EXCEPT ![s] = "reported"]
    /\ call' = [call EXCEPT ![s].sent = n * Quantity(call[s].cents)]
    /\ UNCHANGED <<company, account, ledger, undone, day>>

Append(s) ==
    /\ charged' = charged + call[s].cents
    /\ today' = IF call[s].day = day THEN today + call[s].cents ELSE today
    /\ owed' = IF Billed(s) THEN owed + Quantity(call[s].cents) ELSE owed

Committable(s) == pc[s] = "reported" \/ (pc[s] = "written" /\ ~(Billed(s) /\ call[s].item))

\* Mutated: the free tier's calls leave no charge.
Commit_FreeUncharged(s) ==
    /\ Committable(s)
    /\ exists' = TRUE
    /\ spent' = call[s].spent + call[s].cents
    /\ IF Billed(s) THEN Append(s) ELSE UNCHANGED ledger
    /\ pc' = [pc EXCEPT ![s] = "granted"]
    /\ call' = [call EXCEPT ![s] = NoCall]
    /\ UNCHANGED <<company, tier, item, counted, undone, day>>

\* The sum that was read, with the call added, is written over the row's.
Commit(s) ==
    /\ Committable(s)
    /\ exists' = TRUE
    /\ spent' = call[s].spent + call[s].cents
    /\ Append(s)
    /\ pc' = [pc EXCEPT ![s] = "granted"]
    /\ call' = [call EXCEPT ![s] = NoCall]
    /\ UNCHANGED <<company, tier, item, counted, undone, day>>

-----------------------------------------------------------------------------
(* The founder, Stripe and the calendar.                                    *)

\* checkout.session.completed, delivered once or again: the subscription's item may
\* not be found, and the one recorded before then stays.
Upgrade(found) ==
    /\ \A s \in Slots : ~Holds(s)
    /\ exists' = TRUE
    /\ tier' = "paid"
    /\ item' = (item \/ found)
    /\ UNCHANGED <<company, spent, ledger, counted, undone, day, pc, call>>

Midnight ==
    /\ day < MaxDays
    /\ day' = day + 1
    /\ today' = 0
    /\ UNCHANGED <<company, account, charged, owed, counted, undone, pc, call>>

Next ==
    \/ \E s \in Slots :
        \/ Resolve(s)
        \/ Finish(s)
        \/ \E c \in Costs : Read(s, c)
        \/ Write(s)
        \/ Collide(s)
        \/ \E n \in {0, 1} : Report(s, n)
        \/ Commit(s)
        \/ Abort(s)
    \/ \E found \in BOOLEAN : Upgrade(found)
    \/ Midnight

Spec == Init /\ [][Next]_vars

-----------------------------------------------------------------------------
(* Properties.                                                              *)

\* The account never claims more than the ledger's charges come to, whatever
\* settlements of the founder's companies overlap, collide on the first row, or are
\* rolled back: a founder is never cut off for compute that was not used.  (It may
\* claim less: an overlapping write is lost.)
NeverOverstated == spent <= charged

\* While all of a founder's tasks belong to one company, whose budget row serialises
\* their settlements, no write of the account is lost ...
BooksAgree == Sole => spent = charged

\* ... and so no task is granted the platform's key on the free tier once the platform
\* has funded the allowance.
FreeTierEnds ==
    [][Sole /\ tier = "free" /\ charged >= FreeTier
        => \A s \in Slots : pc[s] = "idle" => pc'[s] = "idle"]_vars

\* Stripe has counted nothing twice: what it has counted is covered by the charges that
\* are marked billed, those being settled, and the reports whose transaction was then
\* rolled back, also when an answer is lost.
CountedOnce ==
    LET sending == {s \in Slots : call[s].sent > 0} IN
    /\ Cardinality(sending) <= 1
    /\ \A s \in sending : counted <= owed + call[s].sent + undone
    /\ sending = {} => counted <= owed + undone
=============================================================================
