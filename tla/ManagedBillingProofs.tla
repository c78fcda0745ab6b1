------------------------ MODULE ManagedBillingProofs ------------------------
(***************************************************************************)
(* Theorems about ManagedBilling for every set of slots, companies and costs, *)
(* every allowance, cap and markup.                                          *)
(***************************************************************************)
EXTENDS ManagedBilling, FiniteSetTheorems, TLAPS

-----------------------------------------------------------------------------
(* Types.                                                                   *)

\* A usage record has at least one unit.
LEMMA QuantityPositive ==
  ASSUME NEW c \in Costs
  PROVE  Quantity(c) \in Nat \ {0}
<1>1. c \in Nat /\ MarkupPct \in Nat
  BY CostsAssumption, SettingsAssumption
<1>2. c * MarkupPct \in Nat
  BY <1>1
<1> DEFINE x == c * MarkupPct
<1>3. x \div 100 \in Int /\ x % 100 \in Int
  BY <1>2
<1> HIDE DEF x
<1>4. Rounded(x) \in Int
  BY <1>3 DEF Rounded
<1>5. (IF Rounded(x) > 1 THEN Rounded(x) ELSE 1) \in Nat \ {0}
  BY <1>4
<1> QED BY <1>5 DEF Quantity, x

\* What an open settlement carries: what it cost, and what it has sent.
Carries ==
    /\ \A s \in Slots : Open(s) => call[s].cents \in Costs
    /\ \A s \in Slots : call[s].sent > 0 =>
         pc[s] = "reported" /\ Billed(s) /\ call[s].sent = Quantity(call[s].cents)

BillInv == TypeOK /\ Carries

LEMMA BillInit == Init => BillInv
<1> SUFFICES ASSUME Init PROVE BillInv
  OBVIOUS
<1>1. 0 \in 0..MaxDays
  BY SettingsAssumption
<1>2. NoCall \in [cents : Costs \cup {0}, row : BOOLEAN, tier : {"free", "paid"},
                  item : BOOLEAN, spent : Nat, day : 0..MaxDays, sent : Nat]
  BY <1>1 DEF NoCall
<1>3. TypeOK
  BY <1>1, <1>2 DEF Init, TypeOK, Stages
<1>4. Carries
  BY DEF Init, Carries, Open, NoCall
<1> QED BY <1>3, <1>4 DEF BillInv

LEMMA CentsNatural ==
  ASSUME TypeOK, NEW s \in Slots
  PROVE  call[s].cents \in Nat
<1>1. call[s].cents \in Costs \cup {0}
  BY DEF TypeOK
<1>2. 0 \in Nat /\ \A c \in Costs : c \in Nat
  BY CostsAssumption
<1> QED BY <1>1, <1>2

LEMMA BillStep == BillInv /\ [Next]_vars => BillInv'
<1> SUFFICES ASSUME BillInv, [Next]_vars PROVE BillInv'
  OBVIOUS
<1> USE DEF BillInv, account, ledger, Billed
<1>1. ASSUME NEW s \in Slots, Resolve(s) PROVE BillInv'
  BY <1>1 DEF TypeOK, Carries, Open, Resolve, Stages
<1>2. ASSUME NEW s \in Slots, Finish(s) PROVE BillInv'
  BY <1>2 DEF TypeOK, Carries, Open, Finish, Stages
<1>3. ASSUME NEW s \in Slots, NEW c \in Costs, Read(s, c) PROVE BillInv'
  BY <1>3 DEF TypeOK, Carries, Open, Read, Stages
<1>4. ASSUME NEW s \in Slots, Write(s) PROVE BillInv'
  BY <1>4 DEF TypeOK, Carries, Open, Write, Stages
<1>5. ASSUME NEW s \in Slots, RollBack(s) PROVE BillInv'
  BY <1>5, SettingsAssumption DEF TypeOK, Carries, Open, RollBack, Stages, NoCall
<1>6. ASSUME NEW s \in Slots, NEW n \in {0, 1}, Report(s, n) PROVE BillInv'
  <2> DEFINE q == Quantity(call[s].cents)
  <2>1. q \in Nat \ {0}
    BY <1>6, QuantityPositive DEF Report, Carries, Open
  <2> HIDE DEF q
  <2>2. n * q \in Nat /\ (n * q > 0 => n * q = q)
    BY <2>1
  <2>3. counted' = counted + n * q /\ call' = [call EXCEPT ![s].sent = n * q]
    BY <1>6 DEF Report, q
  <2>4. TypeOK'
    BY <1>6, <2>2, <2>3 DEF TypeOK, Report, Stages
  <2>5. \A t \in Slots : Open(t)' => call'[t].cents \in Costs
    BY <1>6, <2>3 DEF TypeOK, Carries, Open, Report
  <2>6. call'[s].cents = call[s].cents /\ call'[s].tier = call[s].tier
    BY <2>3 DEF TypeOK
  <2>7. ASSUME NEW t \in Slots, call'[t].sent > 0
        PROVE  pc'[t] = "reported" /\ Billed(t)' /\ call'[t].sent = Quantity(call'[t].cents)
    <3>1. CASE t = s
      BY <1>6, <2>2, <2>3, <2>6, <2>7, <3>1 DEF TypeOK, Report, q
    <3>2. CASE t # s
      BY <1>6, <2>3, <2>7, <3>2 DEF TypeOK, Carries, Report
    <3> QED BY <3>1, <3>2
  <2> QED BY <2>4, <2>5, <2>7 DEF Carries
<1>7. ASSUME NEW s \in Slots, Commit(s) PROVE BillInv'
  <2>1. call[s].cents \in Nat
    BY CentsNatural
  <2>2. Quantity(call[s].cents) \in Nat
    BY <1>7, QuantityPositive DEF Commit, Committable, Carries, Open
  <2>3. /\ charged' \in Nat /\ today' \in Nat /\ owed' \in Nat /\ spent' \in Nat
        /\ pc' \in [Slots -> Stages]
    BY <1>7, <2>1, <2>2 DEF TypeOK, Commit, Append, Stages
  <2>4. call' \in [Slots -> [cents : Costs \cup {0}, row : BOOLEAN, tier : {"free", "paid"},
                            item : BOOLEAN, spent : Nat, day : 0..MaxDays, sent : Nat]]
    BY <1>7, SettingsAssumption DEF TypeOK, Commit, NoCall
  <2>5. TypeOK'
    BY <1>7, <2>3, <2>4 DEF TypeOK, Commit
  <2>6. Carries'
    BY <1>7 DEF TypeOK, Carries, Open, Commit, NoCall
  <2> QED BY <2>5, <2>6
<1>8. ASSUME NEW found \in BOOLEAN, Upgrade(found) PROVE BillInv'
  BY <1>8 DEF TypeOK, Carries, Open, Upgrade
<1>9. CASE Midnight
  BY <1>9, SettingsAssumption DEF TypeOK, Carries, Open, Midnight
<1>10. CASE UNCHANGED vars
  BY <1>10 DEF TypeOK, Carries, Open, vars
<1> QED BY <1>1, <1>2, <1>3, <1>4, <1>5, <1>6, <1>7, <1>8, <1>9, <1>10
    DEF Next, Collide, Abort

\* Every amount of the account, the ledger and the open settlements stays a natural
\* number, and every slot stands in a known stage.
THEOREM TypeCorrect == Spec => []TypeOK
BY BillInit, BillStep, PTL DEF Spec, BillInv

-----------------------------------------------------------------------------
(* The account and the ledger.                                              *)

\* What a settlement has read of the account is covered by the charges, too.
Covered == spent <= charged /\ \A s \in Slots : call[s].spent <= charged

LEMMA CoveredStep == BillInv /\ Covered /\ [Next]_vars => Covered'
<1> SUFFICES ASSUME BillInv, Covered, [Next]_vars PROVE Covered'
  OBVIOUS
<1> USE DEF BillInv, TypeOK, Covered, account, ledger
<1>1. ASSUME NEW s \in Slots, Resolve(s) \/ Finish(s) \/ Write(s) PROVE Covered'
  BY <1>1 DEF Resolve, Finish, Write
<1>2. ASSUME NEW s \in Slots, NEW c \in Costs, Read(s, c) PROVE Covered'
  BY <1>2 DEF Read
<1>3. ASSUME NEW s \in Slots, RollBack(s) PROVE Covered'
  BY <1>3 DEF RollBack, NoCall
<1>4. ASSUME NEW s \in Slots, NEW n \in {0, 1}, Report(s, n) PROVE Covered'
  BY <1>4 DEF Report
<1>5. ASSUME NEW s \in Slots, Commit(s) PROVE Covered'
  <2>1. call[s].cents \in Nat
    BY CentsNatural
  <2> QED BY <1>5, <2>1 DEF Commit, Append, NoCall
<1>6. ASSUME NEW found \in BOOLEAN, Upgrade(found) PROVE Covered'
  BY <1>6 DEF Upgrade
<1>7. CASE Midnight
  BY <1>7 DEF Midnight
<1>8. CASE UNCHANGED vars
  BY <1>8 DEF vars
<1> QED BY <1>1, <1>2, <1>3, <1>4, <1>5, <1>6, <1>7, <1>8 DEF Next, Collide, Abort

\* The account never claims more than the charges, whatever overlaps, collides or is
\* rolled back (record_platform_spend).
THEOREM NeverMore == Spec => []NeverOverstated
<1>1. Init => Covered
  BY DEF Init, Covered, NoCall
<1>2. Covered => NeverOverstated
  BY DEF Covered, NeverOverstated
<1> QED BY <1>1, <1>2, BillInit, BillStep, CoveredStep, PTL DEF Spec

-----------------------------------------------------------------------------
(* One company: its budget row lets one settlement in at a time.             *)

Serial ==
    /\ \A s, t \in Slots : Open(s) /\ Open(t) => s = t
    /\ \A s \in Slots : Open(s) => call[s].spent = spent
    /\ spent = charged

SoleInv == Sole => Serial

LEMMA SoleStep == BillInv /\ SoleInv /\ [Next]_vars => SoleInv'
<1>1. SUFFICES ASSUME BillInv, SoleInv, [Next]_vars, Sole' PROVE Serial'
  BY DEF SoleInv
<1>2. company' = company
  BY <1>1 DEF Next, Resolve, Finish, Read, Write, Collide, Abort, RollBack, Report, Commit,
              Upgrade, Midnight, vars
<1>3. Sole /\ Serial
  BY <1>1, <1>2 DEF Sole, SoleInv
<1> USE <1>3 DEF BillInv, TypeOK, Serial, Open, account, ledger
<1>4. ASSUME NEW s \in Slots, Resolve(s) \/ Finish(s) \/ Write(s) PROVE Serial'
  BY <1>1, <1>4 DEF Resolve, Finish, Write
<1>5. ASSUME NEW s \in Slots, NEW c \in Costs, Read(s, c) PROVE Serial'
  <2>1. \A t \in Slots : ~Open(t)
    BY <1>5 DEF Sole, Read
  <2> QED BY <1>1, <1>5, <2>1 DEF Read
<1>6. ASSUME NEW s \in Slots, RollBack(s) PROVE Serial'
  BY <1>1, <1>6 DEF RollBack
<1>7. ASSUME NEW s \in Slots, NEW n \in {0, 1}, Report(s, n) PROVE Serial'
  BY <1>1, <1>7 DEF Report
<1>8. ASSUME NEW s \in Slots, Commit(s) PROVE Serial'
  <2>1. Open(s) /\ pc' = [pc EXCEPT ![s] = "granted"]
    BY <1>8 DEF Commit, Committable
  <2>2. \A t \in Slots : ~Open(t)'
    BY <1>1, <2>1
  <2>3. spent' = charged'
    BY <1>1, <1>8, <2>1 DEF Commit, Append
  <2> QED BY <2>2, <2>3
<1>9. ASSUME NEW found \in BOOLEAN, Upgrade(found) PROVE Serial'
  BY <1>1, <1>9 DEF Upgrade
<1>10. CASE Midnight
  BY <1>1, <1>10 DEF Midnight
<1>11. CASE UNCHANGED vars
  BY <1>1, <1>11 DEF vars
<1> QED BY <1>1, <1>4, <1>5, <1>6, <1>7, <1>8, <1>9, <1>10, <1>11 DEF Next, Collide, Abort

LEMMA SoleInit == Init => SoleInv
BY DEF Init, SoleInv, Serial, Open

\* With the tasks of one company, the account says exactly what was charged
\* (commit_spend's lock orders the settlements).
THEOREM BooksAlwaysAgree == Spec => []BooksAgree
<1>1. SoleInv => BooksAgree
  BY DEF SoleInv, Serial, BooksAgree
<1> QED BY <1>1, SoleInit, BillInit, BillStep, SoleStep, PTL DEF Spec

\* With the tasks of one company, no task is granted the platform's key on the free
\* tier once the allowance is charged (eligibility).
THEOREM FreeTierAlwaysEnds == Spec => FreeTierEnds
<1>1. BillInv /\ SoleInv /\ [Next]_vars =>
        [Sole /\ tier = "free" /\ charged >= FreeTier
           => \A s \in Slots : pc[s] = "idle" => pc'[s] = "idle"]_vars
  <2> SUFFICES ASSUME BillInv, SoleInv, Next, Sole, tier = "free", charged >= FreeTier,
                      NEW s \in Slots, pc[s] = "idle"
               PROVE  pc'[s] = "idle"
    OBVIOUS
  <2>1. ~Eligible
    BY SettingsAssumption DEF SoleInv, Serial, Eligible, BillInv, TypeOK
  <2> QED BY <2>1 DEF Next, Resolve, Finish, Read, Write, Collide, Abort, RollBack, Report,
              Commit, Committable, Upgrade, Midnight, Open, BillInv, TypeOK
<1> QED BY <1>1, SoleInit, BillInit, BillStep, SoleStep, PTL DEF Spec, FreeTierEnds

-----------------------------------------------------------------------------
(* The usage records.                                                       *)

\* One settlement holds the account's row at a time, and only its report is not yet
\* among the charges or the undone.
CountInv ==
    /\ \A s, t \in Slots : Holds(s) /\ Holds(t) => s = t
    /\ \A s \in Slots : call[s].sent > 0 => counted <= owed + call[s].sent + undone
    /\ (\A s \in Slots : call[s].sent = 0) => counted <= owed + undone

LEMMA CountInit == Init => CountInv
BY DEF Init, CountInv, Holds, NoCall

LEMMA CountStep == BillInv /\ BillInv' /\ CountInv /\ [Next]_vars => CountInv'
<1> SUFFICES ASSUME BillInv, BillInv', CountInv, [Next]_vars PROVE CountInv'
  OBVIOUS
<1> USE DEF BillInv, TypeOK, account, ledger, Holds
\* A slot that does not hold the row has sent nothing.
<1>1. \A s \in Slots : call[s].sent > 0 => Holds(s)
  BY DEF Carries
<1>2. ASSUME NEW s \in Slots, Resolve(s) \/ Finish(s) PROVE CountInv'
  BY <1>2 DEF CountInv, Resolve, Finish
<1>3. ASSUME NEW s \in Slots, NEW c \in Costs, Read(s, c) PROVE CountInv'
  <2>1. call[s].sent = 0
    BY <1>1, <1>3 DEF Read
  <2> QED BY <1>3, <2>1 DEF CountInv, Read
<1>4. ASSUME NEW s \in Slots, Write(s) PROVE CountInv'
  BY <1>4 DEF CountInv, Write
<1>5. ASSUME NEW s \in Slots, RollBack(s) PROVE CountInv'
  <2>1. \A t \in Slots : call'[t].sent = IF t = s THEN 0 ELSE call[t].sent
    BY <1>5 DEF RollBack, NoCall
  <2>2. \A t, u \in Slots : Holds(t)' /\ Holds(u)' => t = u
    BY <1>5 DEF CountInv, RollBack
  <2>3. CASE call[s].sent > 0
    <3>1. \A t \in Slots : call'[t].sent = 0
      BY <1>1, <2>1, <2>3 DEF CountInv
    <3> QED BY <1>5, <2>2, <2>3, <3>1 DEF CountInv, RollBack
  <2>4. CASE call[s].sent = 0
    BY <1>5, <2>1, <2>2, <2>4 DEF CountInv, RollBack
  <2> QED BY <2>3, <2>4
<1>6. ASSUME NEW s \in Slots, NEW n \in {0, 1}, Report(s, n) PROVE CountInv'
  <2> DEFINE q == n * Quantity(call[s].cents)
  <2>1. q \in Nat
    BY <1>6, QuantityPositive DEF Report, Carries, Open
  <2>2. counted' = counted + q /\ call' = [call EXCEPT ![s].sent = q] /\ owed' = owed
        /\ undone' = undone
    BY <1>6 DEF Report
  <2> HIDE DEF q
  <2>3. \A t \in Slots : call[t].sent = 0
    BY <1>1, <1>6 DEF CountInv, Carries, Report
  <2>4. \A t \in Slots : call'[t].sent = IF t = s THEN q ELSE 0
    BY <2>2, <2>3
  <2>5. \A t, u \in Slots : Holds(t)' /\ Holds(u)' => t = u
    BY <1>6 DEF CountInv, Report
  <2> QED BY <2>1, <2>2, <2>3, <2>4, <2>5 DEF CountInv
<1>7. ASSUME NEW s \in Slots, Commit(s) PROVE CountInv'
  <2>1. \A t \in Slots : call'[t].sent = IF t = s THEN 0 ELSE call[t].sent
    BY <1>7 DEF Commit, NoCall
  <2>2. \A t, u \in Slots : Holds(t)' /\ Holds(u)' => t = u
    BY <1>7 DEF CountInv, Commit
  <2>3. Quantity(call[s].cents) \in Nat
    BY <1>7, QuantityPositive DEF Commit, Committable, Carries, Open
  <2>4. CASE call[s].sent > 0
    <3>1. \A t \in Slots : call'[t].sent = 0
      BY <1>1, <2>1, <2>4 DEF CountInv
    <3>2. owed' = owed + call[s].sent
      BY <1>7, <2>4 DEF Commit, Append, Carries
    <3> QED BY <1>7, <2>2, <2>4, <3>1, <3>2 DEF CountInv, Commit
  <2>5. CASE call[s].sent = 0
    <3>1. owed' >= owed /\ owed' \in Nat
      BY <1>7, <2>3 DEF Commit, Append
    <3>2. counted' = counted /\ undone' = undone
      BY <1>7 DEF Commit
    <3>3. \A t \in Slots : call'[t].sent = call[t].sent /\ call[t].sent \in Nat
      BY <2>1, <2>5
    <3>4. \A t \in Slots : call'[t].sent > 0 => counted' <= owed' + call'[t].sent + undone'
      BY <3>1, <3>2, <3>3 DEF CountInv
    <3>5. ASSUME \A t \in Slots : call'[t].sent = 0 PROVE counted' <= owed' + undone'
      <4>1. \A t \in Slots : call[t].sent = 0
        BY <3>3, <3>5
      <4>2. counted <= owed + undone
        BY <4>1 DEF CountInv
      <4>3. owed \in Nat /\ undone \in Nat /\ counted \in Nat
        OBVIOUS
      <4>4. \A x, y, z, u \in Nat : x <= y + z /\ u >= y => x <= u + z
        OBVIOUS
      <4>5. counted <= owed' + undone
        BY <4>2, <4>3, <4>4, <3>1
      <4> QED BY <4>5, <3>2
    <3> QED BY <2>2, <3>4, <3>5 DEF CountInv
  <2> QED BY <2>4, <2>5
<1>8. ASSUME NEW found \in BOOLEAN, Upgrade(found) PROVE CountInv'
  BY <1>8 DEF CountInv, Upgrade
<1>9. CASE Midnight
  BY <1>9 DEF CountInv, Midnight
<1>10. CASE UNCHANGED vars
  BY <1>10 DEF CountInv, vars
<1> QED BY <1>2, <1>3, <1>4, <1>5, <1>6, <1>7, <1>8, <1>9, <1>10 DEF Next, Collide, Abort

\* Stripe never counts a call twice, for any markup and any loss of answers: what it
\* has counted is covered by the charges marked billed, the report of the settlement
\* that is open, and those that were rolled back (report_usage_safe).
THEOREM NeverCountedTwice == Spec => []CountedOnce
<1>1. BillInv /\ CountInv => CountedOnce
  <2> SUFFICES ASSUME BillInv, CountInv PROVE CountedOnce
    OBVIOUS
  <2> DEFINE sending == {s \in Slots : call[s].sent > 0}
  <2>1. \A s, t \in sending : s = t
    BY DEF BillInv, Carries, CountInv, Holds
  <2>2. Cardinality(sending) <= 1
    <3>1. CASE sending = {}
      BY <3>1, FS_EmptySet
    <3>2. ASSUME NEW s \in sending PROVE Cardinality(sending) <= 1
      <4>1. sending = {s}
        BY <2>1, <3>2
      <4>2. Cardinality({s}) = 1
        BY FS_Singleton
      <4> QED BY <4>1, <4>2
    <3> QED BY <3>1, <3>2
  <2>3. \A s \in sending : counted <= owed + call[s].sent + undone
    BY DEF CountInv
  <2>4. sending = {} => counted <= owed + undone
    BY DEF CountInv, BillInv, TypeOK
  <2> QED BY <2>2, <2>3, <2>4 DEF CountedOnce
<1>2. BillInv /\ [Next]_vars => BillInv'
  BY BillStep
<1> QED BY <1>1, <1>2, BillInit, CountInit, CountStep, PTL DEF Spec
=============================================================================
