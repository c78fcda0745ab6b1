-------------------------- MODULE CostMeterProofs ---------------------------
(***************************************************************************)
(* Theorems about CostMeter for every number of calls, every set of agents   *)
(* and every amount.                                                         *)
(***************************************************************************)
EXTENDS CostMeter, FiniteSetTheorems, WellFoundedInduction, TLAPS

-----------------------------------------------------------------------------
(* Sums.  The library's induction theorems take an operator as a parameter;  *)
(* here induction is done instead by the least element of the set of         *)
(* counterexamples, which LeastNat gets from the well-foundedness of strict  *)
(* inclusion between finite sets.                                            *)

\* Every non-empty set of naturals has a least element.
LEMMA LeastNat ==
  ASSUME NEW T, T \subseteq Nat, T # {}
  PROVE  \E x \in T : \A y \in T : x <= y
<1> DEFINE Segments == {0..x : x \in T}
<1>1. IsWellFoundedOn(StrictSubsetOrdering(Nat), FiniteSubsetsOf(Nat))
  BY FS_StrictSubsetOrderingWellFounded
<1>2. Segments \subseteq FiniteSubsetsOf(Nat)
  <2> SUFFICES ASSUME NEW x \in T PROVE 0..x \in FiniteSubsetsOf(Nat)
    OBVIOUS
  <2>1. IsFiniteSet(0..x)
    BY FS_Interval
  <2>2. 0..x \subseteq Nat
    OBVIOUS
  <2> QED BY <2>1, <2>2 DEF FiniteSubsetsOf
<1>3. Segments # {}
  OBVIOUS
<1>4. \E s \in Segments : \A t \in Segments : ~ (<<t, s>> \in StrictSubsetOrdering(Nat))
  <2> HIDE DEF Segments
  <2> QED BY <1>1, <1>2, <1>3, WFMin
<1>5. PICK x \in T : \A y \in T : ~ (<<0..y, 0..x>> \in StrictSubsetOrdering(Nat))
  BY <1>4
<1>6. ASSUME NEW y \in T, y < x PROVE FALSE
  <2>1. 0..y \subseteq 0..x /\ 0..y # 0..x
    BY <1>6
  <2>2. 0..y \in SUBSET Nat /\ 0..x \in SUBSET Nat
    OBVIOUS
  <2>3. <<0..y, 0..x>> \in StrictSubsetOrdering(Nat)
    BY <2>1, <2>2 DEF StrictSubsetOrdering
  <2> QED BY <1>5, <2>3
<1> QED BY <1>6

\* g holds the running totals of h up to n.
Totals(g, h, n) ==
  g = [k \in 0..n |-> IF k = 0 THEN 0 ELSE g[k-1] + h[k]]

\* Running totals exist up to every m.
LEMMA TotalsExist ==
  ASSUME NEW n \in Nat, NEW h \in [1..n -> Nat], NEW m \in 0..n
  PROVE  \E g \in [0..m -> Nat] : Totals(g, h, m)
<1> DEFINE Bad == {k \in 0..n : ~ \E g \in [0..k -> Nat] : Totals(g, h, k)}
<1> SUFFICES ASSUME Bad # {} PROVE FALSE
  OBVIOUS
<1>1. Bad \subseteq Nat
  OBVIOUS
<1>2. PICK k \in Bad : \A j \in Bad : k <= j
  BY <1>1, LeastNat
<1>3. CASE k = 0
  <2> DEFINE z == [i \in 0..0 |-> 0]
  <2>1. z \in [0..0 -> Nat] /\ Totals(z, h, 0)
    BY DEF Totals
  <2> QED BY <1>2, <1>3, <2>1
<1>4. CASE k # 0
  <2>0. k \in 0..n /\ \A j \in Bad : k <= j
    <3> HIDE DEF Bad
    <3>1. k \in Bad /\ \A j \in Bad : k <= j
      BY <1>2
    <3> QED BY <3>1 DEF Bad
  <2>1. k \in 1..n /\ k-1 \in 0..n /\ k-1 \notin Bad
    <3> HIDE DEF Bad
    <3> QED BY <2>0, <1>4
  <2>2. PICK g \in [0..(k-1) -> Nat] : Totals(g, h, k-1)
    BY <2>1
  <2> DEFINE e == [i \in 0..k |-> IF i = k THEN g[k-1] + h[k] ELSE g[i]]
  <2>3. e \in [0..k -> Nat]
    BY <2>1
  <2>4. Totals(e, h, k)
    <3>1. \A i \in 0..k : e[i] = IF i = 0 THEN 0 ELSE e[i-1] + h[i]
      <4> SUFFICES ASSUME NEW i \in 0..k
                   PROVE  e[i] = IF i = 0 THEN 0 ELSE e[i-1] + h[i]
        OBVIOUS
      <4>1. CASE i = k
        BY <2>1, <4>1
      <4>2. CASE i # k
        <5>1. i \in 0..(k-1)
          BY <2>1, <4>2
        <5>2. e[i] = g[i] /\ (i # 0 => e[i-1] = g[i-1])
          BY <2>1, <5>1
        <5>3. g[i] = IF i = 0 THEN 0 ELSE g[i-1] + h[i]
          BY <2>2, <5>1 DEF Totals
        <5> QED BY <5>2, <5>3
      <4> QED BY <4>1, <4>2
    <3>2. e = [i \in 0..k |-> e[i]]
      OBVIOUS
    <3> HIDE DEF e
    <3> QED BY <3>1, <3>2 DEF Totals
  <2> QED BY <1>2, <2>3, <2>4
<1> QED BY <1>3, <1>4

\* PartialSums obeys its recursive equation.
LEMMA PartialSumsDef ==
  ASSUME NEW n \in Nat, NEW h \in [1..n -> Nat]
  PROVE  /\ PartialSums(h, n)[0] = 0
         /\ \A k \in 1..n : PartialSums(h, n)[k] = PartialSums(h, n)[k-1] + h[k]
<1>1. PICK g \in [0..n -> Nat] : Totals(g, h, n)
  <2>1. n \in 0..n
    OBVIOUS
  <2> QED BY <2>1, TotalsExist
<1>2. \E s : s = [k \in 0..n |-> IF k = 0 THEN 0 ELSE s[k-1] + h[k]]
  BY <1>1 DEF Totals
<1> DEFINE s == PartialSums(h, n)
<1>3. s = [k \in 0..n |-> IF k = 0 THEN 0 ELSE s[k-1] + h[k]]
  BY <1>2 DEF PartialSums
<1> HIDE DEF s
<1>4. \A k \in 0..n : s[k] = IF k = 0 THEN 0 ELSE s[k-1] + h[k]
  BY <1>3
<1>5. s[0] = 0 /\ \A k \in 1..n : s[k] = s[k-1] + h[k]
  BY <1>4
<1> QED BY <1>5 DEF s

\* Every running total is a natural.
LEMMA PartialSumsNat ==
  ASSUME NEW n \in Nat, NEW h \in [1..n -> Nat]
  PROVE  \A k \in 0..n : PartialSums(h, n)[k] \in Nat
<1> DEFINE s == PartialSums(h, n)
           Bad == {k \in 0..n : s[k] \notin Nat}
<1>1. s[0] = 0 /\ \A k \in 1..n : s[k] = s[k-1] + h[k]
  BY PartialSumsDef
<1> HIDE DEF s
<1> SUFFICES ASSUME Bad # {} PROVE FALSE
  BY DEF s
<1>2. Bad \subseteq Nat
  OBVIOUS
<1>3. PICK k \in Bad : \A j \in Bad : k <= j
  BY <1>2, LeastNat
<1>4. k # 0
  BY <1>1, <1>3
<1>5. k-1 \in 0..n /\ k-1 \notin Bad /\ h[k] \in Nat
  BY <1>3, <1>4
<1>6. s[k] \in Nat
  BY <1>1, <1>4, <1>5
<1> QED BY <1>3, <1>6

LEMMA SumNat ==
  ASSUME NEW n \in Nat, NEW h \in [1..n -> Nat]
  PROVE  SumOf(h, n) \in Nat
BY PartialSumsNat DEF SumOf

\* Changing one slot changes the sum by the difference.
LEMMA SumUpdate ==
  ASSUME NEW n \in Nat, NEW h \in [1..n -> Nat], NEW i \in 1..n, NEW v \in Nat
  PROVE  SumOf([h EXCEPT ![i] = v], n) = SumOf(h, n) - h[i] + v
<1> DEFINE w == [h EXCEPT ![i] = v]
           s == PartialSums(h, n)
           t == PartialSums(w, n)
           Gap(k) == IF k < i THEN 0 ELSE v - h[i]
           Bad == {k \in 0..n : t[k] # s[k] + Gap(k)}
<1>1. w \in [1..n -> Nat] /\ w[i] = v /\ \A j \in 1..n : j # i => w[j] = h[j]
  OBVIOUS
<1>2. s[0] = 0 /\ \A k \in 1..n : s[k] = s[k-1] + h[k]
  BY PartialSumsDef
<1> HIDE DEF w
<1>3. t[0] = 0 /\ \A k \in 1..n : t[k] = t[k-1] + w[k]
  BY <1>1, PartialSumsDef
<1>4. \A k \in 0..n : s[k] \in Nat
  BY PartialSumsNat
<1>5. \A k \in 0..n : t[k] \in Nat
  BY <1>1, PartialSumsNat
<1>6. h[i] \in Nat
  OBVIOUS
<1>7. Bad = {}
  <2> HIDE DEF s, t
  <2> SUFFICES ASSUME Bad # {} PROVE FALSE
    OBVIOUS
  <2>1. Bad \subseteq Nat
    OBVIOUS
  <2>2. PICK k \in Bad : \A j \in Bad : k <= j
    <3> HIDE DEF Bad
    <3> QED BY <2>1, LeastNat
  <2>3. k \in 1..n
    BY <1>2, <1>3, <2>2
  <2>4. k-1 \in 0..n /\ t[k-1] = s[k-1] + Gap(k-1)
    BY <2>2, <2>3
  <2>5. t[k] = t[k-1] + w[k] /\ s[k] = s[k-1] + h[k]
    BY <1>2, <1>3, <2>3
  <2>6. s[k-1] \in Nat /\ t[k-1] \in Nat /\ h[k] \in Nat
    BY <1>4, <1>5, <2>3, <2>4
  <2>7. t[k] = s[k] + Gap(k)
    <3>1. CASE k < i
      BY <1>1, <2>3, <2>4, <2>5, <2>6, <3>1
    <3>2. CASE k = i
      BY <1>1, <1>6, <2>3, <2>4, <2>5, <2>6, <3>2
    <3>3. CASE k > i
      <4>1. w[k] = h[k]
        BY <1>1, <2>3, <3>3
      <4>2. Gap(k-1) = v - h[i] /\ Gap(k) = v - h[i]
        BY <2>3, <3>3
      <4> HIDE DEF Gap
      <4> QED BY <1>6, <2>4, <2>5, <2>6, <4>1, <4>2
    <3> QED BY <2>3, <3>1, <3>2, <3>3
  <2> QED BY <2>2, <2>7
<1>8. n \in 0..n /\ n \notin Bad
  BY <1>7
<1>9. t[n] = s[n] + (v - h[i])
  BY <1>8
<1> QED BY <1>4, <1>6, <1>8, <1>9 DEF SumOf, w

\* A slot is at most the sum of all.
LEMMA SumAtLeastEach ==
  ASSUME NEW n \in Nat, NEW h \in [1..n -> Nat], NEW i \in 1..n
  PROVE  h[i] <= SumOf(h, n)
<1> DEFINE w == [h EXCEPT ![i] = 0]
<1>1. SumOf(w, n) = SumOf(h, n) - h[i]
  <2>1. SumOf(w, n) = SumOf(h, n) - h[i] + 0
    BY SumUpdate
  <2>2. SumOf(h, n) \in Nat /\ h[i] \in Nat
    BY SumNat
  <2> QED BY <2>1, <2>2
<1>2. w \in [1..n -> Nat]
  OBVIOUS
<1>3. SumOf(w, n) \in Nat
  BY <1>2, SumNat
<1>4. SumOf(h, n) \in Nat /\ h[i] \in Nat
  BY SumNat
<1> QED BY <1>1, <1>3, <1>4

\* Raising no slot raises no sum.
LEMMA SumMonotone ==
  ASSUME NEW n \in Nat, NEW h \in [1..n -> Nat], NEW w \in [1..n -> Nat],
         \A i \in 1..n : w[i] <= h[i]
  PROVE  SumOf(w, n) <= SumOf(h, n)
<1> DEFINE s == PartialSums(h, n)
           t == PartialSums(w, n)
           Bad == {k \in 0..n : ~ t[k] <= s[k]}
<1>1. s[0] = 0 /\ \A k \in 1..n : s[k] = s[k-1] + h[k]
  BY PartialSumsDef
<1>2. t[0] = 0 /\ \A k \in 1..n : t[k] = t[k-1] + w[k]
  BY PartialSumsDef
<1>3. \A k \in 0..n : s[k] \in Nat /\ t[k] \in Nat
  BY PartialSumsNat
<1>4. Bad = {}
  <2> HIDE DEF s, t
  <2> SUFFICES ASSUME Bad # {} PROVE FALSE
    OBVIOUS
  <2>1. Bad \subseteq Nat
    OBVIOUS
  <2>2. PICK k \in Bad : \A j \in Bad : k <= j
    <3> HIDE DEF Bad
    <3> QED BY <2>1, LeastNat
  <2>3. k \in 1..n
    BY <1>1, <1>2, <2>2
  <2>4. k-1 \in 0..n /\ t[k-1] <= s[k-1]
    BY <2>2, <2>3
  <2>5. t[k] = t[k-1] + w[k] /\ s[k] = s[k-1] + h[k]
    BY <1>1, <1>2, <2>3
  <2>6. w[k] <= h[k] /\ w[k] \in Nat /\ h[k] \in Nat
    BY <2>3
  <2>7. s[k-1] \in Nat /\ t[k-1] \in Nat
    BY <1>3, <2>4
  <2>8. t[k] <= s[k]
    BY <2>4, <2>5, <2>6, <2>7
  <2> QED BY <2>2, <2>8
<1>5. n \in 0..n /\ n \notin Bad
  BY <1>4
<1> QED BY <1>5 DEF SumOf

\* The sum of zeros is zero.
LEMMA SumZero ==
  ASSUME NEW n \in Nat
  PROVE  SumOf([i \in 1..n |-> 0], n) = 0
<1> DEFINE h == [i \in 1..n |-> 0]
           s == PartialSums(h, n)
           Bad == {k \in 0..n : s[k] # 0}
<1>0. h \in [1..n -> Nat] /\ \A k \in 1..n : h[k] = 0
  OBVIOUS
<1> HIDE DEF h
<1>1. s[0] = 0 /\ \A k \in 1..n : s[k] = s[k-1] + h[k]
  BY <1>0, PartialSumsDef
<1>2. Bad = {}
  <2> HIDE DEF s
  <2> SUFFICES ASSUME Bad # {} PROVE FALSE
    OBVIOUS
  <2>1. Bad \subseteq Nat
    OBVIOUS
  <2>2. PICK k \in Bad : \A j \in Bad : k <= j
    <3> HIDE DEF Bad
    <3> QED BY <2>1, LeastNat
  <2>3. k \in 1..n
    BY <1>1, <2>2
  <2>4. k-1 \in 0..n /\ s[k-1] = 0
    BY <2>2, <2>3
  <2>5. s[k] = 0
    BY <1>0, <1>1, <2>3, <2>4
  <2> QED BY <2>2, <2>5
<1>3. n \in 0..n /\ n \notin Bad
  BY <1>2
<1> QED BY <1>3 DEF SumOf, h

-----------------------------------------------------------------------------
(* Types.                                                                    *)

LEMMA Arithmetic ==
  /\ \A a, b \in Nat : Monus(a, b) \in Nat
  /\ \A a, b \in Int : Larger(a, b) \in Int /\ Larger(a, b) >= a /\ Larger(a, b) >= b
  /\ \A a, b \in Int : Smaller(a, b) \in Int
BY DEF Monus, Larger, Smaller

\* What a Move does to the types of the slots' variables.
LEMMA MoveType ==
  ASSUME TypeOK, NEW c \in Calls, NEW stage \in Stages, NEW cents \in Nat,
         NEW why \in Scopes, NEW n \in Int, Move(c, stage, cents, why, n)
  PROVE  /\ pc' \in [Calls -> Stages]
         /\ est' \in [Calls -> Nat]
         /\ scope' \in [Calls -> Scopes]
         /\ amt' \in [Calls -> Int]
BY DEF TypeOK, Move

\* Estimates are positive naturals, and slots have accounts and kinds.
LEMMA ConstantTypes ==
  /\ \A cents \in Estimates : cents \in Nat
  /\ \A c \in Calls : ProcOf(c) \in Processes
  /\ InitLimit \in Nat /\ InitCap \in Nat /\ MinBump \in Nat
BY AmountsAssumption, AccountsAssumption DEF ProcOf, Processes

\* A think step only extends a slice when its agent has one: a slot refused
\* for its agent, or extending it, belongs to a capped agent.  An extension
\* writes a natural number, and a parked decision asks for one.
SlotOK ==
  \A c \in Calls :
    /\ scope[c] = "agent" => AgentOf[c] \in Agents
    /\ pc[c] = "extending" => AgentOf[c] \in Agents /\ amt[c] \in Nat
    /\ pc[c] = "parked" => amt[c] \in Nat
    /\ pc[c] = "refused" /\ Kind[c] = "think" /\ scope[c] # "agent" => scope[c] = "company"

TypeInv == TypeOK /\ SlotOK

\* A Move keeps SlotOK when the slot it moves is as SlotOK says.
LEMMA MoveSlot ==
  ASSUME TypeInv, NEW c \in Calls, NEW stage, NEW cents, NEW why, NEW n,
         Move(c, stage, cents, why, n),
         why = "agent" => AgentOf[c] \in Agents,
         stage = "extending" => AgentOf[c] \in Agents /\ n \in Nat,
         stage = "parked" => n \in Nat,
         stage = "refused" /\ Kind[c] = "think" /\ why # "agent" => why = "company"
  PROVE  SlotOK'
<1> SUFFICES ASSUME NEW d \in Calls
    PROVE /\ scope'[d] = "agent" => AgentOf[d] \in Agents
          /\ pc'[d] = "extending" => AgentOf[d] \in Agents /\ amt'[d] \in Nat
          /\ pc'[d] = "parked" => amt'[d] \in Nat
          /\ pc'[d] = "refused" /\ Kind[d] = "think" /\ scope'[d] # "agent"
               => scope'[d] = "company"
  BY DEF SlotOK
<1>1. CASE d = c
  BY <1>1 DEF TypeInv, TypeOK, Move
<1>2. CASE d # c
  BY <1>2 DEF TypeInv, TypeOK, SlotOK, Move
<1> QED BY <1>1, <1>2

LEMMA TypeInit == Init => TypeInv
BY ConstantTypes DEF Init, TypeInv, TypeOK, SlotOK, Processes, Stages, Scopes

LEMMA TypeStep == TypeInv /\ [Next]_vars => TypeInv'
<1> SUFFICES ASSUME TypeInv, [Next]_vars PROVE TypeInv'
  OBVIOUS
<1>t. TypeOK
  BY DEF TypeInv
<1>s. SlotOK
  BY DEF TypeInv
\* Most actions are a Move of one slot and a change to the rows.
<1>m. ASSUME NEW c \in Calls, NEW stage \in Stages, NEW cents \in Nat,
             NEW why \in Scopes, NEW n \in Int, Move(c, stage, cents, why, n),
             why = "agent" => AgentOf[c] \in Agents,
             stage = "extending" => AgentOf[c] \in Agents /\ n \in Nat,
             stage = "parked" => n \in Nat,
             stage = "refused" /\ Kind[c] = "think" /\ why # "agent" => why = "company",
             limit' \in Nat, spent' \in Nat, reserved' \in Nat,
             cap' \in [Agents -> Nat], booked' \in [Agents -> Nat], up' = up
      PROVE  TypeInv'
  <2>1. TypeOK'
    BY <1>t, <1>m, MoveType DEF TypeOK
  <2>2. SlotOK'
    BY <1>m, MoveSlot
  <2> QED BY <2>1, <2>2 DEF TypeInv
<1>g. ASSUME NEW c \in Calls, NEW stage \in {"idle", "reserving", "held", "releasing"},
             Goto(c, stage),
             limit' \in Nat, spent' \in Nat, reserved' \in Nat,
             cap' \in [Agents -> Nat], booked' \in [Agents -> Nat], up' = up
      PROVE  TypeInv'
  <2>1. stage \in Stages /\ "none" \in Scopes /\ 0 \in Int /\ est[c] \in Nat
    BY <1>t DEF TypeOK, Stages, Scopes
  <2>2. Move(c, stage, est[c], "none", 0)
    BY <1>g DEF Goto
  <2> QED BY <1>g, <1>m, <2>1, <2>2
<1>l. ASSUME NEW c \in Calls, Leave(c),
             limit' \in Nat, spent' \in Nat, reserved' \in Nat,
             cap' \in [Agents -> Nat], booked' \in [Agents -> Nat], up' = up
      PROVE  TypeInv'
  <2>1. "idle" \in Stages /\ "none" \in Scopes /\ 0 \in Int /\ 0 \in Nat
    BY DEF Stages, Scopes
  <2>2. Move(c, "idle", 0, "none", 0)
    BY <1>l DEF Leave
  <2> QED BY <1>l, <1>m, <2>1, <2>2
<1>r. /\ limit \in Nat /\ spent \in Nat /\ reserved \in Nat
      /\ cap \in [Agents -> Nat] /\ booked \in [Agents -> Nat]
      /\ \A c \in Calls : est[c] \in Nat /\ amt[c] \in Int
  BY <1>t DEF TypeOK
<1>1. ASSUME NEW c \in Calls, Begin(c) PROVE TypeInv'
  <2>1. PICK cents \in Estimates : Move(c, "reserving", cents, "none", 0)
    BY <1>1 DEF Begin
  <2>2. cents \in Nat /\ "reserving" \in Stages /\ "none" \in Scopes
    BY ConstantTypes DEF Stages, Scopes
  <2>3. UNCHANGED <<row, books, up>>
    BY <1>1 DEF Begin
  <2> QED BY <1>m, <1>r, <2>1, <2>2, <2>3 DEF row, books
<1>2. ASSUME NEW c \in Calls, Reserve(c) PROVE TypeInv'
  <2>1. reserved' = reserved + est[c] /\ UNCHANGED <<limit, spent, books, up>>
    BY <1>2 DEF Reserve
  <2>2. reserved' \in Nat
    BY <1>r, <2>1
  <2>3. Goto(c, "held") \/ Leave(c)
    BY <1>2 DEF Reserve
  <2> QED BY <1>g, <1>l, <1>r, <2>1, <2>2, <2>3 DEF books
<1>3. ASSUME NEW c \in Calls, Refuse(c) PROVE TypeInv'
  <2>1. UNCHANGED <<row, books, up>>
    BY <1>3 DEF Refuse
  <2>2. CASE Leave(c)
    BY <1>l, <1>r, <2>1, <2>2 DEF row, books
  <2>3. CASE Move(c, "refused", est[c], "company", Available)
    <3>1. "refused" \in Stages /\ "company" \in Scopes /\ Available \in Int
      BY <1>r DEF Stages, Scopes, Available
    <3> QED BY <1>m, <1>r, <2>1, <2>3, <3>1 DEF row, books
  <2>4. CASE /\ FitsCompany(c)
             /\ Move(c, "refused", est[c], "agent", AgentAvailable(AgentOf[c]))
    <3>1. AgentOf[c] \in Agents
      BY <1>3, <2>4 DEF Refuse, FitsAgent
    <3>2. /\ "refused" \in Stages /\ "agent" \in Scopes
          /\ AgentAvailable(AgentOf[c]) \in Int
      BY <1>r, <3>1 DEF Stages, Scopes, AgentAvailable
    <3> QED BY <1>m, <1>r, <2>1, <2>4, <3>1, <3>2 DEF row, books
  <2> QED BY <1>3, <2>2, <2>3, <2>4 DEF Refuse
<1>4. ASSUME NEW c \in Calls, Settle(c) PROVE TypeInv'
  <2>1. PICK actual \in Estimates \cup {0} :
          /\ spent' = spent + actual
          /\ booked' = [a \in Agents |->
                          IF a = AgentOf[c] THEN booked[a] + actual ELSE booked[a]]
    BY <1>4 DEF Settle
  <2>2. actual \in Nat
    BY ConstantTypes
  <2>3. spent' \in Nat /\ booked' \in [Agents -> Nat]
    BY <1>r, <2>1, <2>2
  <2>4. reserved' \in Nat /\ UNCHANGED <<limit, cap, up>>
    BY <1>4, <1>r, Arithmetic DEF Settle
  <2>5. Leave(c) \/ Goto(c, "releasing")
    BY <1>4 DEF Settle
  <2> QED BY <1>g, <1>l, <1>r, <2>3, <2>4, <2>5
<1>5. ASSUME NEW c \in Calls, ActionFails(c) PROVE TypeInv'
  BY <1>5, <1>g, <1>r DEF ActionFails, row, books
<1>6. ASSUME NEW c \in Calls, Release(c) PROVE TypeInv'
  <2>1. reserved' \in Nat
    BY <1>6, <1>r, Arithmetic DEF Release
  <2> QED BY <1>6, <1>l, <1>r, <2>1 DEF Release, books
<1>7. ASSUME NEW c \in Calls, ExtendRead(c) PROVE TypeInv'
  <2> DEFINE a == AgentOf[c]
             shortfall == Larger(1, est[c] - Larger(0, amt[c]))
             bump == Smaller(Available, Larger(shortfall, MinBump))
  <2>1. a \in Agents /\ est[c] <= Available
    BY <1>7, <1>s DEF ExtendRead, SlotOK, FitsCompany
  <2>2. Move(c, "extending", est[c], "none", cap[a] + bump)
    BY <1>7 DEF ExtendRead
  <2>3. Available \in Int /\ Larger(0, amt[c]) \in Int
    BY <1>r DEF Available, Larger
  <2>4. shortfall \in Int /\ shortfall >= 1
    BY <1>r, <2>3 DEF Larger
  <2>5. bump \in Nat
    BY <1>r, <2>1, <2>3, <2>4, ConstantTypes DEF Smaller, Larger
  <2>6. cap[a] + bump \in Nat
    BY <1>r, <2>1, <2>5
  <2>7. "extending" \in Stages /\ "none" \in Scopes /\ UNCHANGED <<row, books, up>>
    BY <1>7 DEF ExtendRead, Stages, Scopes
  <2> HIDE DEF bump, shortfall
  <2> QED BY <1>m, <1>r, <2>1, <2>2, <2>6, <2>7 DEF row, books
<1>8. ASSUME NEW c \in Calls, ExtendWrite(c) PROVE TypeInv'
  <2>1. AgentOf[c] \in Agents /\ amt[c] \in Nat
    BY <1>8, <1>s DEF ExtendWrite, At, SlotOK
  <2>2. cap' \in [Agents -> Nat]
    BY <1>8, <1>r, <2>1 DEF ExtendWrite
  <2> QED BY <1>8, <1>g, <1>r, <2>2 DEF ExtendWrite, row
<1>9. ASSUME NEW c \in Calls, Park(c) PROVE TypeInv'
  <2>1. Shortfall(c) \in Nat
    BY <1>r DEF Shortfall, Larger
  <2>2. "parked" \in Stages /\ "none" \in Scopes
    BY DEF Stages, Scopes
  <2> QED BY <1>9, <1>m, <1>r, <2>1, <2>2 DEF Park, row, books
<1>10. ASSUME NEW c \in Calls, Approve(c) PROVE TypeInv'
  <2>1. limit' \in Nat
    BY <1>10, <1>r, <1>s DEF Approve, SlotOK
  <2> QED BY <1>10, <1>g, <1>r, <2>1 DEF Approve, books
<1>11. ASSUME NEW c \in Calls, Reject(c) PROVE TypeInv'
  BY <1>11, <1>l, <1>r DEF Reject, row, books
<1>12. ASSUME PatchBudget PROVE TypeInv'
  <2>1. limit' \in Nat
    BY <1>12, <1>r, ConstantTypes DEF PatchBudget
  <2> QED BY <1>12, <1>t, <1>s, <2>1 DEF PatchBudget, TypeInv, TypeOK, SlotOK, books, local
<1>13. ASSUME NEW p \in Processes, Crash(p) PROVE TypeInv'
  <2>1. TypeOK'
    BY <1>13, <1>t DEF Crash, TypeOK, row, books, Stages, Scopes
  <2>2. SlotOK'
    BY <1>13, <1>s, <1>t DEF Crash, SlotOK, TypeOK
  <2> QED BY <2>1, <2>2 DEF TypeInv
<1>14. ASSUME NEW p \in Processes, Start(p) PROVE TypeInv'
  <2>1. reserved' \in Nat
    BY <1>14, <1>r DEF Start
  <2> QED BY <1>14, <1>t, <1>s, <2>1 DEF Start, TypeInv, TypeOK, SlotOK, books, local
<1>15. ASSUME UNCHANGED vars PROVE TypeInv'
  BY <1>15, <1>t, <1>s DEF vars, TypeInv, TypeOK, SlotOK
<1> QED
  BY <1>1, <1>2, <1>3, <1>4, <1>5, <1>6, <1>7, <1>8, <1>9, <1>10, <1>11, <1>12,
     <1>13, <1>14, <1>15 DEF Next, CallStep

\* The rows and the calls' local data keep their types, whatever fails.
THEOREM TypeCorrect == Spec => []TypeOK
<1>1. TypeInv => TypeOK
  BY DEF TypeInv
<1> QED BY <1>1, TypeInit, TypeStep, PTL DEF Spec

-----------------------------------------------------------------------------
(* The reservations in the row cover the calls in flight.                    *)

\* The deployments for which the ledger's own invariants hold: one process
\* makes all the metered calls, and no caller loses the outcome of a COMMIT.
SingleProcess == \A c \in Calls : Kind[c] # "api"
NoLostAck == "lost_ack" \notin Faults

\* A worker that is down has no call in flight.
DownIsIdle == ~ up["worker"] => \A c \in Calls : ~ InFlight(c)

CoverInv == TypeInv /\ DownIsIdle /\ LedgerCoversInFlight

LEMMA HoldType == TypeOK => hold \in [1..NumCalls -> Nat] /\ Held \in Nat
<1> SUFFICES ASSUME TypeOK PROVE hold \in [1..NumCalls -> Nat] /\ Held \in Nat
  OBVIOUS
<1>1. hold \in [1..NumCalls -> Nat]
  BY DEF TypeOK, hold, Calls
<1> QED BY <1>1, CallsAssumption, SumNat DEF Held

LEMMA HoldTypeNext == TypeOK' => Held' \in Nat
<1> SUFFICES ASSUME TypeOK' PROVE Held' \in Nat
  OBVIOUS
<1>1. hold' \in [1..NumCalls -> Nat]
  BY DEF TypeOK, hold, Calls
<1>2. SumOf(hold', NumCalls) \in Nat
  <2> HIDE DEF hold
  <2> QED BY <1>1, CallsAssumption, SumNat
<1> QED BY <1>2 DEF Held

\* What a Move does to the sum of the holds.
LEMMA MoveHeld ==
  ASSUME TypeOK, TypeOK', NEW c \in Calls, NEW stage, NEW cents, NEW why, NEW n,
         Move(c, stage, cents, why, n)
  PROVE  /\ hold' = [hold EXCEPT ![c] = IF stage \in {"held", "releasing"} THEN cents ELSE 0]
         /\ Held' = Held - hold[c] + (IF stage \in {"held", "releasing"} THEN cents ELSE 0)
<1> DEFINE v == IF stage \in {"held", "releasing"} THEN cents ELSE 0
<1>1. hold' = [hold EXCEPT ![c] = v]
  BY DEF hold, InFlight, Move, TypeOK
<1>2. hold \in [1..NumCalls -> Nat] /\ hold' \in [1..NumCalls -> Nat]
  BY HoldType DEF TypeOK, hold, Calls
<1>3. v \in Nat
  BY <1>1, <1>2 DEF Calls
<1>4. SumOf([hold EXCEPT ![c] = v], NumCalls) = SumOf(hold, NumCalls) - hold[c] + v
  <2> HIDE DEF v
  <2> QED BY <1>2, <1>3, CallsAssumption, SumUpdate DEF Calls
<1> QED BY <1>1, <1>4 DEF Held

\* The hold of a slot is part of the sum.
LEMMA HoldWithinHeld ==
  ASSUME TypeOK, NEW c \in Calls
  PROVE  hold[c] \in Nat /\ hold[c] <= Held
BY HoldType, CallsAssumption, SumAtLeastEach DEF Held, Calls

\* A dying process only takes holds away.
LEMMA CrashHeld ==
  ASSUME TypeOK, TypeOK', NEW p \in Processes, Crash(p)
  PROVE  Held' <= Held
<1>1. \A c \in Calls : InFlight(c)' => InFlight(c) /\ est'[c] = est[c]
  BY DEF Crash, InFlight
<1>2. hold \in [1..NumCalls -> Nat] /\ hold' \in [1..NumCalls -> Nat]
  BY HoldType DEF TypeOK, hold, Calls
<1>3. ASSUME NEW c \in 1..NumCalls PROVE hold'[c] <= hold[c]
  <2>1. c \in Calls /\ est[c] \in Nat
    BY DEF Calls, TypeOK
  <2>2. CASE InFlight(c)'
    BY <1>1, <2>1, <2>2 DEF hold
  <2>3. CASE ~ InFlight(c)'
    BY <2>1, <2>3 DEF hold
  <2> QED BY <2>2, <2>3
<1>4. SumOf(hold', NumCalls) <= SumOf(hold, NumCalls)
  <2> HIDE DEF hold
  <2> QED BY <1>2, <1>3, CallsAssumption, SumMonotone
<1> QED BY <1>4 DEF Held

LEMMA CoverInit == Init => CoverInv
<1> SUFFICES ASSUME Init PROVE CoverInv
  OBVIOUS
<1>1. TypeInv
  BY TypeInit
<1>2. hold = [i \in 1..NumCalls |-> 0]
  BY DEF Init, hold, InFlight, Calls
<1>3. Held = 0
  BY <1>2, CallsAssumption, SumZero DEF Held
<1> QED BY <1>1, <1>3 DEF Init, CoverInv, DownIsIdle, LedgerCoversInFlight, InFlight, Processes

LEMMA CoverStep ==
  ASSUME SingleProcess, NoLostAck, CoverInv, [Next]_vars
  PROVE  CoverInv'
<1>t. TypeInv /\ TypeInv' /\ TypeOK /\ TypeOK'
  <2>1. TypeInv'
    BY TypeStep DEF CoverInv
  <2> QED BY <2>1 DEF CoverInv, TypeInv
<1>h. DownIsIdle /\ Held <= reserved
  BY DEF CoverInv, LedgerCoversInFlight
<1>n. Held \in Nat /\ Held' \in Nat /\ reserved \in Nat /\ reserved' \in Nat
  <2>1. Held' \in Nat
    BY <1>t, HoldTypeNext
  <2> QED BY <1>t, <2>1, HoldType DEF TypeOK
<1>c. \A c \in Calls : ProcOf(c) = "worker" /\ hold[c] \in Nat /\ hold[c] <= Held
                       /\ est[c] \in Nat
  BY <1>t, HoldWithinHeld DEF SingleProcess, ProcOf, TypeOK
\* A Move that leaves the row alone and ends in no hold.
<1>m. ASSUME NEW c \in Calls, NEW stage, NEW cents, NEW why, NEW n,
             Move(c, stage, cents, why, n), stage \notin {"held", "releasing"},
             UNCHANGED <<reserved, up>>
      PROVE  CoverInv'
  <2>1. Held' = Held - hold[c]
    BY <1>c, <1>m, <1>n, <1>t, MoveHeld
  <2>2. Held' <= reserved'
    BY <1>c, <1>h, <1>m, <1>n, <2>1
  <2>3. DownIsIdle'
    BY <1>h, <1>m, <1>t DEF DownIsIdle, InFlight, Move, TypeOK
  <2> QED BY <1>t, <2>2, <2>3 DEF CoverInv, LedgerCoversInFlight
\* A Move of a slot in flight that gives its reservation back.
<1>b. ASSUME NEW c \in Calls, InFlight(c), Leave(c),
             reserved' = Monus(reserved, est[c]), UNCHANGED up
      PROVE  CoverInv'
  <2>1. hold[c] = est[c]
    BY <1>b DEF hold
  <2>2. Held' = Held - hold[c]
    BY <1>b, <1>c, <1>n, <1>t, MoveHeld DEF Leave
  <2>3. Held' <= reserved'
    BY <1>b, <1>c, <1>h, <1>n, <2>1, <2>2 DEF Monus
  <2>4. DownIsIdle'
    BY <1>b, <1>h, <1>t DEF DownIsIdle, InFlight, Leave, Move, TypeOK
  <2> QED BY <1>t, <2>3, <2>4 DEF CoverInv, LedgerCoversInFlight
<1>1. ASSUME NEW c \in Calls, Begin(c) PROVE CoverInv'
  BY <1>1, <1>m DEF Begin, row
<1>2. ASSUME NEW c \in Calls, Reserve(c) PROVE CoverInv'
  <2>1. Move(c, "held", est[c], "none", 0) /\ reserved' = reserved + est[c]
    BY <1>2 DEF Reserve, NoLostAck, Goto
  <2>2. hold[c] = 0
    BY <1>2 DEF Reserve, At, hold, InFlight
  <2>3. Held' = Held + est[c]
    BY <1>c, <1>n, <1>t, <2>1, <2>2, MoveHeld
  <2>4. Held' <= reserved'
    BY <1>c, <1>h, <1>n, <2>1, <2>3
  <2>5. up["worker"] /\ up' = up
    BY <1>2, <1>c DEF Reserve, At
  <2> QED BY <1>t, <2>4, <2>5 DEF CoverInv, LedgerCoversInFlight, DownIsIdle
<1>3. ASSUME NEW c \in Calls, Refuse(c) PROVE CoverInv'
  BY <1>3, <1>m DEF Refuse, Leave, row
<1>4. ASSUME NEW c \in Calls, Settle(c) PROVE CoverInv'
  BY <1>4, <1>b DEF Settle, At, InFlight, NoLostAck
<1>5. ASSUME NEW c \in Calls, ActionFails(c) PROVE CoverInv'
  <2>1. Move(c, "releasing", est[c], "none", 0) /\ UNCHANGED <<reserved, up>>
    BY <1>5 DEF ActionFails, Goto, row
  <2>2. hold[c] = est[c]
    BY <1>5 DEF ActionFails, At, hold, InFlight
  <2>3. Held' = Held
    BY <1>c, <1>n, <1>t, <2>1, <2>2, MoveHeld
  <2>4. up["worker"] /\ up' = up
    BY <1>5, <1>c DEF ActionFails, At
  <2> QED BY <1>h, <1>t, <2>1, <2>3, <2>4 DEF CoverInv, LedgerCoversInFlight, DownIsIdle
<1>6. ASSUME NEW c \in Calls, Release(c) PROVE CoverInv'
  BY <1>6, <1>b DEF Release, At, InFlight
<1>7. ASSUME NEW c \in Calls, ExtendRead(c) PROVE CoverInv'
  BY <1>7, <1>m DEF ExtendRead, row
<1>8. ASSUME NEW c \in Calls, ExtendWrite(c) PROVE CoverInv'
  BY <1>8, <1>m DEF ExtendWrite, Goto, row
<1>9. ASSUME NEW c \in Calls, Park(c) PROVE CoverInv'
  BY <1>9, <1>m DEF Park, row
<1>10. ASSUME NEW c \in Calls, Approve(c) PROVE CoverInv'
  BY <1>10, <1>m DEF Approve, Goto
<1>11. ASSUME NEW c \in Calls, Reject(c) PROVE CoverInv'
  BY <1>11, <1>m DEF Reject, Leave, row
<1>12. ASSUME UNCHANGED <<reserved, up, local>> PROVE CoverInv'
  <2>1. hold' = hold /\ \A c \in Calls : InFlight(c)' = InFlight(c)
    BY <1>12 DEF hold, InFlight, local
  <2>2. Held' = Held
    BY <2>1 DEF Held
  <2> QED BY <1>12, <1>h, <1>t, <2>1, <2>2 DEF CoverInv, LedgerCoversInFlight, DownIsIdle
<1>13. ASSUME NEW p \in Processes, Crash(p) PROVE CoverInv'
  <2>1. \A c \in Calls : InFlight(c)' => InFlight(c) /\ est'[c] = est[c]
    BY <1>13 DEF Crash, InFlight
  <2>4. Held' <= Held
    BY <1>13, <1>t, CrashHeld
  <2>5. DownIsIdle'
    BY <1>13, <1>c, <1>h, <2>1 DEF Crash, DownIsIdle, InFlight, Processes, TypeOK
  <2>6. reserved' = reserved
    BY <1>13 DEF Crash, row
  <2> QED BY <1>h, <1>n, <1>t, <2>4, <2>5, <2>6 DEF CoverInv, LedgerCoversInFlight
<1>14. ASSUME NEW p \in Processes, Start(p) PROVE CoverInv'
  <2>1. hold' = hold /\ \A c \in Calls : InFlight(c)' = InFlight(c)
    BY <1>14 DEF Start, hold, InFlight, local
  <2>2. Held' = Held
    BY <2>1 DEF Held
  <2>3. CASE p = "worker"
    <3>1. ~ up["worker"]
      BY <1>14, <2>3 DEF Start
    <3>2. hold = [i \in 1..NumCalls |-> 0]
      BY <1>h, <3>1 DEF DownIsIdle, hold, Calls
    <3>3. Held = 0
      BY <3>2, CallsAssumption, SumZero DEF Held
    <3> QED BY <1>h, <1>n, <1>t, <2>1, <2>2, <3>1, <3>3
         DEF CoverInv, LedgerCoversInFlight, DownIsIdle
  <2>4. CASE p # "worker"
    <3>1. reserved' = reserved /\ up'["worker"] = up["worker"]
      BY <1>14, <1>t, <2>4 DEF Start, TypeOK, Processes
    <3> QED BY <1>h, <1>t, <2>1, <2>2, <3>1 DEF CoverInv, LedgerCoversInFlight, DownIsIdle
  <2> QED BY <2>3, <2>4
<1>15. ASSUME PatchBudget \/ UNCHANGED vars PROVE CoverInv'
  BY <1>12, <1>15 DEF PatchBudget, vars, local
<1> QED
  BY <1>1, <1>2, <1>3, <1>4, <1>5, <1>6, <1>7, <1>8, <1>9, <1>10, <1>11,
     <1>13, <1>14, <1>15 DEF Next, CallStep

\* With one process making the metered calls, the reservations in the budget
\* row always cover the calls in flight: through refusals, failures, overruns,
\* a lowered limit, and the worker's crash and startup reclaim.
THEOREM LedgerCovers ==
  ASSUME SingleProcess, NoLostAck
  PROVE  Spec => []LedgerCoversInFlight
<1>1. CoverInv /\ [Next]_vars => CoverInv'
  BY CoverStep
<1>2. CoverInv => LedgerCoversInFlight
  BY DEF CoverInv
<1> QED BY <1>1, <1>2, CoverInit, PTL DEF Spec

-----------------------------------------------------------------------------
(* The company can pay for every call in flight.                             *)

\* The environments in which it is so: no action costs more than it was
\* estimated at, and the founder does not lower the limit.
NoOverrun == "overrun" \notin Faults
NoLowering == "lower_limit" \notin Faults

SolventInv == CoverInv /\ Solvent

\* A step that places a hold has room for it; any other does not raise the
\* company's commitments, and none lowers the limit.
LEMMA CommitmentStep ==
  ASSUME SingleProcess, NoLostAck, NoOverrun, NoLowering, CoverInv, CoverInv', [Next]_vars
  PROVE  /\ limit' >= limit
         /\ \/ spent' + Held' <= spent + Held
            \/ \E c \in Calls : /\ est[c] \in Nat /\ FitsCompany(c)
                                /\ spent' = spent /\ Held' = Held + est[c]
<1> DEFINE Goal == /\ limit' >= limit
                   /\ \/ spent' + Held' <= spent + Held
                      \/ \E c \in Calls : /\ est[c] \in Nat /\ FitsCompany(c)
                                          /\ spent' = spent /\ Held' = Held + est[c]
<1>t. TypeOK /\ TypeOK'
  BY DEF CoverInv, TypeInv
<1>n. /\ limit \in Nat /\ spent \in Nat /\ Held \in Nat
      /\ \A c \in Calls : est[c] \in Nat /\ hold[c] \in Nat /\ hold[c] <= Held
  BY <1>t, HoldType, HoldWithinHeld DEF TypeOK
\* A Move that ends in no hold, or in the one the slot had.
<1>m. ASSUME NEW c \in Calls, NEW stage, NEW cents, NEW why, NEW n,
             Move(c, stage, cents, why, n),
             stage \in {"held", "releasing"} => InFlight(c) /\ cents = est[c],
             limit' \in Nat, limit' >= limit, spent' = spent
      PROVE  Goal
  <2>1. CASE stage \in {"held", "releasing"}
    <3>1. hold[c] = est[c]
      BY <1>m, <2>1 DEF hold
    <3> QED BY <1>m, <1>n, <1>t, <2>1, <3>1, MoveHeld
  <2>2. CASE stage \notin {"held", "releasing"}
    <3>1. Held' = Held - hold[c]
      BY <1>m, <1>n, <1>t, <2>2, MoveHeld
    <3> QED BY <1>m, <1>n, <3>1
  <2> QED BY <2>1, <2>2
<1>k. ASSUME UNCHANGED local, limit' \in Nat, limit' >= limit, spent' = spent PROVE Goal
  <2>1. hold' = hold
    BY <1>k DEF hold, InFlight, local
  <2> QED BY <1>k, <1>n, <2>1 DEF Held
<1>1. ASSUME NEW c \in Calls, Begin(c) PROVE Goal
  BY <1>1, <1>m, <1>n DEF Begin, row
<1>2. ASSUME NEW c \in Calls, Reserve(c) PROVE Goal
  <2>1. Move(c, "held", est[c], "none", 0) /\ FitsCompany(c) /\ limit' = limit /\ spent' = spent
    BY <1>2 DEF Reserve, NoLostAck, Goto
  <2>2. hold[c] = 0
    BY <1>2 DEF Reserve, At, hold, InFlight
  <2>3. Held' = Held + est[c]
    BY <1>n, <1>t, <2>1, <2>2, MoveHeld
  <2> QED BY <1>n, <2>1, <2>3
<1>3. ASSUME NEW c \in Calls, Refuse(c) PROVE Goal
  BY <1>3, <1>m, <1>n DEF Refuse, Leave, row
<1>4. ASSUME NEW c \in Calls, Settle(c) PROVE Goal
  <2>1. PICK actual \in Estimates \cup {0} :
          ("overrun" \in Faults \/ actual <= est[c]) /\ spent' = spent + actual
    BY <1>4 DEF Settle
  <2>2. actual \in Nat /\ actual <= est[c]
    BY <2>1, ConstantTypes DEF NoOverrun
  <2>3. Move(c, "idle", 0, "none", 0) /\ limit' = limit
    BY <1>4 DEF Settle, NoLostAck, Leave
  <2>4. hold[c] = est[c]
    BY <1>4 DEF Settle, At, hold, InFlight
  <2>5. Held' = Held - est[c]
    BY <1>n, <1>t, <2>3, <2>4, MoveHeld
  <2> QED BY <1>n, <2>1, <2>2, <2>3, <2>5
<1>5. ASSUME NEW c \in Calls, ActionFails(c) PROVE Goal
  BY <1>5, <1>m, <1>n DEF ActionFails, Goto, At, InFlight, row
<1>6. ASSUME NEW c \in Calls, Release(c) PROVE Goal
  BY <1>6, <1>m, <1>n DEF Release, Leave
<1>7. ASSUME NEW c \in Calls, ExtendRead(c) PROVE Goal
  BY <1>7, <1>m, <1>n DEF ExtendRead, row
<1>8. ASSUME NEW c \in Calls, ExtendWrite(c) PROVE Goal
  BY <1>8, <1>m, <1>n DEF ExtendWrite, Goto, row
<1>9. ASSUME NEW c \in Calls, Park(c) PROVE Goal
  BY <1>9, <1>m, <1>n DEF Park, row
<1>10. ASSUME NEW c \in Calls, Approve(c) PROVE Goal
  <2>1. amt[c] \in Nat
    BY <1>10 DEF Approve, CoverInv, TypeInv, SlotOK
  <2> QED BY <1>10, <1>m, <1>n, <2>1 DEF Approve, Goto
<1>11. ASSUME NEW c \in Calls, Reject(c) PROVE Goal
  BY <1>11, <1>m, <1>n DEF Reject, Leave, row
<1>12. ASSUME PatchBudget PROVE Goal
  BY <1>12, <1>k, <1>n, ConstantTypes DEF PatchBudget, NoLowering
<1>13. ASSUME NEW p \in Processes, Crash(p) PROVE Goal
  <2>1. Held' <= Held /\ limit' = limit /\ spent' = spent
    BY <1>13, <1>t, CrashHeld DEF Crash, row
  <2>2. Held' \in Nat
    BY <1>t, HoldTypeNext
  <2>3. limit' >= limit
    BY <1>n, <2>1
  <2>4. spent' + Held' <= spent + Held
    <3>1. \A x, y, z \in Nat : x <= y => z + x <= z + y
      OBVIOUS
    <3>2. spent + Held' <= spent + Held
      BY <1>n, <2>1, <2>2, <3>1
    <3> QED BY <2>1, <3>2
  <2> QED BY <2>3, <2>4
<1>14. ASSUME NEW p \in Processes, Start(p) PROVE Goal
  BY <1>14, <1>k, <1>n DEF Start
<1>15. ASSUME UNCHANGED vars PROVE Goal
  BY <1>15, <1>k, <1>n DEF vars, local
<1> QED
  BY <1>1, <1>2, <1>3, <1>4, <1>5, <1>6, <1>7, <1>8, <1>9, <1>10, <1>11, <1>12,
     <1>13, <1>14, <1>15 DEF Next, CallStep

LEMMA Transitive == \A a, b, c \in Int : a <= b /\ b <= c => a <= c
OBVIOUS

LEMMA SolventInit == Init => SolventInv
<1> SUFFICES ASSUME Init PROVE SolventInv
  OBVIOUS
<1>1. hold = [i \in 1..NumCalls |-> 0]
  BY DEF Init, hold, InFlight, Calls
<1>2. Held = 0
  BY <1>1, CallsAssumption, SumZero DEF Held
<1> QED BY <1>2, CoverInit, ConstantTypes DEF Init, SolventInv, Solvent

LEMMA SolventStep ==
  ASSUME SingleProcess, NoLostAck, NoOverrun, NoLowering, SolventInv, [Next]_vars
  PROVE  SolventInv'
<1>1. CoverInv /\ CoverInv' /\ Solvent
  BY CoverStep DEF SolventInv
<1>2. TypeOK /\ TypeOK'
  BY <1>1 DEF CoverInv, TypeInv
<1>n. /\ limit \in Nat /\ spent \in Nat /\ reserved \in Nat /\ Held \in Nat
      /\ limit' \in Nat /\ spent' \in Nat /\ Held' \in Nat
      /\ Held <= reserved
  BY <1>1, <1>2, HoldType, HoldTypeNext DEF TypeOK, CoverInv, LedgerCoversInFlight
<1>3. CASE spent' + Held' <= spent + Held
  <2>1. limit' >= limit
    BY <1>1, CommitmentStep
  <2>2. spent + Held <= limit
    BY <1>1 DEF Solvent
  <2>3. spent' + Held' <= limit'
    <3>1. spent' + Held' \in Int /\ spent + Held \in Int /\ limit \in Int /\ limit' \in Int
      BY <1>n
    <3>2. spent' + Held' <= limit
      BY <1>3, <2>2, <3>1, Transitive
    <3>3. limit <= limit'
      BY <2>1, <3>1
    <3> QED BY <3>1, <3>2, <3>3, Transitive
  <2> QED BY <1>1, <2>3 DEF Solvent, SolventInv
<1>4. CASE \E c \in Calls : /\ est[c] \in Nat /\ FitsCompany(c)
                            /\ spent' = spent /\ Held' = Held + est[c]
  <2>1. limit' >= limit
    BY <1>1, CommitmentStep
  <2> QED BY <1>1, <1>4, <1>n, <2>1 DEF Solvent, SolventInv, FitsCompany, Available
<1> QED BY <1>1, <1>3, <1>4, CommitmentStep

\* The hard ceiling: however reservations, settlements, refusals, approvals,
\* crashes and the startup reclaim interleave, the company can pay for every
\* call in flight at its full estimate.
THEOREM SolventAlways ==
  ASSUME SingleProcess, NoLostAck, NoOverrun, NoLowering
  PROVE  Spec => []Solvent
<1>1. SolventInv /\ [Next]_vars => SolventInv'
  BY SolventStep
<1>2. SolventInv => Solvent
  BY DEF SolventInv
<1> QED BY <1>1, <1>2, SolventInit, PTL DEF Spec

-----------------------------------------------------------------------------
(* Nothing is stranded in the row's reservations.                            *)

\* The deployments in which it is so: no process dies with a reservation, and
\* no caller loses the outcome of a COMMIT.
NoCrash == "crash" \notin Faults

AllUp == \A p \in Processes : up[p]

ExactInv == TypeInv /\ AllUp /\ ReservedIsInFlight

LEMMA ExactInit == Init => ExactInv
<1> SUFFICES ASSUME Init PROVE ExactInv
  OBVIOUS
<1>1. hold = [i \in 1..NumCalls |-> 0]
  BY DEF Init, hold, InFlight, Calls
<1>2. Held = 0
  BY <1>1, CallsAssumption, SumZero DEF Held
<1> QED BY <1>2, TypeInit DEF Init, ExactInv, AllUp, ReservedIsInFlight

\* What a Move adds to the holds, or takes from them, it adds to the row or
\* takes from it.
LEMMA ExactStep ==
  ASSUME NoCrash, NoLostAck, ExactInv, [Next]_vars
  PROVE  ExactInv'
<1>t. TypeInv /\ TypeInv' /\ TypeOK /\ TypeOK'
  <2>1. TypeInv'
    BY TypeStep DEF ExactInv
  <2> QED BY <2>1 DEF ExactInv, TypeInv
<1>h. AllUp /\ Held = reserved
  BY DEF ExactInv, ReservedIsInFlight
<1>n. Held \in Nat /\ \A c \in Calls : hold[c] \in Nat /\ hold[c] <= Held /\ est[c] \in Nat
  BY <1>t, HoldType, HoldWithinHeld DEF TypeOK
<1>m. ASSUME NEW c \in Calls, NEW stage, NEW cents, NEW why, NEW n,
             Move(c, stage, cents, why, n),
             reserved' = reserved - hold[c]
                           + (IF stage \in {"held", "releasing"} THEN cents ELSE 0),
             UNCHANGED up
      PROVE  ExactInv'
  <2>1. Held' = Held - hold[c] + (IF stage \in {"held", "releasing"} THEN cents ELSE 0)
    BY <1>m, <1>t, MoveHeld
  <2> QED BY <1>h, <1>m, <1>t, <2>1 DEF ExactInv, ReservedIsInFlight, AllUp
\* A slot with no hold ends with none ...
<1>f. ASSUME NEW c \in Calls, ~ InFlight(c),
             NEW stage \in Stages \ {"held", "releasing"}, NEW cents, NEW why, NEW n,
             Move(c, stage, cents, why, n), UNCHANGED <<reserved, up>>
      PROVE  ExactInv'
  <2>1. hold[c] = 0 /\ reserved - 0 + 0 = reserved
    BY <1>f, <1>h, <1>n DEF hold
  <2> QED BY <1>f, <1>m, <2>1
\* ... and one in flight gives back what it has, which the row holds.
<1>b. ASSUME NEW c \in Calls, InFlight(c), Leave(c),
             reserved' = Monus(reserved, est[c]), UNCHANGED up
      PROVE  ExactInv'
  <2>1. hold[c] = est[c]
    BY <1>b DEF hold
  <2>2. reserved' = reserved - hold[c] + 0
    BY <1>b, <1>h, <1>n, <2>1 DEF Monus
  <2> QED BY <1>b, <1>m, <2>2 DEF Leave
<1>u. ASSUME UNCHANGED <<reserved, up, local>> PROVE ExactInv'
  <2>1. hold' = hold
    BY <1>u DEF hold, InFlight, local
  <2>2. Held' = Held
    BY <2>1 DEF Held
  <2> QED BY <1>u, <1>h, <1>t, <2>2 DEF ExactInv, ReservedIsInFlight, AllUp
<1>1. ASSUME NEW c \in Calls, Begin(c) PROVE ExactInv'
  BY <1>1, <1>f DEF Begin, At, InFlight, row, Stages
<1>2. ASSUME NEW c \in Calls, Reserve(c) PROVE ExactInv'
  <2>1. Move(c, "held", est[c], "none", 0) /\ reserved' = reserved + est[c] /\ up' = up
    BY <1>2 DEF Reserve, NoLostAck, Goto
  <2>2. hold[c] = 0
    BY <1>2 DEF Reserve, At, hold, InFlight
  <2>3. reserved' = reserved - hold[c] + est[c]
    BY <1>h, <1>n, <2>1, <2>2
  <2> QED BY <1>m, <2>1, <2>3
<1>3. ASSUME NEW c \in Calls, Refuse(c) PROVE ExactInv'
  BY <1>3, <1>f DEF Refuse, At, InFlight, Leave, row, Stages
<1>4. ASSUME NEW c \in Calls, Settle(c) PROVE ExactInv'
  BY <1>4, <1>b DEF Settle, At, InFlight, NoLostAck
<1>5. ASSUME NEW c \in Calls, ActionFails(c) PROVE ExactInv'
  <2>1. Move(c, "releasing", est[c], "none", 0) /\ UNCHANGED <<reserved, up>>
    BY <1>5 DEF ActionFails, Goto, row
  <2>2. hold[c] = est[c]
    BY <1>5 DEF ActionFails, At, hold, InFlight
  <2>3. reserved' = reserved - hold[c] + est[c]
    BY <1>h, <1>n, <2>1, <2>2
  <2> QED BY <1>m, <2>1, <2>3
<1>6. ASSUME NEW c \in Calls, Release(c) PROVE ExactInv'
  BY <1>6, <1>b DEF Release, At, InFlight
<1>7. ASSUME NEW c \in Calls, ExtendRead(c) PROVE ExactInv'
  BY <1>7, <1>f DEF ExtendRead, At, InFlight, row, Stages
<1>8. ASSUME NEW c \in Calls, ExtendWrite(c) PROVE ExactInv'
  BY <1>8, <1>f DEF ExtendWrite, Goto, At, InFlight, row, Stages
<1>9. ASSUME NEW c \in Calls, Park(c) PROVE ExactInv'
  BY <1>9, <1>f DEF Park, At, InFlight, row, Stages
<1>10. ASSUME NEW c \in Calls, Approve(c) PROVE ExactInv'
  BY <1>10, <1>f DEF Approve, Goto, InFlight, Stages
<1>11. ASSUME NEW c \in Calls, Reject(c) PROVE ExactInv'
  BY <1>11, <1>f DEF Reject, Leave, InFlight, row, Stages
<1>12. ASSUME PatchBudget \/ UNCHANGED vars PROVE ExactInv'
  BY <1>u, <1>12 DEF PatchBudget, vars, local
<1>13. ASSUME NEW p \in Processes, Crash(p) \/ Start(p) PROVE ExactInv'
  BY <1>h, <1>13 DEF Crash, Start, NoCrash, AllUp
<1> QED
  BY <1>1, <1>2, <1>3, <1>4, <1>5, <1>6, <1>7, <1>8, <1>9, <1>10, <1>11,
     <1>12, <1>13 DEF Next, CallStep

\* While no process dies with it, what is reserved is what calls in flight will
\* take back, in the API and in the worker alike: refusals, failures, overruns and
\* a lowered limit strand nothing, and the clamp at zero never takes effect.
THEOREM NothingIsStranded ==
  ASSUME NoCrash, NoLostAck
  PROVE  Spec => []ReservedIsInFlight
<1>1. ExactInv /\ [Next]_vars => ExactInv'
  BY ExactStep
<1>2. ExactInv => ReservedIsInFlight
  BY DEF ExactInv
<1> QED BY <1>1, <1>2, ExactInit, PTL DEF Spec

-----------------------------------------------------------------------------
(* The meter implements the escrow.                                          *)

\* A call that is being made has been estimated at one of the estimates.
Estimated == \A c \in Calls : pc[c] # "idle" => est[c] \in Estimates

EscrowInv == CoverInv /\ Estimated

LEMMA EscrowInit == Init => EscrowInv
BY CoverInit DEF EscrowInv, Estimated, Init

LEMMA EstimatedStep ==
  ASSUME TypeOK, Estimated, [Next]_vars
  PROVE  Estimated'
<1> USE DEF TypeOK, Estimated
<1>m. ASSUME NEW c \in Calls, NEW stage, NEW cents, NEW why, NEW n,
             Move(c, stage, cents, why, n),
             stage # "idle" => cents \in Estimates
      PROVE  Estimated'
  BY <1>m DEF Move
\* A call that goes on keeps its estimate.
<1>k. ASSUME NEW c \in Calls, pc[c] # "idle", NEW stage, NEW why, NEW n,
             Move(c, stage, est[c], why, n)
      PROVE  Estimated'
  BY <1>k, <1>m
<1>l. ASSUME NEW c \in Calls, Leave(c) PROVE Estimated'
  BY <1>l, <1>m DEF Leave
<1>1. ASSUME NEW c \in Calls, Begin(c) PROVE Estimated'
  BY <1>1, <1>m DEF Begin
<1>2. ASSUME NEW c \in Calls, Reserve(c) \/ Settle(c) \/ ActionFails(c) \/ ExtendWrite(c)
      PROVE  Estimated'
  BY <1>2, <1>k, <1>l DEF Reserve, Settle, ActionFails, ExtendWrite, Goto, At
<1>3. ASSUME NEW c \in Calls, Refuse(c) \/ ExtendRead(c) \/ Park(c) PROVE Estimated'
  BY <1>3, <1>k, <1>l DEF Refuse, ExtendRead, Park, At
<1>4. ASSUME NEW c \in Calls, Release(c) \/ Reject(c) PROVE Estimated'
  BY <1>4, <1>l DEF Release, Reject
<1>5. ASSUME NEW c \in Calls, Approve(c) PROVE Estimated'
  BY <1>5, <1>k DEF Approve, Goto
<1>6. ASSUME NEW p \in Processes, Crash(p) PROVE Estimated'
  BY <1>6 DEF Crash
<1>7. ASSUME NEW p \in Processes, Start(p) PROVE Estimated'
  BY <1>7 DEF Start, local
<1>8. ASSUME PatchBudget \/ UNCHANGED vars PROVE Estimated'
  BY <1>8 DEF PatchBudget, vars, local
<1> QED
  BY <1>1, <1>2, <1>3, <1>4, <1>5, <1>6, <1>7, <1>8 DEF Next, CallStep

\* Both modules add up the same holds.
LEMMA SameHeld == E!Held = Held
BY DEF E!Held, Held, SumOf, PartialSums, E!SumOf, E!PartialSums

\* Reserving places a hold, settling spends from one, a release and a crash drop
\* theirs, an approval or a patch raises the limit: every other step stutters.
LEMMA EscrowStep ==
  ASSUME SingleProcess, NoLostAck, NoOverrun, NoLowering, EscrowInv, [Next]_vars
  PROVE  [E!Next]_(E!escrowVars)
<1> DEFINE Goal == [E!Next]_(E!escrowVars)
<1>t. TypeOK /\ TypeOK' /\ SlotOK /\ CoverInv
  <2>1. CoverInv'
    BY CoverStep DEF EscrowInv
  <2> QED BY <2>1 DEF EscrowInv, CoverInv, TypeInv
<1>n. /\ limit \in Nat /\ spent \in Nat /\ reserved \in Nat /\ Held \in Nat
      /\ Held <= reserved /\ \A c \in Calls : est[c] \in Nat
      /\ hold \in [Calls -> Nat]
  BY <1>t, HoldType DEF TypeOK, CoverInv, LedgerCoversInFlight, Calls
<1>c. Calls = E!Calls
  BY DEF Calls, E!Calls
\* What leaves the holds, the spending and the limit alone is no step of the escrow.
<1>s. ASSUME limit' = limit, spent' = spent, hold' = hold PROVE Goal
  BY <1>s DEF E!escrowVars
\* A Move of a slot without a hold to a stage without one.
<1>m. ASSUME NEW c \in Calls, ~ InFlight(c),
             NEW stage \in Stages \ {"held", "releasing"}, NEW cents, NEW why, NEW n,
             Move(c, stage, cents, why, n)
      PROVE  hold' = hold
  <2>1. hold[c] = 0 /\ hold' = [hold EXCEPT ![c] = 0]
    BY <1>m, <1>t, MoveHeld DEF hold
  <2> QED BY <1>n, <2>1
\* A slot in flight that leaves takes its own hold with it.
<1>d. ASSUME NEW c \in Calls, Leave(c) PROVE hold' = [hold EXCEPT ![c] = 0]
  BY <1>d, <1>t, MoveHeld DEF Leave
<1>1. ASSUME NEW c \in Calls, Begin(c) PROVE Goal
  BY <1>1, <1>m, <1>s DEF Begin, At, InFlight, row, Stages
<1>2. ASSUME NEW c \in Calls, Reserve(c) PROVE Goal
  <2>1. /\ Move(c, "held", est[c], "none", 0)
        /\ FitsCompany(c) /\ limit' = limit /\ spent' = spent
    BY <1>2 DEF Reserve, NoLostAck, Goto
  <2>2. est[c] \in Estimates /\ hold[c] = 0
    BY <1>2 DEF Reserve, At, hold, InFlight, EscrowInv, Estimated
  <2>3. hold' = [hold EXCEPT ![c] = est[c]]
    BY <1>n, <1>t, <2>1, MoveHeld
  <2>4. spent + Held + est[c] <= limit
    BY <1>n, <2>1 DEF FitsCompany, Available
  <2>5. E!Place(c, est[c])
    BY <2>1, <2>2, <2>3, <2>4, SameHeld DEF E!Place
  <2> QED BY <1>c, <2>2, <2>5 DEF E!Next
<1>3. ASSUME NEW c \in Calls, Refuse(c) PROVE Goal
  BY <1>3, <1>m, <1>s DEF Refuse, Leave, At, InFlight, row, Stages
<1>4. ASSUME NEW c \in Calls, Settle(c) PROVE Goal
  <2>1. PICK actual \in Estimates \cup {0} :
          ("overrun" \in Faults \/ actual <= est[c]) /\ spent' = spent + actual
    BY <1>4 DEF Settle
  <2>2. actual <= hold[c] /\ limit' = limit /\ Leave(c)
    BY <1>4, <2>1 DEF Settle, At, NoOverrun, NoLostAck, hold, InFlight
  <2>3. E!Settle(c, actual)
    BY <1>d, <2>1, <2>2 DEF E!Settle
  <2> QED BY <1>c, <2>3 DEF E!Next
<1>5. ASSUME NEW c \in Calls, ActionFails(c) PROVE Goal
  <2>1. Move(c, "releasing", est[c], "none", 0) /\ limit' = limit /\ spent' = spent
    BY <1>5 DEF ActionFails, Goto, row
  <2>2. hold[c] = est[c] /\ hold' = [hold EXCEPT ![c] = est[c]]
    BY <1>5, <1>n, <1>t, <2>1, MoveHeld DEF ActionFails, At, hold, InFlight
  <2> QED BY <1>n, <1>s, <2>1, <2>2
<1>6. ASSUME NEW c \in Calls, Release(c) PROVE Goal
  <2>1. hold' = [hold EXCEPT ![c] = 0] /\ limit' = limit /\ spent' = spent
    BY <1>6, <1>d DEF Release
  <2>2. hold' = [d \in Calls |-> IF d \in {c} THEN 0 ELSE hold[d]]
    BY <1>n, <2>1
  <2>3. E!Drop({c})
    BY <1>c, <2>1, <2>2 DEF E!Drop
  <2> QED BY <1>c, <2>3 DEF E!Next
<1>7. ASSUME NEW c \in Calls, ExtendRead(c) PROVE Goal
  BY <1>7, <1>m, <1>s DEF ExtendRead, At, InFlight, row, Stages
<1>8. ASSUME NEW c \in Calls, ExtendWrite(c) PROVE Goal
  BY <1>8, <1>m, <1>s DEF ExtendWrite, Goto, At, InFlight, row, Stages
<1>9. ASSUME NEW c \in Calls, Park(c) PROVE Goal
  BY <1>9, <1>m, <1>s DEF Park, At, InFlight, row, Stages
\* Lifting the limit, by nothing or by something.
<1>r. ASSUME NEW n \in Nat, limit' = limit + n, limit' <= MaxLimit, spent' = spent, hold' = hold
      PROVE  Goal
  <2>1. CASE n = 0
    BY <1>n, <1>r, <1>s, <2>1
  <2>2. CASE n # 0
    <3>1. limit' \in limit+1..MaxLimit
      BY <1>n, <1>r, <2>2, AmountsAssumption
    <3> QED BY <1>r, <3>1 DEF E!Raise, E!Next
  <2> QED BY <2>1, <2>2
<1>10. ASSUME NEW c \in Calls, Approve(c) PROVE Goal
  <2>1. amt[c] \in Nat /\ limit' = limit + amt[c] /\ limit' <= MaxLimit /\ spent' = spent
    BY <1>10, <1>t DEF Approve, SlotOK
  <2>2. hold' = hold
    BY <1>10, <1>m DEF Approve, Goto, InFlight, Stages
  <2> QED BY <1>r, <2>1, <2>2
<1>11. ASSUME NEW c \in Calls, Reject(c) PROVE Goal
  BY <1>11, <1>m, <1>s DEF Reject, Leave, InFlight, row, Stages
<1>12. ASSUME PatchBudget PROVE Goal
  <2>1. hold' = hold /\ spent' = spent
    BY <1>12 DEF PatchBudget, hold, InFlight, local
  <2>2. PICK cents \in Estimates : limit + cents <= MaxLimit /\ limit' = limit + cents
    BY <1>12 DEF PatchBudget, NoLowering
  <2> QED BY <1>r, <2>1, <2>2, ConstantTypes
<1>13. ASSUME NEW p \in Processes, Crash(p) PROVE Goal
  <2> DEFINE gone == {c \in Calls : ProcOf(c) = p /\ pc[c] # "parked"}
  <2>1. hold' = [c \in Calls |-> IF c \in gone THEN 0 ELSE hold[c]]
    BY <1>13 DEF Crash, hold, InFlight
  <2>2. limit' = limit /\ spent' = spent
    BY <1>13 DEF Crash, row
  <2>3. gone \in SUBSET E!Calls /\ E!Drop(gone)
    BY <1>c, <2>1, <2>2 DEF E!Drop
  <2> QED BY <2>3 DEF E!Next
<1>14. ASSUME NEW p \in Processes, Start(p) PROVE Goal
  BY <1>14, <1>s DEF Start, hold, InFlight, local
<1>15. ASSUME UNCHANGED vars PROVE Goal
  BY <1>15, <1>s DEF vars, hold, InFlight
<1> QED
  BY <1>1, <1>2, <1>3, <1>4, <1>5, <1>6, <1>7, <1>8, <1>9, <1>10, <1>11, <1>12,
     <1>13, <1>14, <1>15 DEF Next, CallStep

\* The meter is the escrow that the budget promises: seen from outside, its
\* transactions, refusals, crashes and reclaims do nothing but put money on hold that
\* the limit has room for, spend from a hold, drop holds and raise the limit.
THEOREM MeterIsEscrow ==
  ASSUME SingleProcess, NoLostAck, NoOverrun, NoLowering
  PROVE  Spec => RefinesEscrow
<1>1. Init => E!Init
  <2> SUFFICES ASSUME Init PROVE E!Init
    OBVIOUS
  <2>1. hold = [c \in Calls |-> 0]
    BY DEF Init, hold, InFlight
  <2> QED BY <2>1, AmountsAssumption DEF Init, E!Init, Calls, E!Calls
<1>2. EscrowInv /\ [Next]_vars => EscrowInv'
  BY CoverStep, EstimatedStep DEF EscrowInv, CoverInv, TypeInv
<1>3. EscrowInv /\ [Next]_vars => [E!Next]_(E!escrowVars)
  BY EscrowStep
<1> QED BY <1>1, <1>2, <1>3, EscrowInit, PTL DEF Spec, RefinesEscrow, E!Spec
=============================================================================
