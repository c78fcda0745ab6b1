------------------------- MODULE ApprovalGateProofs -------------------------
(***************************************************************************)
(* Theorems about ApprovalGate for every set of calls, script and policy.     *)
(***************************************************************************)
EXTENDS ApprovalGate, FiniteSetTheorems, SequenceTheorems, TLAPS

Acting == phase \in {"acting", "open", "effected"}
InCall == phase \in {"open", "effected"}

\* The task waits for one decision at a time, and a gated call runs on a grant of its tool.
PendingInv ==
  /\ Acting => saved < Len(Script)
  /\ \A d \in Decisions : verdict[d] = "pending" => phase = "parked"
  /\ \A d \in consumed : verdict[d] \in {"approved", "rejected"}
  /\ \A d, e \in Decisions : verdict[d] = "pending" /\ verdict[e] = "pending" => d = e
  /\ InCall /\ Call \in Gated => grant \in Grants(Call)

GateInv == TypeOK /\ PendingInv

LEMMA Constants ==
  /\ Gated \subseteq Calls /\ Denied \subseteq Calls \ Gated /\ External \subseteq Calls
  /\ Len(Script) \in Nat /\ DOMAIN Script = 1 .. Len(Script)
  /\ \A n \in 1 .. Len(Script) : Script[n] \in Seq(Calls)
  /\ MaxDecisions \in Nat /\ MaxSent \in Nat /\ MaxInterrupts \in Nat
  /\ Decisions \subseteq Nat \ {0} /\ IsFiniteSet(Decisions)
<1>1. MaxDecisions \in Nat /\ MaxSent \in Nat /\ MaxInterrupts \in Nat
  BY BoundsAssumption
<1>2. IsFiniteSet(Decisions)
  BY <1>1, FS_Interval DEF Decisions
<1> QED BY <1>1, <1>2, CallsAssumption, ScriptAssumption DEF Decisions

\* What is left of a step.
LEMMA StepType ==
  ASSUME TypeOK, step # <<>>
  PROVE  Call \in Calls /\ Tail(step) \in Seq(Calls)
BY DEF TypeOK, Call

LEMMA GateInit == Init => GateInv
<1> SUFFICES ASSUME Init PROVE GateInv
  OBVIOUS
<1>1. (CHOOSE c \in Calls : TRUE) \in Calls
  BY CallsAssumption
<1>2. TypeOK
  BY <1>1, Constants, EmptySeq DEF Init, TypeOK, Phases
<1>3. PendingInv
  BY DEF Init, PendingInv, Acting, InCall
<1> QED BY <1>2, <1>3 DEF GateInv

\* Indexing an outcome leaves the index a function of decisions and calls.
LEMMA FinalizeType ==
  ASSUME TypeOK, NEW outcome \in {"sent", "failed"}, Finalize(outcome), step # <<>>
  PROVE  /\ row' \in [Decisions -> {"none", "pending_approval", "rejected", "sent", "failed"}]
         /\ logged' \in [Calls -> Nat]
<1> DEFINE o == Oldest(ParkedRows(Call))
<1>1. Call \in Calls /\ logged[Call] \in Nat
  BY StepType DEF TypeOK
<1>2. \/ UNCHANGED index
      \/ row' = [row EXCEPT ![o] = outcome] /\ UNCHANGED logged
      \/ /\ logged' = [logged EXCEPT ![Call] = IF outcome = "sent" THEN @ + 1 ELSE @]
         /\ UNCHANGED row
  BY DEF Finalize
<1> HIDE DEF o
<1>3. CASE UNCHANGED index
  BY <1>3 DEF TypeOK, index
<1>4. CASE row' = [row EXCEPT ![o] = outcome] /\ UNCHANGED logged
  BY <1>4 DEF TypeOK
<1>5. CASE /\ logged' = [logged EXCEPT ![Call] = IF outcome = "sent" THEN @ + 1 ELSE @]
           /\ UNCHANGED row
  <2> DEFINE n == IF outcome = "sent" THEN logged[Call] + 1 ELSE logged[Call]
  <2>1. n \in Nat
    BY <1>1
  <2>2. logged' = [logged EXCEPT ![Call] = n]
    BY <1>5, Zenon
  <2> HIDE DEF n
  <2>3. row' = row
    BY <1>5, Zenon
  <2> QED BY <2>1, <2>2, <2>3 DEF TypeOK
<1> QED BY <1>2, <1>3, <1>4, <1>5

\* A step that does not touch the decisions.
LEMMA PendingKept ==
  ASSUME PendingInv, UNCHANGED <<verdict, about, consumed>>,
         phase # "parked",
         Acting' => Acting /\ saved' = saved,
         InCall' /\ Call' \in Gated => grant' \in Grants(Call')
  PROVE  PendingInv'
<1>1. \A d \in Decisions : verdict[d] # "pending"
  BY DEF PendingInv
<1>2. Grants(Call)' = Grants(Call')
  BY DEF Grants, Raised
<1> QED BY <1>1, <1>2 DEF PendingInv

\* Going on to the rest of the step once a call is handled.
LEMMA HandledType ==
  ASSUME GateInv, phase \in {"acting", "open", "effected"}, step # <<>>,
         Goto("acting", Tail(step)), grant' = 0,
         consumed' \subseteq Decisions, consumed \subseteq consumed',
         \A d \in consumed' \ consumed : verdict[d] \in {"approved", "rejected"},
         row' \in [Decisions -> {"none", "pending_approval", "rejected", "sent", "failed"}],
         logged' \in [Calls -> Nat],
         UNCHANGED <<saved, verdict, about, why, recent, newer, interrupts, history, happens>>
  PROVE  GateInv'
<1> USE DEF GateInv
<1>1. Call \in Calls /\ Tail(step) \in Seq(Calls)
  BY StepType
<1>2. phase' = "acting" /\ step' = Tail(step)
  BY DEF Goto
<1>3. TypeOK'
  BY <1>1, <1>2 DEF TypeOK, history, Phases
<1>4. PendingInv'
  BY <1>2 DEF PendingInv, Acting, InCall
<1> QED BY <1>3, <1>4

\* A decision raised parks the task on it, and on nothing else.
LEMMA RaiseType ==
  ASSUME GateInv, phase \in {"acting", "open"}, step # <<>>, NEW reason \in {"gate", "budget"},
         Raise(reason), grant' = 0,
         UNCHANGED <<saved, consumed, newer, logged, interrupts, history, happens>>
  PROVE  GateInv'
<1> USE DEF GateInv
<1>1. Call \in Calls
  BY StepType
<1>2. PICK d \in Decisions :
        /\ verdict[d] = "none"
        /\ verdict' = [verdict EXCEPT ![d] = "pending"]
        /\ about' = [about EXCEPT ![d] = Call]
        /\ why' = [why EXCEPT ![d] = reason]
        /\ recent' = recent \cup {d}
        /\ row' = [row EXCEPT ![d] = IF reason = "gate" /\ Call \in External
                                     THEN "pending_approval" ELSE @]
        /\ phase' = "parked" /\ step' = <<>>
  BY DEF Raise, Goto
<1>3. TypeOK'
  <2>1. row' \in [Decisions -> {"none", "pending_approval", "rejected", "sent", "failed"}]
    BY <1>2 DEF TypeOK
  <2>2. step' \in Seq(Calls)
    BY <1>2, EmptySeq
  <2> QED BY <1>1, <1>2, <2>1, <2>2 DEF TypeOK, history, Phases
<1>4. PendingInv'
  <2>1. \A e \in Decisions : verdict[e] # "pending"
    BY DEF PendingInv
  <2>2. \A e \in Decisions : verdict'[e] = "pending" => e = d
    BY <1>2, <2>1 DEF TypeOK
  <2>3. \A e \in consumed : verdict'[e] = verdict[e]
    BY <1>2 DEF PendingInv, TypeOK
  <2> QED BY <1>2, <2>2, <2>3 DEF PendingInv, Acting, InCall
<1> QED BY <1>3, <1>4

\* The founder's answer brings the task back.
LEMMA ResolveType ==
  ASSUME GateInv, NEW d \in Decisions, NEW v \in {"approved", "rejected"}, Resolve(d, v)
  PROVE  /\ GateInv'
         /\ verdict[d] = "pending" /\ phase = "parked"
         /\ phase' = "thinking" /\ step' = <<>>
<1> USE DEF GateInv
<1>1. /\ verdict[d] = "pending"
      /\ verdict' = [verdict EXCEPT ![d] = v]
      /\ row' = [row EXCEPT ![d] = IF v = "rejected" /\ @ = "pending_approval"
                                   THEN "rejected" ELSE @]
      /\ approved' = [approved EXCEPT ![about[d]] = IF v = "approved" THEN @ + 1 ELSE @]
      /\ declined' = IF v = "rejected" THEN declined \cup {about[d]}
                     ELSE declined \ {about[d]}
      /\ UNCHANGED <<saved, grant, about, why, consumed, recent, newer, logged, interrupts, sent,
                     happens>>
  BY DEF Resolve
<1>2. phase = "parked" /\ phase' = "thinking" /\ step' = <<>>
  BY <1>1 DEF PendingInv, Resolve, Goto
<1>3. about[d] \in Calls /\ approved[about[d]] \in Nat
  BY DEF TypeOK
<1>4. approved' \in [Calls -> Nat]
  <2> DEFINE n == IF v = "approved" THEN approved[about[d]] + 1 ELSE approved[about[d]]
  <2>1. n \in Nat
    BY <1>3
  <2>2. approved' = [approved EXCEPT ![about[d]] = n]
    BY <1>1, Zenon
  <2> HIDE DEF n
  <2> QED BY <1>3, <2>1, <2>2 DEF TypeOK
<1>5. row' \in [Decisions -> {"none", "pending_approval", "rejected", "sent", "failed"}]
  BY <1>1 DEF TypeOK
<1>6. verdict' \in [Decisions -> {"none", "pending", "approved", "rejected"}]
  BY <1>1 DEF TypeOK
<1>7. declined' \subseteq Calls
  BY <1>1, <1>3 DEF TypeOK
<1>8. TypeOK'
  BY <1>1, <1>2, <1>4, <1>5, <1>6, <1>7, EmptySeq DEF TypeOK, Phases
<1>9. PendingInv'
  <2>1. \A e \in Decisions : verdict'[e] # "pending"
    BY <1>1 DEF TypeOK, PendingInv
  <2>2. \A e \in consumed : verdict'[e] \in {"approved", "rejected"}
    BY <1>1 DEF TypeOK, PendingInv
  <2> QED BY <1>1, <1>2, <2>1, <2>2 DEF PendingInv, Acting, InCall
<1> QED BY <1>1, <1>2, <1>8, <1>9

\* A call that passes holds its grant until its transaction ends.
LEMMA PassType ==
  ASSUME GateInv, Pass
  PROVE  GateInv'
<1> USE DEF GateInv
<1>1. /\ phase = "acting" /\ step # <<>> /\ phase' = "open" /\ step' = step
      /\ IF Call \in Gated THEN grant' \in Grants(Call) ELSE grant' = 0
      /\ UNCHANGED <<saved, decisions, index, interrupts, history, happens>>
  BY DEF Pass, Goto
<1>2. grant' \in Decisions \cup {0} /\ (grant' # 0 <=> Call \in Gated)
  <2>1. Grants(Call) \subseteq Decisions /\ 0 \notin Decisions
    BY DEF Grants, Raised, Decisions
  <2> QED BY <1>1, <2>1
<1>3. TypeOK'
  BY <1>1, <1>2 DEF TypeOK, decisions, index, history, Phases, Call
<1>4. PendingInv'
  BY <1>1 DEF PendingInv, decisions, Acting, InCall, Call, Grants, Raised
<1> QED BY <1>3, <1>4

\* What a transaction that ends may have consumed.
LEMMA GrantType ==
  ASSUME GateInv, InCall
  PROVE  /\ consumed \cup ({grant} \ {0}) \subseteq Decisions
         /\ \A d \in (consumed \cup ({grant} \ {0})) \ consumed : verdict[d] \in {"approved", "rejected"}
         /\ step # <<>>
BY DEF GateInv, TypeOK, PendingInv, InCall, Grants, Raised

LEMMA GateStep == GateInv /\ [Next]_vars => GateInv'
<1> SUFFICES ASSUME GateInv, [Next]_vars PROVE GateInv'
  OBVIOUS
<1>0. TypeOK /\ PendingInv
  BY DEF GateInv
<1>1. CASE Think
  <2>1. /\ phase = "thinking" /\ saved < Len(Script) /\ phase' = "acting"
        /\ UNCHANGED <<saved, grant, decisions, index, interrupts, history, happens>>
    BY <1>1 DEF Think, Goto
  <2>2. saved \in Nat /\ saved + 1 \in 1 .. Len(Script) /\ Script[saved + 1] \in Seq(Calls)
    BY <1>0, <2>1, Constants DEF TypeOK
  <2>3. step' \in Seq(Calls)
    <3>1. CASE step' = Script[saved + 1]
      BY <2>2, <3>1
    <3>2. ASSUME NEW c \in Calls, step' = <<c>> \/ step' = Append(Script[saved + 1], c)
          PROVE  step' \in Seq(Calls)
      <4> DEFINE answer == Script[saved + 1]
      <4>1. answer \in Seq(Calls)
        BY <2>2
      <4> HIDE DEF answer
      <4>2. Append(answer, c) \in Seq(Calls) /\ <<c>> \in Seq(Calls)
        BY <4>1, AppendProperties
      <4> QED BY <3>2, <4>2 DEF answer
    <3> QED BY <1>1, <3>1, <3>2 DEF Think, Goto
  <2>4. TypeOK'
    BY <1>0, <2>1, <2>3 DEF TypeOK, decisions, index, history, Phases
  <2>5. PendingInv'
    BY <1>0, <2>1 DEF PendingInv, decisions, Acting, InCall
  <2> QED BY <2>4, <2>5 DEF GateInv
<1>2. CASE Checkpoint
  <2>1. /\ phase = "acting" /\ phase' = "thinking" /\ step' = <<>> /\ saved' = saved + 1
        /\ UNCHANGED <<grant, decisions, index, interrupts, history, happens>>
    BY <1>2 DEF Checkpoint, Goto
  <2>2. saved' \in 0 .. Len(Script)
    BY <1>0, <2>1, Constants DEF TypeOK, PendingInv, Acting
  <2>3. TypeOK'
    BY <1>0, <2>1, <2>2, EmptySeq DEF TypeOK, decisions, index, history, Phases
  <2>4. PendingInv'
    BY <1>0, <2>1 DEF PendingInv, decisions, Acting, InCall
  <2> QED BY <2>3, <2>4 DEF GateInv
<1>3. CASE Deny
  BY <1>0, <1>3, HandledType DEF Deny, decisions, index, TypeOK
<1>4. CASE Decline
  <2>1. \A d \in Rejections(Call) : d \in Decisions /\ verdict[d] = "rejected"
    BY DEF Rejections, Raised
  <2>2. /\ consumed' \subseteq Decisions /\ consumed \subseteq consumed'
        /\ \A d \in consumed' \ consumed : verdict[d] = "rejected"
    BY <1>0, <1>4, <2>1 DEF Decline, TypeOK
  <2>3. grant' = 0
    BY <1>0, <1>4 DEF Decline, TypeOK
  <2> QED BY <1>0, <1>4, <2>2, <2>3, HandledType DEF Decline, index, TypeOK
<1>5. CASE Ask
  <2>1. grant' = 0
    BY <1>0, <1>5 DEF Ask, TypeOK
  <2> QED BY <1>5, <2>1, RaiseType DEF Ask
<1>6. CASE Pass
  BY <1>6, PassType
<1>7. CASE Overdraw
  BY <1>0, <1>7, RaiseType DEF Overdraw, TypeOK
<1>8. CASE Effect
  <2>1. /\ phase = "open" /\ phase' = "effected" /\ step' = step
        /\ sent' = [sent EXCEPT ![Call] = @ + 1] /\ sent[Call] < MaxSent
        /\ UNCHANGED <<saved, grant, decisions, index, interrupts, approved, declined, happens>>
    BY <1>8 DEF Effect, Goto
  <2>2. Call \in Calls /\ sent[Call] \in 0 .. MaxSent
    BY <1>0, <2>1, StepType DEF TypeOK
  <2>3. sent' \in [Calls -> 0 .. MaxSent]
    <3>1. sent[Call] + 1 \in 0 .. MaxSent
      BY <2>1, <2>2, Constants
    <3> QED BY <1>0, <2>1, <3>1 DEF TypeOK
  <2>4. TypeOK'
    BY <1>0, <2>1, <2>3 DEF TypeOK, decisions, index, Phases, Call
  <2>5. PendingInv'
    BY <1>0, <2>1 DEF PendingInv, decisions, Acting, InCall, Call, Grants, Raised
  <2> QED BY <2>4, <2>5 DEF GateInv
<1>9. CASE CommitCall
  <2>1. InCall
    BY <1>9 DEF CommitCall, InCall
  <2> QED BY <1>0, <1>9, <2>1, GrantType, FinalizeType, HandledType DEF CommitCall
<1>10. CASE ReportError
  <2>1. InCall
    BY <1>10 DEF ReportError, InCall
  <2> QED BY <1>0, <1>10, <2>1, GrantType, FinalizeType, HandledType DEF ReportError
<1>11. CASE Bungle
  <2>1. InCall
    BY <1>11 DEF Bungle, InCall
  <2> QED BY <1>0, <1>11, <2>1, GrantType, FinalizeType, HandledType
          DEF Bungle, RollBack, decisions, history, TypeOK
<1>12. ASSUME NEW d \in Decisions, Age(d) PROVE GateInv'
  <2>1. /\ recent' \subseteq recent /\ declined' \subseteq declined
        /\ UNCHANGED <<saved, phase, step, grant, verdict, about, why, consumed, newer, index,
                       interrupts, sent, approved, happens>>
    BY <1>12 DEF Age
  <2>2. TypeOK'
    BY <1>0, <2>1 DEF TypeOK, index, Call
  <2>3. PendingInv'
    BY <1>0, <2>1 DEF PendingInv, Acting, InCall, Call, Grants, Raised
  <2> QED BY <2>2, <2>3 DEF GateInv
<1>13. ASSUME NEW d \in Decisions, NEW v \in {"approved", "rejected"}, Resolve(d, v)
       PROVE  GateInv'
  BY <1>13, ResolveType
<1>14. CASE Interrupt
  <2>1. /\ interrupts' = interrupts + 1 /\ interrupts < MaxInterrupts
        /\ grant' = 0 /\ phase # "parked" /\ phase' = "thinking" /\ step' = <<>>
        /\ UNCHANGED <<saved, decisions, index, sent, approved, declined, happens>>
    BY <1>14 DEF Interrupt, RollBack, Goto
  <2>2. TypeOK'
    BY <1>0, <2>1, Constants, EmptySeq DEF TypeOK, decisions, index, Phases
  <2>3. PendingInv'
    BY <1>0, <2>1 DEF PendingInv, decisions, Acting, InCall
  <2> QED BY <2>2, <2>3 DEF GateInv
<1>16. ASSUME NEW d \in Decisions, DeclineOther(d) PROVE GateInv'
  <2>1. /\ newer' = [e \in Decisions |->
                      IF e \in {f \in recent : f <= d} THEN newer[e] + 1 ELSE newer[e]]
        /\ UNCHANGED <<saved, phase, step, grant, verdict, about, why, consumed, recent, index,
                       interrupts, history, happens>>
    BY <1>16 DEF DeclineOther
  <2>2. newer' \in [Decisions -> Nat]
    <3>1. newer \in [Decisions -> Nat]
      BY <1>0 DEF TypeOK
    <3>2. \A e \in Decisions : newer[e] \in Nat /\ newer[e] + 1 \in Nat
      BY ONLY <3>1
    <3> DEFINE Upon(e) == IF e \in {f \in recent : f <= d} THEN newer[e] + 1 ELSE newer[e]
    <3>3. \A e \in Decisions : Upon(e) \in Nat
      BY ONLY <3>2
    <3>4. newer' = [e \in Decisions |-> Upon(e)]
      BY <2>1
    <3> HIDE DEF Upon
    <3> QED BY ONLY <3>3, <3>4
  <2>3. TypeOK'
    BY <1>0, <2>1, <2>2 DEF TypeOK, index, history, Call
  <2>4. PendingInv'
    BY <1>0, <2>1 DEF PendingInv, Acting, InCall, Call, Grants, Raised
  <2> QED BY <2>3, <2>4 DEF GateInv
<1>15. CASE UNCHANGED vars
  <2>1. TypeOK'
    BY <1>0, <1>15 DEF TypeOK, vars, Call
  <2>2. PendingInv'
    BY <1>0, <1>15 DEF PendingInv, vars, Acting, InCall, Call, Grants, Raised
  <2> QED BY <2>1, <2>2 DEF GateInv
<1> QED BY <1>1, <1>2, <1>3, <1>4, <1>5, <1>6, <1>7, <1>8, <1>9, <1>10, <1>11, <1>12,
           <1>13, <1>14, <1>15, <1>16 DEF Next, Act

LEMMA GateInvariant == Spec => []GateInv
BY GateInit, GateStep, PTL DEF Spec

\* The task, its decisions, the index and the histories keep to their types, whatever
\* happens to the task and however the founder answers.
THEOREM TypeCorrect == Spec => []TypeOK
BY GateInvariant, PTL DEF GateInv

-----------------------------------------------------------------------------
(* What the founder has declined.                                             *)

\* Decisions are raised, answered and grow old in three kinds of steps.
LEMMA DecisionSteps ==
  ASSUME [Next]_vars
  PROVE  \/ UNCHANGED <<verdict, about, why, recent, declined, approved, happens>>
         \/ Ask \/ Overdraw
         \/ \E d \in Decisions : Age(d) \/ \E v \in {"approved", "rejected"} : Resolve(d, v)
<1>1. CASE \/ Think \/ Checkpoint \/ Deny \/ Decline \/ Pass \/ Effect \/ Interrupt
           \/ UNCHANGED vars
  BY <1>1 DEF Think, Checkpoint, Deny, Decline, Pass, Effect, Interrupt, decisions, history, vars
<1>2. CASE CommitCall \/ ReportError \/ Bungle \/ \E d \in Decisions : DeclineOther(d)
  BY <1>2 DEF CommitCall, ReportError, Bungle, DeclineOther, decisions, history
<1> QED BY <1>1, <1>2 DEF Next, Act

\* The decision that is raised is a new one, about the call.
LEMMA RaiseEffect ==
  ASSUME TypeOK, NEW reason, Raise(reason)
  PROVE  \E d \in Decisions :
           /\ verdict[d] = "none" /\ verdict'[d] = "pending" /\ about'[d] = Call
           /\ why'[d] = reason
           /\ row'[d] = IF reason = "gate" /\ Call \in External THEN "pending_approval"
                        ELSE row[d]
           /\ \A e \in Decisions \ {d} :
                /\ verdict'[e] = verdict[e] /\ about'[e] = about[e] /\ why'[e] = why[e]
                /\ row'[e] = row[e]
           /\ recent' = recent \cup {d}
           /\ phase' = "parked" /\ step' = <<>>
<1>1. PICK d \in Decisions :
        /\ verdict[d] = "none"
        /\ verdict' = [verdict EXCEPT ![d] = "pending"]
        /\ about' = [about EXCEPT ![d] = Call]
        /\ why' = [why EXCEPT ![d] = reason]
        /\ recent' = recent \cup {d}
        /\ row' = [row EXCEPT ![d] = IF reason = "gate" /\ Call \in External
                                     THEN "pending_approval" ELSE @]
        /\ phase' = "parked" /\ step' = <<>>
  BY DEF Raise, Goto
<1>2. row'[d] = IF reason = "gate" /\ Call \in External THEN "pending_approval" ELSE row[d]
  BY <1>1 DEF TypeOK
<1> QED BY <1>1, <1>2 DEF TypeOK

\* A message is refused at the gate alone, and a decline that stands has its decision.
DeclineInv ==
  /\ \A d \in Raised : about[d] \in External => why[d] = "gate"
  /\ "late_answer" \notin happens =>
       \A c \in declined : \E d \in recent : verdict[d] = "rejected" /\ about[d] = c

LEMMA DeclineStep == GateInv /\ DeclineInv /\ [Next]_vars => DeclineInv'
<1> SUFFICES ASSUME GateInv, DeclineInv, [Next]_vars PROVE DeclineInv'
  OBVIOUS
<1>0. TypeOK
  BY DEF GateInv
<1>1. CASE UNCHANGED <<verdict, about, why, recent, declined, approved, happens>>
  BY <1>1 DEF DeclineInv, Raised
<1>2. ASSUME NEW reason, Raise(reason), reason = "gate" \/ Call \notin External,
             declined' = declined, happens' = happens
      PROVE  DeclineInv'
  <2>1. PICK d \in Decisions :
           /\ verdict[d] = "none" /\ about'[d] = Call /\ why'[d] = reason
           /\ \A e \in Decisions \ {d} :
                verdict'[e] = verdict[e] /\ about'[e] = about[e] /\ why'[e] = why[e]
           /\ recent' = recent \cup {d}
    BY <1>0, <1>2, RaiseEffect
  <2>2. ASSUME NEW e \in Raised', about'[e] \in External PROVE why'[e] = "gate"
    BY <1>2, <2>1, <2>2 DEF DeclineInv, Raised
  <2>3. ASSUME "late_answer" \notin happens, NEW c \in declined
        PROVE  \E e \in recent' : verdict'[e] = "rejected" /\ about'[e] = c
    <3>1. PICK e \in recent : verdict[e] = "rejected" /\ about[e] = c
      BY <2>3 DEF DeclineInv
    <3>2. e \in Decisions \ {d}
      BY <1>0, <2>1, <3>1 DEF TypeOK
    <3> QED BY <2>1, <3>1, <3>2
  <2> QED BY <1>2, <2>2, <2>3 DEF DeclineInv
<1>3. CASE Ask \/ Overdraw
  <2>1. Priced \cap External = {}
    BY PricedAssumption
  <2> QED BY <1>2, <1>3, <2>1 DEF Ask, Overdraw, history
<1>4. ASSUME NEW d \in Decisions, Age(d) PROVE DeclineInv'
  <2>1. /\ recent' = recent \ {d} /\ UNCHANGED <<verdict, about, why, happens>>
        /\ "late_answer" \notin happens =>
             declined' = declined \ ({about[d]} \ StillDeclined(d))
    BY <1>4 DEF Age
  <2> QED BY <2>1 DEF DeclineInv, Raised, StillDeclined
<1>5. ASSUME NEW d \in Decisions, NEW v \in {"approved", "rejected"}, Resolve(d, v)
      PROVE  DeclineInv'
  <2>1. /\ verdict[d] = "pending" /\ (d \in recent \/ "late_answer" \in happens)
        /\ verdict' = [verdict EXCEPT ![d] = v]
        /\ declined' = IF v = "rejected" THEN declined \cup {about[d]}
                       ELSE declined \ {about[d]}
        /\ UNCHANGED <<about, why, recent, newer, happens>>
    BY <1>5 DEF Resolve
  <2>2. verdict'[d] = v /\ \A e \in Decisions \ {d} : verdict'[e] = verdict[e]
    BY <1>0, <2>1 DEF TypeOK
  <2>3. Raised' \subseteq Raised
    BY <2>1, <2>2 DEF Raised
  <2>4. ASSUME "late_answer" \notin happens, NEW c \in declined'
        PROVE  \E e \in recent : verdict'[e] = "rejected" /\ about[e] = c
    <3>1. CASE c = about[d] /\ v = "rejected"
      BY <2>1, <2>2, <2>4, <3>1
    <3>2. CASE c \in declined
      <4>1. PICK e \in recent : verdict[e] = "rejected" /\ about[e] = c
        BY <2>4, <3>2 DEF DeclineInv
      <4>2. e \in Decisions \ {d}
        BY <1>0, <2>1, <4>1 DEF TypeOK
      <4> QED BY <2>2, <4>1, <4>2
    <3> QED BY <2>1, <2>4, <3>1, <3>2
  <2> QED BY <2>1, <2>3, <2>4 DEF DeclineInv
<1> QED BY <1>1, <1>3, <1>4, <1>5, DecisionSteps

LEMMA DeclineInvariant == Spec => [](GateInv /\ DeclineInv)
<1>1. Init => DeclineInv
  BY DEF Init, DeclineInv, Raised
<1> QED BY <1>1, GateInit, GateStep, DeclineStep, PTL DEF Spec

\* How many declined messages are newer than a decision is a number.
LEMMA NewerIsNat ==
  ASSUME TypeOK, NEW d \in Decisions
  PROVE  Newer(d) \in Nat
<1> DEFINE S == {e \in recent : e > d /\ DeclinedMessage(e)}
<1>1. IsFiniteSet(Decisions)
  BY Constants, FS_Interval DEF Decisions
<1>2. S \subseteq Decisions
  BY DEF TypeOK
<1>3. Cardinality(S) \in Nat
  BY <1>1, <1>2, FS_Subset, FS_CardinalityType
<1> QED BY <1>3 DEF Newer, TypeOK

\* No message that the founder declined within the cooldown is put to him again, by the
\* gate or by the budget, unless he answers later than the cooldown or has declined Recall
\* messages that were put to him later, for every value of Recall.
THEOREM DeclineIsRemembered == Spec => DeclineRemembered
<1> DEFINE Remembered == \A d \in Decisions :
                           verdict[d] = "none" /\ verdict'[d] = "pending" =>
                             \/ about'[d] \notin declined \cap External
                             \/ PushedOut(about'[d])
                             \/ "late_answer" \in happens
<1>1. GateInv /\ DeclineInv /\ [Next]_vars => [Remembered]_vars
  <2> SUFFICES ASSUME GateInv, DeclineInv, [Next]_vars, NEW d \in Decisions,
                      verdict[d] = "none", verdict'[d] = "pending",
                      "late_answer" \notin happens, ~ PushedOut(about'[d])
               PROVE  about'[d] \notin declined \cap External
    OBVIOUS
  <2>0. TypeOK
    BY DEF GateInv
  <2>1. ~ \E e \in Decisions : Age(e) \/ \E v \in {"approved", "rejected"} : Resolve(e, v)
    <3>1. ASSUME NEW e \in Decisions, NEW v \in {"approved", "rejected"}, Resolve(e, v)
          PROVE  FALSE
      BY <2>0, <3>1 DEF Resolve, TypeOK
    <3> QED BY <3>1 DEF Age
  <2>2. Ask \/ Overdraw
    BY <2>1, DecisionSteps
  <2>3. ASSUME NEW reason, Raise(reason) PROVE about'[d] = Call
    BY <2>0, <2>3, RaiseEffect
  <2>4. about'[d] = Call
    BY <2>2, <2>3 DEF Ask, Overdraw
  <2>5. CASE Overdraw
    BY <2>4, <2>5, PricedAssumption DEF Overdraw
  <2>6. CASE Ask
    <3> SUFFICES ASSUME Call \in declined \cap External PROVE FALSE
      BY <2>4
    <3>1. PICK e \in recent : verdict[e] = "rejected" /\ about[e] = Call
      BY DEF DeclineInv
    <3>2. DeclinedMessage(e) /\ e \in Decisions
      BY <2>0, <3>1 DEF DeclineInv, Raised, TypeOK, DeclinedMessage
    <3>3. ~ Newer(e) >= Recall
      BY <2>4, <3>1, <3>2 DEF PushedOut
    <3>4. Newer(e) < Recall
      BY <2>0, <3>2, <3>3, NewerIsNat, BoundsAssumption
    <3> QED BY <2>6, <3>1, <3>2, <3>4 DEF Ask, RecentlyRejected
  <2> QED BY <2>2, <2>5, <2>6
<1> QED BY <1>1, DeclineInvariant, PTL DEF Spec, DeclineRemembered

-----------------------------------------------------------------------------
(* A task that keeps to its steps.                                            *)

Singles == \A n \in 1 .. Len(Script) : Len(Script[n]) = 1

\* No interruption and no other answer than the script's, one call a step.
Steady == Only({"over_budget", "bungled", "late_answer"})

\* The call of the step that is due, and whether it is handled already.
Due == Script[saved + 1][1]
Handled == phase = "acting" /\ step = <<>>

\* The steps whose call has taken effect, at most: the one under way included once it has.
Reached == IF phase = "effected" \/ Handled THEN saved + 1 ELSE saved

StepInv ==
  /\ phase = "acting" => step \in {<<>>, <<Due>>}
  /\ InCall => step = <<Due>>

MadeInv == \A c \in Calls : sent[c] <= Cardinality(Naming(c, Reached))

LEMMA HappensKept == [Next]_vars => happens' = happens
BY DEF Next, Act, Think, Checkpoint, Deny, Decline, Ask, Pass, Overdraw, Effect, CommitCall,
       ReportError, Bungle, Age, DeclineOther, Resolve, Interrupt, vars

\* A step of one call.
LEMMA SingleStep ==
  ASSUME Singles, NEW n \in 1 .. Len(Script)
  PROVE  Script[n] = <<Script[n][1]>> /\ Script[n][1] \in Calls /\ DOMAIN Script[n] = {1}
<1> DEFINE s == Script[n]
<1>1. s \in Seq(Calls) /\ Len(s) = 1
  BY Constants DEF Singles
<1> HIDE DEF s
<1>2. DOMAIN s = {1} /\ s[1] \in Calls /\ s = <<s[1]>>
  BY <1>1
<1> QED BY <1>2 DEF s

\* The places that name a call are finitely many.
LEMMA NamingFinite ==
  ASSUME Singles, NEW m \in 0 .. Len(Script), NEW c
  PROVE  Naming(c, m) \subseteq (1 .. m) \X {1} /\ IsFiniteSet(Naming(c, m))
<1>1. 1 .. m \subseteq 1 .. Len(Script) /\ m \in Int /\ 1 \in Int
  BY Constants
<1>2. \A n \in 1 .. m : DOMAIN Script[n] = {1}
  BY <1>1, SingleStep
<1>3. Naming(c, m) \subseteq (1 .. m) \X {1}
  BY <1>2 DEF Naming
<1>4. IsFiniteSet((1 .. m) \X {1})
  <2>1. IsFiniteSet(1 .. m)
    BY <1>1, FS_Interval
  <2>2. IsFiniteSet({1})
    BY FS_Singleton
  <2> QED BY <2>1, <2>2, FS_Product
<1> QED BY <1>3, <1>4, FS_Subset

\* One step more names its call once more.
LEMMA NamingGrows ==
  ASSUME Singles, NEW m \in 0 .. Len(Script) - 1, NEW c
  PROVE  /\ IsFiniteSet(Naming(c, m)) /\ Cardinality(Naming(c, m)) \in Nat
         /\ Cardinality(Naming(c, m + 1))
              = Cardinality(Naming(c, m)) + IF Script[m + 1][1] = c THEN 1 ELSE 0
<1>0. m \in Nat /\ m + 1 \in 1 .. Len(Script) /\ Len(Script) \in Nat
      /\ 1 .. m \subseteq 1 .. Len(Script) /\ 1 .. m + 1 = (1 .. m) \cup {m + 1}
  BY Constants
<1> DEFINE At(n) == {n} \X {i \in DOMAIN Script[n] : Script[n][i] = c}
<1>1. ASSUME NEW n \in 1 .. Len(Script)
      PROVE  At(n) = IF Script[n][1] = c THEN {<<n, 1>>} ELSE {}
  <2>1. DOMAIN Script[n] = {1}
    BY SingleStep
  <2> QED BY <2>1
<1>2. Naming(c, m) = UNION {At(n) : n \in 1 .. m}
      /\ Naming(c, m + 1) = UNION {At(n) : n \in 1 .. m + 1}
  BY DEF Naming
<1> HIDE DEF At
<1>3. Naming(c, m + 1) = Naming(c, m) \cup At(m + 1)
  BY <1>0, <1>2
<1>4. Naming(c, m) \subseteq (1 .. m) \X {1} /\ IsFiniteSet(Naming(c, m))
  BY <1>0, NamingFinite
<1>5. <<m + 1, 1>> \notin Naming(c, m)
  BY <1>0, <1>4
<1>6. Cardinality(Naming(c, m)) \in Nat
  BY <1>4, FS_CardinalityType
<1>7. CASE Script[m + 1][1] = c
  <2>1. Naming(c, m + 1) = Naming(c, m) \cup {<<m + 1, 1>>}
    BY <1>0, <1>1, <1>3, <1>7
  <2>2. Cardinality(Naming(c, m + 1)) = Cardinality(Naming(c, m)) + 1
    BY <1>4, <1>5, <2>1, FS_AddElement
  <2> QED BY <1>4, <1>6, <1>7, <2>2
<1>8. CASE Script[m + 1][1] # c
  <2>1. Naming(c, m + 1) = Naming(c, m)
    BY <1>0, <1>1, <1>3, <1>8
  <2> QED BY <1>4, <1>6, <1>8, <2>1
<1> QED BY <1>7, <1>8

\* How far the task is, step by step: the call that is due is made, or passed over, once.
LEMMA Progress ==
  ASSUME GateInv, StepInv, Steady, [Next]_vars
  PROVE  /\ StepInv'
         /\ \/ Reached' = Reached /\ sent' = sent
            \/ /\ saved < Len(Script) /\ Reached = saved /\ Reached' = saved + 1
               /\ sent' = sent \/ (Due \in Calls /\ sent' = [sent EXCEPT ![Due] = @ + 1])
<1> DEFINE Stays == Reached' = Reached /\ sent' = sent
           Grows == /\ saved < Len(Script) /\ Reached = saved /\ Reached' = saved + 1
                    /\ sent' = sent \/ (Due \in Calls /\ sent' = [sent EXCEPT ![Due] = @ + 1])
<1> USE DEF GateInv
<1>0. /\ {"strays", "batches", "interrupted"} \cap happens = {} /\ Singles
      /\ saved \in Nat /\ (saved < Len(Script) => saved + 1 \in 1 .. Len(Script))
      /\ (Acting => saved < Len(Script))
  BY Constants DEF Steady, Only, Singles, TypeOK, PendingInv
<1>1. \A x : Head(<<x>>) = x /\ Tail(<<x>>) = <<>> /\ <<x>> # <<>>
  OBVIOUS
<1>c. saved < Len(Script) => Due \in Calls
  BY <1>0, SingleStep DEF Due
<1>2. CASE Think
  <2>1. /\ phase = "thinking" /\ saved < Len(Script) /\ phase' = "acting"
        /\ step' = Script[saved + 1]
        /\ UNCHANGED <<saved, sent>>
    BY <1>0, <1>2 DEF Think, Goto, history
  <2>2. step' = <<Due>> /\ Due' = Due
    BY <1>0, <2>1, SingleStep DEF Due
  <2> QED BY <1>1, <2>1, <2>2 DEF StepInv, InCall, Reached, Handled
<1>3. CASE Checkpoint
  <2>1. /\ Handled /\ phase' = "thinking" /\ saved' = saved + 1 /\ sent' = sent
    BY <1>3 DEF Checkpoint, Goto, history, Handled
  <2> QED BY <2>1 DEF StepInv, InCall, Reached, Handled
<1>4. ASSUME phase = "acting" \/ phase = "open", step # <<>>, Goto("acting", Tail(step)),
             UNCHANGED <<saved, sent>>
      PROVE  StepInv' /\ Grows
  <2>1. step = <<Due>> /\ saved < Len(Script)
    BY <1>0, <1>4 DEF StepInv, InCall, Acting
  <2>2. phase' = "acting" /\ step' = <<>>
    BY <1>1, <1>4, <2>1 DEF Goto
  <2> QED BY <1>4, <2>1, <2>2 DEF StepInv, InCall, Reached, Handled
<1>5. ASSUME phase = "effected", Goto("acting", Tail(step)), UNCHANGED <<saved, sent>>
      PROVE  StepInv' /\ Stays
  <2>1. phase' = "acting" /\ step' = <<>>
    BY <1>1, <1>5 DEF Goto, StepInv, InCall
  <2> QED BY <1>5, <2>1 DEF StepInv, InCall, Reached, Handled
<1>6. CASE Deny \/ Decline
  BY <1>4, <1>6 DEF Deny, Decline, history
<1>7. ASSUME NEW reason, Raise(reason), (phase = "acting" /\ step # <<>>) \/ phase = "open",
             UNCHANGED <<saved, sent>>
      PROVE  StepInv' /\ Stays
  <2>1. phase' = "parked"
    BY <1>7, RaiseEffect
  <2> QED BY <1>7, <2>1 DEF StepInv, InCall, Reached, Handled
<1>8. CASE Ask \/ Overdraw
  BY <1>7, <1>8 DEF Ask, Overdraw, history
<1>9. CASE Pass
  <2>1. /\ phase = "acting" /\ step # <<>> /\ phase' = "open" /\ step' = step
        /\ UNCHANGED <<saved, sent>>
    BY <1>9 DEF Pass, Goto, history
  <2> QED BY <2>1 DEF StepInv, InCall, Reached, Handled, Due
<1>10. CASE Effect
  <2>1. /\ phase = "open" /\ phase' = "effected" /\ step' = step /\ saved' = saved
        /\ sent' = [sent EXCEPT ![Call] = @ + 1]
    BY <1>10 DEF Effect, Goto
  <2>2. Call = Due
    BY <1>1, <2>1 DEF StepInv, InCall, Call
  <2>3. saved < Len(Script)
    BY <1>0, <2>1 DEF Acting
  <2> QED BY <1>c, <2>1, <2>2, <2>3 DEF StepInv, InCall, Reached, Handled, Due
<1>11. CASE CommitCall
  BY <1>5, <1>11 DEF CommitCall, history
<1>12. CASE ReportError \/ Bungle
  <2>1. step # <<>>
    BY <1>12 DEF ReportError, Bungle, TypeOK
  <2> QED BY <1>4, <1>5, <1>12, <2>1 DEF ReportError, Bungle, history
<1>13. ASSUME NEW d \in Decisions, Age(d) \/ DeclineOther(d) PROVE StepInv' /\ Stays
  BY <1>13 DEF Age, DeclineOther, history, StepInv, InCall, Reached, Handled, Due
<1>14. ASSUME NEW d \in Decisions, NEW v \in {"approved", "rejected"}, Resolve(d, v)
       PROVE  StepInv' /\ Stays
  <2>1. phase = "parked" /\ phase' = "thinking"
    BY <1>14, ResolveType
  <2>2. UNCHANGED <<saved, sent>>
    BY <1>14 DEF Resolve
  <2> QED BY <2>1, <2>2 DEF StepInv, InCall, Reached, Handled
<1>15. ~ Interrupt
  BY <1>0 DEF Interrupt
<1>16. CASE UNCHANGED vars
  BY <1>16 DEF vars, StepInv, InCall, Reached, Handled, Due
<1> QED BY <1>2, <1>3, <1>6, <1>8, <1>9, <1>10, <1>11, <1>12, <1>13, <1>14, <1>15, <1>16
        DEF Next, Act

SteadyInv == Steady => StepInv /\ MadeInv

LEMMA SteadyStep == GateInv /\ SteadyInv /\ [Next]_vars => SteadyInv'
<1> SUFFICES ASSUME GateInv, SteadyInv, [Next]_vars, Steady PROVE StepInv' /\ MadeInv'
  BY HappensKept DEF SteadyInv, Steady, Only
<1>0. TypeOK /\ StepInv /\ MadeInv /\ Singles
  BY DEF GateInv, SteadyInv, Steady, Only, Singles
<1>1. /\ StepInv'
      /\ \/ Reached' = Reached /\ sent' = sent
         \/ /\ saved < Len(Script) /\ Reached = saved /\ Reached' = saved + 1
            /\ sent' = sent \/ (Due \in Calls /\ sent' = [sent EXCEPT ![Due] = @ + 1])
  BY <1>0, Progress
<1>2. CASE Reached' = Reached /\ sent' = sent
  BY <1>0, <1>1, <1>2 DEF MadeInv
<1>3. CASE /\ saved < Len(Script) /\ Reached = saved /\ Reached' = saved + 1
           /\ sent' = sent \/ (Due \in Calls /\ sent' = [sent EXCEPT ![Due] = @ + 1])
  <2>1. saved \in 0 .. Len(Script) - 1
    BY <1>0, <1>3, Constants DEF TypeOK
  <2>2. ASSUME NEW c \in Calls PROVE sent'[c] <= Cardinality(Naming(c, saved + 1))
    <3>1. /\ Cardinality(Naming(c, saved)) \in Nat
          /\ Cardinality(Naming(c, saved + 1))
               = Cardinality(Naming(c, saved)) + IF Due = c THEN 1 ELSE 0
      BY <1>0, <2>1, NamingGrows DEF Due
    <3>2. sent[c] \in Nat /\ sent[c] <= Cardinality(Naming(c, saved))
      BY <1>0, <1>3, Constants DEF MadeInv, TypeOK
    <3>3. sent'[c] = sent[c] \/ (Due = c /\ sent'[c] = sent[c] + 1)
      BY <1>0, <1>3 DEF TypeOK
    <3> QED BY <3>1, <3>2, <3>3
  <2> QED BY <1>1, <1>3, <2>2 DEF MadeInv
<1> QED BY <1>1, <1>2, <1>3

LEMMA SteadyInit == Init => SteadyInv
<1> SUFFICES ASSUME Init, Steady PROVE StepInv /\ MadeInv
  BY DEF SteadyInv
<1>1. StepInv /\ Reached = 0
  BY DEF Init, StepInv, InCall, Reached, Handled
<1>2. \A c : Naming(c, 0) = {}
  BY DEF Naming
<1>3. \A c \in Calls : sent[c] = 0
  BY DEF Init
<1> QED BY <1>1, <1>2, <1>3, FS_EmptySet DEF MadeInv

LEMMA SteadyInvariant == Spec => [](GateInv /\ SteadyInv)
BY GateInit, GateStep, SteadyInit, SteadyStep, PTL DEF Spec

\* A task that makes one call a step and keeps to its steps makes each call as often as its
\* steps name it, at most: parking, resuming, an overdrawn budget and a failing tool never
\* make it do again what it has done.
THEOREM StepsAreNotRedone == Spec => []NotRedone
<1>1. GateInv /\ SteadyInv => NotRedone
  <2> SUFFICES ASSUME GateInv, StepInv, MadeInv, Steady, NEW c \in Calls
               PROVE  sent[c] <= TimesIn(c)
    BY DEF SteadyInv, NotRedone, DoneOnce, Steady
  <2>0. Singles /\ TypeOK /\ Len(Script) \in Nat
    BY Constants DEF GateInv, Steady, Only, Singles
  <2>1. Reached \in 0 .. Len(Script)
    BY <2>0 DEF GateInv, PendingInv, TypeOK, Acting, Reached, Handled
  <2>2. Naming(c, Reached) \subseteq Naming(c, Len(Script))
    BY <2>0, <2>1 DEF Naming
  <2>3. IsFiniteSet(Naming(c, Len(Script)))
    BY <2>0, NamingFinite
  <2>4. /\ Cardinality(Naming(c, Reached)) <= Cardinality(Naming(c, Len(Script)))
        /\ Cardinality(Naming(c, Reached)) \in Nat
        /\ Cardinality(Naming(c, Len(Script))) \in Nat
    BY <2>2, <2>3, FS_Subset, FS_CardinalityType
  <2>5. sent[c] \in Nat /\ sent[c] <= Cardinality(Naming(c, Reached))
    BY <2>0, Constants DEF MadeInv, TypeOK
  <2> QED BY <2>4, <2>5 DEF TimesIn
<1> QED BY <1>1, SteadyInvariant, PTL

-----------------------------------------------------------------------------
(* What the founder has approved.                                             *)

\* Nothing but late answers: no budget decision, and no transaction that ends otherwise
\* than by its commit.
Plain == Only({"late_answer"})

\* A decision that still is to open the gate, and the call that is due when it is about it.
Live(d) == d \notin consumed /\ verdict[d] \in {"pending", "approved"}
IsDue(d) == saved < Len(Script) /\ ~Handled /\ about[d] = Due

\* An approval of c that no call of c has used.
Spare(c) ==
  \E d \in Decisions : /\ Live(d) /\ verdict[d] = "approved" /\ about[d] = c
                       /\ ~ (phase = "effected" /\ grant = d)

\* One decision at a time is open, about the call that is due: the tool's name alone, by
\* which a grant is matched, cannot mistake it for another call's.
GrantInv ==
  /\ \A d \in Raised : about[d] \in Gated
  /\ \A d \in Decisions : Live(d) => IsDue(d)
  /\ \A d, e \in Decisions : Live(d) /\ Live(e) => d = e
  /\ InCall => Due \notin Denied
  /\ \A c \in Gated \cup Denied : sent[c] + (IF Spare(c) THEN 1 ELSE 0) <= approved[c]

\* No decision is open about a call that the gate stops for another reason.
LEMMA NoneOpen ==
  ASSUME GateInv, phase = "acting", Closed(Call) \/ Call \notin Gated,
         NEW d \in Decisions, Live(d), about[d] \in Gated
  PROVE  about[d] # Call
<1>1. verdict[d] = "approved"
  BY DEF GateInv, PendingInv, Live
<1>2. about[d] = Call => d \in Grants(Call)
  BY <1>1 DEF Grants, Raised, Live
<1> QED BY <1>2 DEF Closed

LEMMA GrantStep ==
  ASSUME GateInv, Plain, StepInv, StepInv', GrantInv, [Next]_vars
  PROVE  GrantInv'
<1> USE DEF GateInv
<1>0. /\ happens \subseteq {"late_answer", "others_declined"} /\ Singles
      /\ TypeOK /\ PendingInv
      /\ (saved < Len(Script) => Due \in Calls)
  <2>1. Singles /\ happens \subseteq {"late_answer", "others_declined"}
    BY DEF Plain, Only, Singles
  <2>2. saved < Len(Script) => saved + 1 \in 1 .. Len(Script)
    BY Constants DEF TypeOK
  <2> QED BY <2>1, <2>2, SingleStep DEF Due
<1>s. \A c : (sent[c] \in Nat /\ approved[c] \in Nat) \/ c \notin Calls
  BY Constants DEF TypeOK
<1>h. \A x : Head(<<x>>) = x /\ Tail(<<x>>) = <<>> /\ <<x>> # <<>>
  OBVIOUS
\* The call that is handled or made is the one that is due.
<1>d. /\ phase = "acting" /\ step # <<>> => Call = Due /\ step = <<Due>>
      /\ InCall => Call = Due /\ step = <<Due>>
  BY <1>h DEF StepInv, InCall, Call
<1>r. ASSUME verdict' = verdict PROVE Raised' = Raised
  BY <1>r DEF Raised
\* Steps that leave decisions, approvals and effects alone.
<1>k. ASSUME UNCHANGED <<verdict, about, consumed, sent, approved, saved>>,
             Handled' => Handled,
             phase # "effected", phase' # "effected",
             InCall' => Due \notin Denied
      PROVE  GrantInv'
  <2>1. \A d \in Decisions : Live(d)' = Live(d) /\ (IsDue(d) => IsDue(d)')
    BY <1>k DEF Live, IsDue, Due
  <2>2. \A c : Spare(c)' = Spare(c)
    BY <1>k DEF Spare, Live
  <2> QED BY <1>k, <1>r, <2>1, <2>2 DEF GrantInv, Due
\* Steps after which no decision is open.
<1>n. ASSUME \A d \in Decisions : ~Live(d)', UNCHANGED <<verdict, about, sent, approved>>, ~InCall'
      PROVE  GrantInv'
  <2>1. \A c : ~Spare(c)'
    BY <1>n DEF Spare
  <2>2. \A c \in Gated \cup Denied : sent[c] <= approved[c]
    BY <1>s, Constants DEF GrantInv
  <2>3. \A c \in Gated \cup Denied : sent[c] \in Nat
    BY <1>s, Constants
  <2> QED BY <1>n, <1>r, <2>1, <2>2, <2>3 DEF GrantInv
<1>1. CASE Think
  <2>1. step' # <<>> /\ phase' = "acting"
    <3>1. saved + 1 \in 1 .. Len(Script)
      BY <1>0, <1>1, Constants DEF Think, TypeOK
    <3>2. Script[saved + 1] # <<>>
      BY <1>h, <1>0, <3>1, SingleStep
    <3> QED BY <1>0, <1>1, <3>2 DEF Think, Goto
  <2> QED BY <1>1, <1>k, <2>1 DEF Think, decisions, history, Handled, InCall
<1>2. CASE Checkpoint
  <2>1. Handled /\ phase' = "thinking" /\ UNCHANGED <<verdict, about, consumed, sent, approved>>
    BY <1>2 DEF Checkpoint, Handled, Goto, decisions, history
  <2>2. \A d \in Decisions : ~Live(d)'
    BY <2>1 DEF GrantInv, IsDue, Live
  <2> QED BY <1>n, <2>1, <2>2 DEF InCall
<1>3. ASSUME phase = "acting", step # <<>>, Closed(Call) \/ Call \notin Gated,
             NEW d \in Decisions, Live(d)
      PROVE  FALSE
  <2>1. about[d] \in Gated /\ about[d] = Due
    BY <1>3 DEF GrantInv, Raised, Live, IsDue
  <2> QED BY <1>d, <1>3, <2>1, NoneOpen
<1>4. CASE Deny \/ Decline
  <2>1. /\ phase = "acting" /\ step # <<>> /\ (Closed(Call) \/ Call \notin Gated)
        /\ UNCHANGED <<verdict, about, sent, approved>> /\ phase' = "acting"
        /\ consumed \subseteq consumed'
    BY <1>4, Constants DEF Deny, Decline, decisions, history, Goto
  <2>2. \A d \in Decisions : ~Live(d)'
    BY <1>3, <2>1 DEF Live
  <2> QED BY <1>n, <2>1, <2>2 DEF InCall
<1>5. CASE Ask
  <2>1. /\ phase = "acting" /\ step # <<>> /\ Closed(Call) /\ Raise("gate")
        /\ UNCHANGED <<saved, consumed, sent, approved>>
    BY <1>5 DEF Ask, history
  <2>2. PICK d \in Decisions :
           /\ verdict[d] = "none" /\ verdict'[d] = "pending" /\ about'[d] = Call
           /\ \A e \in Decisions \ {d} : verdict'[e] = verdict[e] /\ about'[e] = about[e]
           /\ phase' = "parked"
    BY <1>0, <2>1, RaiseEffect
  <2>3. \A e \in Decisions : ~Live(e)
    BY <1>3, <2>1
  <2>4. \A e \in Decisions : Live(e)' => e = d
    BY <2>1, <2>2, <2>3 DEF Live
  <2>5. IsDue(d)'
    BY <1>0, <1>d, <2>1, <2>2 DEF IsDue, Handled, Due, PendingInv, Acting
  <2>6. \A c : ~Spare(c)'
    BY <2>2, <2>4 DEF Spare
  <2>7. \A e \in Raised' : about'[e] \in Gated
    BY <2>1, <2>2 DEF GrantInv, Raised, Closed
  <2>8. \A c \in Gated \cup Denied : sent[c] <= approved[c] /\ sent[c] \in Nat
    BY <1>s, Constants DEF GrantInv
  <2> QED BY <2>1, <2>2, <2>4, <2>5, <2>6, <2>7, <2>8 DEF GrantInv, InCall
<1>6. CASE Pass
  <2>1. Due \notin Denied
    BY <1>d, <1>6 DEF Pass
  <2> QED BY <1>6, <1>k, <2>1 DEF Pass, Goto, decisions, history, Handled
<1>7. CASE Effect
  <2>1. /\ phase = "open" /\ phase' = "effected" /\ step' = step
        /\ sent' = [sent EXCEPT ![Due] = @ + 1]
        /\ UNCHANGED <<saved, grant, verdict, about, consumed, approved>>
        /\ step = <<Due>> /\ Due \in Calls /\ Due \notin Denied
    BY <1>0, <1>7, <1>d DEF Effect, Goto, decisions, PendingInv, Acting, InCall, GrantInv
  <2>2. \A d \in Decisions : Live(d)' = Live(d) /\ (IsDue(d) => IsDue(d)')
    BY <2>1 DEF Live, IsDue, Due, Handled
  <2>3. Due \in Gated => grant \in Decisions /\ Live(grant) /\ verdict[grant] = "approved"
    BY <1>0, <1>d, <2>1 DEF PendingInv, InCall, Grants, Raised, Live
  <2>4. \A d \in Decisions : Live(d) => Due \in Gated /\ d = grant
    BY <2>3 DEF GrantInv, IsDue, Raised, Live
  <2>5. \A c : ~Spare(c)'
    BY <2>1, <2>2, <2>4 DEF Spare
  <2>6. Due \in Gated => Spare(Due)
    BY <2>1, <2>3 DEF Spare, GrantInv, IsDue
  <2>7. ASSUME NEW c \in Gated \cup Denied PROVE sent'[c] <= approved[c] /\ sent'[c] \in Nat
    <3>1. sent[c] \in Nat /\ approved[c] \in Nat /\ c \in Calls
          /\ sent[c] + (IF Spare(c) THEN 1 ELSE 0) <= approved[c]
      BY <1>s, Constants DEF GrantInv
    <3>2. CASE c = Due
      <4>1. sent'[c] = sent[c] + 1 /\ Spare(c)
        BY <1>0, <2>1, <2>6, <3>2 DEF TypeOK
      <4> QED BY <3>1, <4>1
    <3>3. CASE c # Due
      <4>1. sent'[c] = sent[c]
        BY <1>0, <2>1, <3>3 DEF TypeOK
      <4> QED BY <3>1, <4>1
    <3> QED BY <3>2, <3>3
  <2> QED BY <1>r, <2>1, <2>2, <2>5, <2>7 DEF GrantInv, Due
<1>8. CASE CommitCall
  <2>1. /\ phase = "effected" /\ phase' = "acting" /\ consumed' = consumed \cup ({grant} \ {0})
        /\ UNCHANGED <<verdict, about, sent, approved>>
    BY <1>8 DEF CommitCall, Goto, history
  <2>2. Due \in Gated => grant \in Decisions \ {0} /\ Live(grant)
    BY <1>0, <1>d, <2>1, Constants DEF PendingInv, InCall, Grants, Raised, Live
  <2>3. \A d \in Decisions : Live(d) => Due \in Gated /\ d = grant
    BY <2>2 DEF GrantInv, IsDue, Raised, Live
  <2>4. \A d \in Decisions : ~Live(d)'
    BY <2>1, <2>2, <2>3 DEF Live
  <2> QED BY <1>n, <2>1, <2>4 DEF InCall
<1>9. ~ (Overdraw \/ ReportError \/ Bungle \/ Interrupt)
  BY <1>0 DEF Overdraw, ReportError, Bungle, Interrupt
<1>10. ASSUME UNCHANGED <<verdict, about, consumed, sent, approved, saved, phase, step, grant>>
       PROVE  GrantInv'
  <2>1. \A d \in Decisions : Live(d)' = Live(d) /\ IsDue(d)' = IsDue(d)
    BY <1>10 DEF Live, IsDue, Due, Handled
  <2>2. \A c : Spare(c)' = Spare(c)
    BY <1>10 DEF Spare, Live
  <2> QED BY <1>r, <1>10, <2>1, <2>2 DEF GrantInv, Due, InCall
<1>11. ASSUME NEW d \in Decisions, NEW v \in {"approved", "rejected"}, Resolve(d, v)
       PROVE  GrantInv'
  <2>1. /\ verdict[d] = "pending" /\ phase' = "thinking"
        /\ verdict' = [verdict EXCEPT ![d] = v]
        /\ approved' = [approved EXCEPT ![about[d]] = IF v = "approved" THEN @ + 1 ELSE @]
        /\ UNCHANGED <<saved, about, consumed, sent>>
    BY <1>11, ResolveType DEF Resolve
  <2>2. verdict'[d] = v /\ \A e \in Decisions \ {d} : verdict'[e] = verdict[e]
    BY <1>0, <2>1 DEF TypeOK
  <2>3. Live(d)
    BY <1>0, <2>1 DEF Live, PendingInv
  <2>4. \A e \in Decisions : Live(e)' => Live(e) /\ e = d /\ v = "approved"
    BY <2>1, <2>2, <2>3 DEF Live, GrantInv
  <2>5. \A e \in Decisions : IsDue(e) => IsDue(e)'
    BY <2>1 DEF IsDue, Handled, Due
  <2>6. \A c : Spare(c)' => c = about[d] /\ v = "approved"
    BY <2>1, <2>4 DEF Spare
  <2>7. Raised' \subseteq Raised
    BY <2>1, <2>2 DEF Raised
  <2>8. ASSUME NEW c \in Gated \cup Denied
        PROVE  sent[c] + (IF Spare(c)' THEN 1 ELSE 0) <= approved'[c]
    <3>1. sent[c] \in Nat /\ approved[c] \in Nat /\ sent[c] <= approved[c] /\ c \in Calls
      BY <1>s, Constants DEF GrantInv
    <3>2. approved'[c] = approved[c] + IF c = about[d] /\ v = "approved" THEN 1 ELSE 0
      <4>1. CASE v = "approved"
        BY <1>0, <2>1, <3>1, <4>1 DEF TypeOK
      <4>2. CASE v = "rejected"
        BY <1>0, <2>1, <3>1, <4>2 DEF TypeOK
      <4> QED BY <4>1, <4>2
    <3> QED BY <2>6, <3>1, <3>2
  <2> QED BY <2>1, <2>4, <2>5, <2>7, <2>8 DEF GrantInv, InCall
<1>12. ASSUME NEW d \in Decisions, Age(d) \/ DeclineOther(d) PROVE GrantInv'
  BY <1>10, <1>12 DEF Age, DeclineOther, history
<1>13. CASE UNCHANGED vars
  BY <1>10, <1>13 DEF vars
<1> QED BY <1>1, <1>2, <1>4, <1>5, <1>6, <1>7, <1>8, <1>9, <1>11, <1>12, <1>13 DEF Next, Act

ApprovedInv == Plain => GrantInv

LEMMA ApprovedInvariant == Spec => [](GateInv /\ SteadyInv /\ ApprovedInv)
<1>1. Init => ApprovedInv
  <2> SUFFICES ASSUME Init PROVE GrantInv
    BY DEF ApprovedInv
  <2>1. \A d \in Decisions : ~Live(d) /\ d \notin Raised
    BY DEF Init, Live, Raised
  <2>2. \A c : ~Spare(c)
    BY <2>1 DEF Spare
  <2>3. \A c \in Gated \cup Denied : sent[c] = 0 /\ approved[c] = 0
    BY Constants DEF Init
  <2> QED BY <2>1, <2>2, <2>3 DEF Init, GrantInv, InCall, Raised
<1>2. GateInv /\ SteadyInv /\ ApprovedInv /\ [Next]_vars => ApprovedInv'
  <2> SUFFICES ASSUME GateInv, SteadyInv, ApprovedInv, [Next]_vars, Plain PROVE GrantInv'
    BY HappensKept DEF ApprovedInv, Plain, Only
  <2>1. Steady /\ Steady'
    BY HappensKept DEF Plain, Steady, Only
  <2>2. StepInv /\ StepInv'
    BY <2>1, SteadyStep DEF SteadyInv
  <2> QED BY <2>2, GrantStep DEF ApprovedInv
<1> QED BY <1>1, <1>2, SteadyInvariant, PTL DEF Spec

\* For any policy and script: what needs approval goes out as often as the founder has
\* approved it, at most, and what is denied never, as long as the task keeps to its steps
\* and its transactions end in their commits.
THEOREM GatedCallsAreApproved == Spec => []EveryGatedCallApproved
<1>1. GateInv /\ ApprovedInv => EveryGatedCallApproved
  <2> SUFFICES ASSUME TypeOK, GrantInv, NEW c \in Gated \cup Denied
               PROVE  sent[c] <= approved[c]
    BY DEF GateInv, ApprovedInv, Plain, EveryGatedCallApproved
  <2>1. sent[c] \in Nat /\ approved[c] \in Nat
    BY Constants DEF TypeOK
  <2> QED BY <2>1 DEF GrantInv
<1> QED BY <1>1, ApprovedInvariant, PTL

-----------------------------------------------------------------------------
(* The index of what was sent.                                               *)

\* No transaction ends otherwise than by its commit or in a budget decision.
Indexing == Only({"over_budget", "late_answer"})

Parked(d) == row[d] = "pending_approval"
Out(c) == {d \in Raised : about[d] = c /\ row[d] = "sent"}

\* A parked message is the one that is due, and the only one: whatever grant its call passes
\* on, the row that finalize moves is its own.
RowInv ==
  /\ \A d \in Decisions : row[d] # "none" => d \in Raised
  /\ \A d \in Decisions : Parked(d) =>
       /\ Live(d) /\ IsDue(d)
       /\ about[d] \in Gated \cap External
  /\ \A d, e \in Decisions : Parked(d) /\ Parked(e) => d = e
  /\ \A c \in External :
       logged[c] + Cardinality(Out(c)) + (IF phase = "effected" /\ c = Due THEN 1 ELSE 0)
         = sent[c]

LEMMA RowStep ==
  ASSUME GateInv, Indexing, StepInv, StepInv', RowInv, [Next]_vars
  PROVE  RowInv'
<1> USE DEF GateInv
<1>0. /\ happens \subseteq {"over_budget", "late_answer", "others_declined"} /\ Singles
      /\ TypeOK /\ PendingInv
      /\ (saved < Len(Script) => Due \in Calls)
  <2>1. Singles /\ happens \subseteq {"over_budget", "late_answer", "others_declined"}
    BY DEF Indexing, Only, Singles
  <2>2. saved < Len(Script) => saved + 1 \in 1 .. Len(Script)
    BY Constants DEF TypeOK
  <2> QED BY <2>1, <2>2, SingleStep DEF Due
<1>h. \A x : Head(<<x>>) = x /\ Tail(<<x>>) = <<>> /\ <<x>> # <<>>
  OBVIOUS
<1>d. /\ phase = "acting" /\ step # <<>> => Call = Due /\ step = <<Due>>
      /\ InCall => Call = Due /\ step = <<Due>>
  BY <1>h DEF StepInv, InCall, Call
<1>f. \A c : IsFiniteSet(Out(c)) /\ Cardinality(Out(c)) \in Nat
  BY Constants, FS_Subset, FS_CardinalityType DEF Out, Raised
\* Steps that leave the decisions, the index and the effects alone.
<1>k. ASSUME UNCHANGED <<verdict, about, consumed, row, logged, sent, saved>>,
             Handled' => Handled,
             phase' = "effected" <=> phase = "effected"
      PROVE  RowInv'
  <2>1. \A d \in Decisions : Live(d)' = Live(d) /\ (IsDue(d) => IsDue(d)') /\ Parked(d)' = Parked(d)
    BY <1>k DEF Live, IsDue, Due, Parked
  <2>2. Raised' = Raised /\ \A c : Out(c)' = Out(c)
    BY <1>k DEF Raised, Out
  <2> QED BY <1>k, <2>1, <2>2 DEF RowInv, Due
\* Steps of a task that has no message parked.
<1>n. ASSUME \A d \in Decisions : ~Parked(d), UNCHANGED <<verdict, about, row, logged, sent>>,
             phase # "effected", phase' # "effected"
      PROVE  RowInv'
  <2>1. \A d \in Decisions : ~Parked(d)'
    BY <1>n DEF Parked
  <2>2. Raised' = Raised /\ \A c : Out(c)' = Out(c)
    BY <1>n DEF Raised, Out
  <2> QED BY <1>n, <2>1, <2>2 DEF RowInv
<1>1. CASE Think
  <2>1. step' # <<>> /\ phase' = "acting"
    <3>1. saved + 1 \in 1 .. Len(Script)
      BY <1>0, <1>1, Constants DEF Think, TypeOK
    <3>2. Script[saved + 1] # <<>>
      BY <1>h, <1>0, <3>1, SingleStep
    <3> QED BY <1>0, <1>1, <3>2 DEF Think, Goto
  <2> QED BY <1>1, <1>k, <2>1 DEF Think, decisions, index, history, Handled
<1>2. CASE Checkpoint
  <2>1. /\ Handled /\ phase = "acting" /\ phase' = "thinking"
        /\ UNCHANGED <<verdict, about, row, logged, sent>>
    BY <1>2 DEF Checkpoint, Handled, Goto, decisions, index, history
  <2>2. \A d \in Decisions : ~Parked(d)
    BY <2>1 DEF RowInv, IsDue
  <2> QED BY <1>n, <2>1, <2>2
<1>3. ASSUME phase = "acting", step # <<>>, Closed(Call) \/ Call \notin Gated,
             NEW d \in Decisions, Parked(d)
      PROVE  FALSE
  <2>1. Live(d) /\ about[d] \in Gated /\ about[d] = Due
    BY <1>3 DEF RowInv, IsDue
  <2> QED BY <1>d, <1>3, <2>1, NoneOpen
<1>4. CASE Deny \/ Decline
  <2>1. /\ phase = "acting" /\ step # <<>> /\ (Closed(Call) \/ Call \notin Gated)
        /\ UNCHANGED <<verdict, about, row, logged, sent>> /\ phase' = "acting"
    BY <1>4, Constants DEF Deny, Decline, decisions, index, history, Goto
  <2> QED BY <1>3, <1>n, <2>1
\* A decision is raised; the message, if there is one, is parked on it.
<1>5. ASSUME NEW reason, Raise(reason), phase \in {"acting", "open"}, step # <<>>,
             reason = "gate" => Call \in Gated /\ \A d \in Decisions : ~Parked(d),
             UNCHANGED <<saved, consumed, logged, sent>>
      PROVE  RowInv'
  <2>1. PICK d \in Decisions :
           /\ verdict[d] = "none" /\ verdict'[d] = "pending" /\ about'[d] = Call
           /\ row'[d] = IF reason = "gate" /\ Call \in External THEN "pending_approval"
                        ELSE row[d]
           /\ \A e \in Decisions \ {d} :
                verdict'[e] = verdict[e] /\ about'[e] = about[e] /\ row'[e] = row[e]
           /\ phase' = "parked"
    BY <1>0, <1>5, RaiseEffect
  <2>2. row[d] = "none" /\ d \notin Raised
    BY <2>1 DEF RowInv, Raised
  <2>3. \A e \in Decisions \ {d} : /\ Live(e)' = Live(e) /\ (IsDue(e) => IsDue(e)')
                                   /\ Parked(e)' = Parked(e)
    BY <1>5, <2>1 DEF Live, IsDue, Due, Handled, Parked
  <2>4. Parked(d)' => reason = "gate" /\ Call \in External
    BY <2>1, <2>2 DEF Parked
  <2>5. Live(d)' /\ IsDue(d)'
    BY <1>0, <1>5, <1>d, <2>1 DEF Live, IsDue, Due, Handled, PendingInv, Acting, InCall
  <2>6. \A c : Out(c)' = Out(c)
    <3>1. Raised' = Raised \cup {d}
      BY <2>1 DEF Raised
    <3>2. row'[d] # "sent"
      BY <2>1, <2>2
    <3>3. \A e \in Raised : e \in Decisions \ {d}
      BY <2>2 DEF Raised
    <3> QED BY <2>1, <2>2, <3>1, <3>2, <3>3 DEF Out
  <2>7. \A e \in Decisions : row'[e] # "none" => e \in Raised'
    BY <2>1 DEF RowInv, Raised
  <2>8. \A e \in Decisions : Parked(e)' =>
           Live(e)' /\ IsDue(e)' /\ about'[e] \in Gated \cap External
    BY <1>5, <2>1, <2>3, <2>4, <2>5 DEF RowInv
  <2>9. \A e, g \in Decisions : Parked(e)' /\ Parked(g)' => e = g
    BY <1>5, <2>3, <2>4 DEF RowInv
  <2> QED BY <1>5, <2>1, <2>6, <2>7, <2>8, <2>9 DEF RowInv
<1>6. CASE Ask
  BY <1>3, <1>5, <1>6 DEF Ask, Closed, history
<1>7. CASE Overdraw
  BY <1>0, <1>5, <1>7 DEF Overdraw, history, TypeOK
<1>8. CASE Pass
  BY <1>8, <1>k DEF Pass, Goto, decisions, index, history, Handled
<1>9. CASE Effect
  <2>1. /\ phase = "open" /\ phase' = "effected" /\ step' = step
        /\ sent' = [sent EXCEPT ![Due] = @ + 1]
        /\ UNCHANGED <<saved, verdict, about, consumed, row, logged>>
        /\ Due \in Calls
    BY <1>0, <1>9, <1>d DEF Effect, Goto, decisions, index, PendingInv, Acting, InCall
  <2>2. \A d \in Decisions : /\ Live(d)' = Live(d) /\ (IsDue(d) => IsDue(d)')
                             /\ Parked(d)' = Parked(d)
    BY <2>1 DEF Live, IsDue, Due, Handled, Parked
  <2>3. Raised' = Raised /\ Due' = Due /\ \A c : Out(c)' = Out(c)
    BY <2>1 DEF Raised, Out, Due
  <2>4. ASSUME NEW c \in External
        PROVE  logged[c] + Cardinality(Out(c)) + (IF c = Due THEN 1 ELSE 0) = sent'[c]
    <3>1. /\ logged[c] \in Nat /\ sent[c] \in Nat
          /\ logged[c] + Cardinality(Out(c)) = sent[c]
      BY <1>0, <1>f, <2>1, Constants DEF TypeOK, RowInv
    <3>2. sent'[c] = sent[c] + IF c = Due THEN 1 ELSE 0
      BY <1>0, <2>1, <3>1, Constants DEF TypeOK
    <3> QED BY <1>f, <3>1, <3>2
  <2> QED BY <2>1, <2>2, <2>3, <2>4 DEF RowInv
<1>10. CASE CommitCall
  <2>1. /\ phase = "effected" /\ phase' = "acting" /\ Finalize("sent")
        /\ UNCHANGED <<saved, verdict, about, sent>> /\ Call = Due /\ Due \in Calls
    BY <1>0, <1>10, <1>d DEF CommitCall, Goto, history, PendingInv, Acting, InCall
  <2>2. \A d \in Decisions : Parked(d) => d \in ParkedRows(Due) /\ Due \in External
    BY DEF RowInv, IsDue, Parked, ParkedRows
  <2>3. \A c \in External : /\ logged[c] \in Nat /\ sent[c] \in Nat
                            /\ logged[c] + Cardinality(Out(c)) + (IF c = Due THEN 1 ELSE 0)
                                 = sent[c]
    BY <1>0, <2>1, Constants DEF TypeOK, RowInv
  <2>4. Raised' = Raised
    BY <2>1 DEF Raised
  <2>e. ASSUME \A c \in External : logged'[c] + Cardinality(Out(c)') = sent[c],
               \A c \in External : Cardinality(Out(c)') \in Nat,
               \A d \in Decisions : ~Parked(d)',
               \A d \in Decisions : row'[d] # "none" => d \in Raised'
        PROVE  RowInv'
    <3>1. \A c \in External : logged'[c] + Cardinality(Out(c)') + 0 = sent[c]
      <4>1. \A c \in External : sent[c] \in Nat
        BY <2>3
      <4> QED BY <2>e, <4>1
    <3> QED BY <2>1, <2>e, <3>1 DEF RowInv
  <2>5. CASE Due \notin External
    <3>1. UNCHANGED index /\ \A d \in Decisions : ~Parked(d)
      BY <2>1, <2>2, <2>5 DEF Finalize
    <3>2. (\A c : Out(c)' = Out(c)) /\ \A d \in Decisions : ~Parked(d)'
      BY <2>1, <2>4, <3>1 DEF Out, Parked, index
    <3>3. \A c \in External : logged'[c] + Cardinality(Out(c)') = sent[c]
      BY <1>f, <2>3, <2>5, <3>1, <3>2 DEF index
    <3> QED BY <1>f, <2>e, <2>4, <3>1, <3>2, <3>3 DEF RowInv, index
  <2>6. CASE Due \in External /\ ParkedRows(Due) = {}
    <3>1. logged' = [logged EXCEPT ![Due] = @ + 1] /\ row' = row
      BY <2>1, <2>6 DEF Finalize
    <3>2. (\A c : Out(c)' = Out(c)) /\ \A d \in Decisions : ~Parked(d)'
      BY <2>1, <2>2, <2>4, <2>6, <3>1 DEF Out, Parked
    <3>3. \A c \in External : logged'[c] + Cardinality(Out(c)) = sent[c]
      <4>1. \A c \in External : logged'[c] = logged[c] + IF c = Due THEN 1 ELSE 0
        BY <1>0, <2>3, <3>1, Constants DEF TypeOK
      <4> QED BY <1>f, <2>3, <4>1
    <3> QED BY <1>f, <2>e, <2>4, <3>1, <3>2, <3>3 DEF RowInv
  <2>7. CASE Due \in External /\ ParkedRows(Due) # {}
    <3>1. PICK d \in ParkedRows(Due) : TRUE
      BY <2>7
    <3>2. d \in Decisions /\ d \in Raised /\ Parked(d) /\ about[d] = Due /\ d \in Nat
      BY <3>1, Constants DEF ParkedRows, Parked, RowInv, IsDue, Raised
    <3>3. ParkedRows(Due) = {d}
      BY <3>1, <3>2 DEF ParkedRows, Parked, RowInv, Raised
    <3>4. Oldest(ParkedRows(Due)) = d
      BY <3>2, <3>3 DEF Oldest
    <3>5. row' = [row EXCEPT ![d] = "sent"] /\ logged' = logged
      BY <2>1, <2>7, <3>4 DEF Finalize
    <3>6. row'[d] = "sent" /\ \A e \in Decisions \ {d} : row'[e] = row[e]
      BY <1>0, <3>2, <3>5 DEF TypeOK
    <3>7. \A e \in Decisions : ~Parked(e)'
      BY <3>2, <3>6 DEF Parked, RowInv
    <3>q. PICK q \in External : q = Due
      BY <2>7
    <3>8. d \notin Out(q) /\ Out(q)' = Out(q) \cup {d}
          /\ \A c \in External \ {q} : Out(c)' = Out(c)
      <4>1. row[d] = "pending_approval"
        BY <3>2 DEF Parked
      <4>2. \A e \in Raised : row'[e] = "sent" <=> row[e] = "sent" \/ e = d
        BY <3>6 DEF Raised
      <4>3. \A c : Out(c)' = {e \in Raised : about[e] = c /\ row'[e] = "sent"}
        BY <2>1, <2>4 DEF Out
      <4>4. d \notin Out(q)
        BY <4>1 DEF Out
      <4>5. Out(q)' = Out(q) \cup {d}
        BY ONLY <3>2, <3>q, <4>2, <4>3 DEF Out
      <4>6. \A c \in External \ {q} : Out(c)' = Out(c)
        BY ONLY <3>2, <3>q, <4>2, <4>3 DEF Out
      <4> QED BY <4>4, <4>5, <4>6
    <3>9. Cardinality(Out(q)') = Cardinality(Out(q)) + 1
      BY <1>f, <3>8, FS_AddElement
    <3>10. \A c \in External : logged[c] + Cardinality(Out(c)') = sent[c]
      <4>1. logged[q] + Cardinality(Out(q)') = sent[q]
        BY <1>f, <2>3, <3>q, <3>9
      <4>2. \A c \in External \ {q} : logged[c] + Cardinality(Out(c)') = sent[c]
        BY <1>f, <2>3, <3>q, <3>8
      <4> QED BY <4>1, <4>2
    <3>11. \A e \in Decisions : row'[e] # "none" => e \in Raised'
      BY <2>4, <3>2, <3>6 DEF RowInv
    <3>12. \A c \in External : Cardinality(Out(c)') \in Nat
      <4>1. Cardinality(Out(q)') \in Nat
        BY <1>f, <3>9
      <4>2. \A c \in External \ {q} : Cardinality(Out(c)') \in Nat
        BY <1>f, <3>8
      <4> QED BY <4>1, <4>2
    <3> QED BY <2>e, <3>5, <3>7, <3>10, <3>11, <3>12
  <2> QED BY <2>5, <2>6, <2>7
<1>11. ~ (ReportError \/ Bungle \/ Interrupt)
  BY <1>0 DEF ReportError, Bungle, Interrupt
<1>12. ASSUME NEW d \in Decisions, NEW v \in {"approved", "rejected"}, Resolve(d, v)
       PROVE  RowInv'
  <2>1. /\ verdict[d] = "pending" /\ phase = "parked" /\ phase' = "thinking"
        /\ verdict' = [verdict EXCEPT ![d] = v]
        /\ row' = [row EXCEPT ![d] = IF v = "rejected" /\ @ = "pending_approval"
                                     THEN "rejected" ELSE @]
        /\ UNCHANGED <<saved, about, consumed, logged, sent>>
    BY <1>12, ResolveType DEF Resolve
  <2>2. /\ verdict'[d] = v /\ \A e \in Decisions \ {d} : verdict'[e] = verdict[e]
        /\ row'[d] = IF v = "rejected" /\ row[d] = "pending_approval" THEN "rejected" ELSE row[d]
        /\ \A e \in Decisions \ {d} : row'[e] = row[e]
    BY <1>0, <2>1 DEF TypeOK
  <2>3. Raised' = Raised
    BY <2>1, <2>2 DEF Raised
  <2>4. \A e \in Decisions : Parked(e)' => Parked(e) /\ (Live(e) => Live(e)')
    BY <2>1, <2>2 DEF Parked, Live
  <2>5. \A e \in Decisions : IsDue(e) => IsDue(e)'
    BY <2>1 DEF IsDue, Handled, Due
  <2>6. \A c : Out(c)' = Out(c)
    BY <2>1, <2>2, <2>3 DEF Out, Raised
  <2>7. \A e \in Decisions : row'[e] # "none" => e \in Raised'
    BY <2>2, <2>3 DEF RowInv
  <2> QED BY <2>1, <2>4, <2>5, <2>6, <2>7 DEF RowInv
<1>13. CASE (\E d \in Decisions : Age(d) \/ DeclineOther(d)) \/ UNCHANGED vars
  BY <1>13, <1>k DEF Age, DeclineOther, history, vars, index, Handled
<1> QED BY <1>1, <1>2, <1>4, <1>6, <1>7, <1>8, <1>9, <1>10, <1>11, <1>12, <1>13 DEF Next, Act

IndexInv == Indexing => RowInv

LEMMA IndexInvariant == Spec => [](GateInv /\ SteadyInv /\ IndexInv)
<1>1. Init => IndexInv
  <2> SUFFICES ASSUME Init PROVE RowInv
    BY DEF IndexInv
  <2>1. \A d \in Decisions : row[d] = "none" /\ d \notin Raised
    BY DEF Init, Raised
  <2>2. \A c : Out(c) = {}
    BY <2>1 DEF Out, Raised
  <2>3. \A c \in External : sent[c] = 0 /\ logged[c] = 0
    BY Constants DEF Init
  <2>4. \A c \in External : logged[c] + Cardinality(Out(c)) + 0 = sent[c]
    BY <2>2, <2>3, FS_EmptySet
  <2>5. phase # "effected" /\ \A d \in Decisions : ~Parked(d)
    BY <2>1 DEF Init, Parked
  <2> QED BY <2>1, <2>4, <2>5 DEF RowInv
<1>2. GateInv /\ SteadyInv /\ IndexInv /\ [Next]_vars => IndexInv'
  <2> SUFFICES ASSUME GateInv, SteadyInv, IndexInv, [Next]_vars, Indexing PROVE RowInv'
    BY HappensKept DEF IndexInv, Indexing, Only
  <2>1. Steady /\ Steady'
    BY HappensKept DEF Indexing, Steady, Only
  <2>2. StepInv /\ StepInv'
    BY <2>1, SteadyStep DEF SteadyInv
  <2> QED BY <2>2, RowStep DEF IndexInv
<1> QED BY <1>1, <1>2, SteadyInvariant, PTL DEF Spec

\* Every message that left has one row that says so, its own, also when an approval of
\* something else, or one that a budget decision left over, let it pass.
THEOREM IndexIsComplete == Spec => []IndexComplete
<1>1. GateInv /\ IndexInv => IndexComplete
  <2> SUFFICES ASSUME TypeOK, RowInv, phase # "effected", NEW c \in External
               PROVE  logged[c] + Cardinality(Out(c)) = sent[c]
    BY DEF GateInv, IndexInv, Indexing, IndexComplete, Out
  <2>1. IsFiniteSet(Out(c)) /\ Cardinality(Out(c)) \in Nat /\ logged[c] \in Nat
    BY Constants, FS_Subset, FS_CardinalityType DEF Out, Raised, TypeOK
  <2> QED BY <2>1 DEF RowInv
<1> QED BY <1>1, IndexInvariant, PTL
=============================================================================
