---------------------------- MODULE ApprovalGate ----------------------------
(***************************************************************************)
(* The tool calls of one task (runtime/backends/native.py: the act half of    *)
(* the loop and _handle_call): the governance gate in front of them, the       *)
(* founder's approvals that open it (runtime/tools/base.py), the index of what  *)
(* was sent out (services/external_messages.py) and the checkpoint from which  *)
(* a parked or interrupted task goes on.                                     *)
(*                                                                         *)
(* The model answers with a step: a sequence of calls, handled in order, each  *)
(* in a transaction of its own.  The step is checkpointed when all of them are  *)
(* handled; a task that comes back before that answers anew.                  *)
(***************************************************************************)
EXTENDS Integers, Sequences, FiniteSets, Functions

CONSTANTS
    Calls,          \* the calls the task may make: a tool and its arguments
    ToolOf,         \* [Calls -> tools]
    Gated,          \* the calls a policy requires approval for
    Denied,         \* the calls a policy denies
    Priced,         \* the calls that spend money
    External,       \* the calls that send a message out of the company, each to a
                    \* channel and recipient of its own
    Script,         \* Script[n]: what a model that answers the same history alike
                    \* answers as its n-th step
    Recall,         \* how many of the company's declined messages the gate recalls
                    \* (the limit in recently_rejected_outbound)
    MaxDecisions,   \* bound: decisions raised
    MaxOthers,      \* bound: other tasks' messages declined while a decision is recent
    MaxSent,        \* bound: times one call takes effect
    MaxInterrupts,  \* bound: interruptions
    Scenarios       \* the sets of Events that may happen together

Events ==
    {"interrupted",  \* the execution dies or raises, and the task is run again
     "strays",       \* the model answers the same history with another call
     "batches",      \* ... or makes one more in the same step
     "over_budget",  \* a priced call exceeds the budget
     "bungled",      \* a tool raises on its arguments, or reports an error
     "late_answer",  \* the founder answers after the cooldown
     "others_declined"} \* messages of other tasks, to other targets, are declined

ASSUME CallsAssumption ==
    /\ Gated \subseteq Calls
    /\ Denied \subseteq Calls \ Gated
    /\ Priced \subseteq Calls
    /\ External \subseteq Calls
    /\ Calls # {}
    /\ DOMAIN ToolOf = Calls
\* No metered tool sends a message: what the marketing tools cost is not reserved.
ASSUME PricedAssumption == Priced \cap External = {}
ASSUME ScriptAssumption == Script \in Seq(Seq(Calls))
ASSUME BoundsAssumption == {Recall, MaxDecisions, MaxOthers, MaxSent, MaxInterrupts} \subseteq Nat
ASSUME EventsAssumption == Scenarios \subseteq SUBSET Events

Decisions == 1 .. MaxDecisions

VARIABLES
    saved,       \* the steps in the checkpointed transcript
    phase,       \* where the task stands
    step,        \* the calls of the step that are left to handle
    grant,       \* the decision consumed in the open transaction; 0 for none
    verdict,     \* verdict[d]: the status of decision d; "none" before it is raised
    about,       \* about[d]: the call it was raised for (payload.tool, payload.args)
    why,         \* why[d]: "gate" or "budget"
    consumed,    \* the decisions that have payload.consumed
    recent,      \* the decisions created within the cooldown
    newer,       \* newer[d]: other tasks' messages that were put to the founder after d,
                 \* and are declined
    row,         \* row[d]: the indexed message that was parked on d
    logged,      \* logged[c]: the messages indexed as sent without having parked
    interrupts,  \* interruptions so far
    sent,        \* history: sent[c], how often c has taken effect
    approved,    \* history: approved[c], how often the founder has approved it
    declined,    \* history: what the founder has declined within the cooldown
    happens      \* what may happen in this behaviour: one of Scenarios

decisions == <<verdict, about, why, consumed, recent, newer>>
index == <<row, logged>>
history == <<sent, approved, declined>>
vars == <<saved, phase, step, grant, verdict, about, why, consumed, recent, newer, row, logged,
          interrupts, sent, approved, declined, happens>>

Phases ==
    {"thinking",  \* about to ask the model for a step
     "acting",    \* between two calls of the step
     "open",      \* a call passed the gate: its transaction is open
     "effected",  \* it has taken effect, and its transaction is open
     "parked"}    \* on a decision

Call == Head(step)
Raised == {d \in Decisions : verdict[d] # "none"}
Goto(p, s) == phase' = p /\ step' = s

Init ==
    /\ saved = 0
    /\ phase = "thinking"
    /\ step = <<>>
    /\ grant = 0
    /\ verdict = [d \in Decisions |-> "none"]
    /\ about = [d \in Decisions |-> CHOOSE c \in Calls : TRUE]
    /\ why = [d \in Decisions |-> "gate"]
    /\ consumed = {}
    /\ recent = {}
    /\ newer = [d \in Decisions |-> 0]
    /\ row = [d \in Decisions |-> "none"]
    /\ logged = [c \in Calls |-> 0]
    /\ interrupts = 0
    /\ sent = [c \in Calls |-> 0]
    /\ approved = [c \in Calls |-> 0]
    /\ declined = {}
    /\ happens \in Scenarios

-----------------------------------------------------------------------------
(* The step.                                                                *)

\* What is rolled back with the transaction that is open, if any.
RollBack == grant' = 0

\* The model answers.
Think ==
    /\ phase = "thinking"
    /\ saved < Len(Script)
    /\ \/ Goto("acting", Script[saved + 1])
       \/ "strays" \in happens /\ \E c \in Calls : Goto("acting", <<c>>)
       \/ /\ "batches" \in happens
          /\ \E c \in Calls : Goto("acting", Append(Script[saved + 1], c))
    /\ UNCHANGED <<saved, grant, decisions, index, interrupts, history, happens>>

\* Mutated: the transcript is not saved at the end of the step.
Checkpoint_NotSaved ==
    /\ phase = "acting"
    /\ step = <<>>
    /\ Goto("thinking", <<>>)
    /\ UNCHANGED <<saved, grant, decisions, index, interrupts, history, happens>>

\* All calls are handled: the transcript is saved.
Checkpoint ==
    /\ phase = "acting"
    /\ step = <<>>
    /\ saved' = saved + 1
    /\ Goto("thinking", <<>>)
    /\ UNCHANGED <<grant, decisions, index, interrupts, history, happens>>

-----------------------------------------------------------------------------
(* The gate.                                                                *)

\* What consume_approval_grant accepts for a call: it compares the tool alone.
Grants(c) ==
    {d \in Raised \ consumed : verdict[d] = "approved" /\ ToolOf[about[d]] = ToolOf[c]}

\* What consume_rejection_grant accepts: it compares the arguments too.
Rejections(c) == {d \in Raised \ consumed : verdict[d] = "rejected" /\ about[d] = c}

\* Declined messages, and how many the company's newer ones are.
DeclinedMessage(d) == verdict[d] = "rejected" /\ why[d] = "gate" /\ about[d] \in External
Newer(d) == newer[d] + Cardinality({e \in recent : e > d /\ DeclinedMessage(e)})

\* Mutated: the memory of a declined message ends when the task has been told.
RecentlyRejected_Once(c) ==
    \E d \in recent \ consumed :
      DeclinedMessage(d) /\ about[d] = c /\ Newer(d) < Recall

\* recently_rejected_outbound: the cooldown counts from the decision's creation, and the
\* newest declined messages of the company are looked through.
RecentlyRejected(c) ==
    \E d \in recent : DeclinedMessage(d) /\ about[d] = c /\ Newer(d) < Recall

Closed(c) == c \in Gated /\ Grants(c) = {}

\* A policy denies the call: the attempt is recorded as blocked, the model is told.
Deny ==
    /\ phase = "acting" /\ step # <<>>
    /\ Call \in Denied
    /\ Goto("acting", Tail(step))
    /\ UNCHANGED <<saved, grant, decisions, index, interrupts, history, happens>>

\* The call was declined: the model is told.
Decline ==
    /\ phase = "acting" /\ step # <<>>
    /\ Closed(Call)
    /\ \/ \E d \in Rejections(Call) : consumed' = consumed \cup {d}
       \/ Rejections(Call) = {} /\ RecentlyRejected(Call) /\ UNCHANGED consumed
    /\ Goto("acting", Tail(step))
    /\ UNCHANGED <<saved, grant, verdict, about, why, recent, newer, index, interrupts, history, happens>>

\* A decision is raised, and the task parked on it.
Raise(reason) ==
    \E d \in Decisions :
      /\ verdict[d] = "none" /\ \A e \in 1 .. d-1 : e \in Raised
      /\ verdict' = [verdict EXCEPT ![d] = "pending"]
      /\ about' = [about EXCEPT ![d] = Call]
      /\ why' = [why EXCEPT ![d] = reason]
      /\ recent' = recent \cup {d}
      /\ row' = [row EXCEPT ![d] = IF reason = "gate" /\ Call \in External
                                   THEN "pending_approval" ELSE @]
      /\ Goto("parked", <<>>)

\* Nobody has spoken: the founder is asked, and the message indexed.
Ask ==
    /\ phase = "acting" /\ step # <<>>
    /\ Closed(Call) /\ Rejections(Call) = {} /\ ~ RecentlyRejected(Call)
    /\ Raise("gate")
    /\ UNCHANGED <<saved, grant, consumed, newer, logged, interrupts, history, happens>>

\* The call passes: no policy stops it, or a grant is consumed in its transaction.
Pass ==
    /\ phase = "acting" /\ step # <<>>
    /\ Call \notin Denied /\ ~ Closed(Call)
    /\ IF Call \in Gated THEN grant' \in Grants(Call) ELSE grant' = 0
    /\ Goto("open", step)
    /\ UNCHANGED <<saved, decisions, index, interrupts, history, happens>>

-----------------------------------------------------------------------------
(* The call.                                                                *)

\* BudgetExceeded: the transaction is rolled back, the grant with it, and the
\* founder asked for the headroom.
Overdraw ==
    /\ "over_budget" \in happens
    /\ phase = "open"
    /\ Call \in Priced
    /\ Raise("budget")
    /\ grant' = 0
    /\ UNCHANGED <<saved, consumed, newer, logged, interrupts, history, happens>>

\* The tool does what it is for, outside any transaction.
Effect ==
    /\ phase = "open"
    /\ sent[Call] < MaxSent
    /\ sent' = [sent EXCEPT ![Call] = @ + 1]
    /\ Goto("effected", step)
    /\ UNCHANGED <<saved, grant, decisions, index, interrupts, approved, declined,
                   happens>>

\* The parked messages of the call's tool, and the oldest of them.
ParkedRows(c) ==
    {d \in Raised : row[d] = "pending_approval" /\ ToolOf[about[d]] = ToolOf[c]}
Oldest(S) == CHOOSE d \in S : \A e \in S : d <= e

\* Mutated: the outcome is always indexed anew, and the parked row too.
Finalize_Twice(outcome) ==
    /\ logged' = [logged EXCEPT ![Call] = @ + 1]
    /\ row' = [d \in Decisions |->
                 IF Call \in External /\ d \in ParkedRows(Call) THEN outcome ELSE row[d]]

\* ext.finalize: the oldest parked message of the tool is moved to its outcome; a
\* message that was never parked is indexed now.
Finalize(outcome) ==
    IF Call \notin External THEN UNCHANGED index
    ELSE IF ParkedRows(Call) # {}
    THEN /\ row' = [row EXCEPT ![Oldest(ParkedRows(Call))] = outcome]
         /\ UNCHANGED logged
    ELSE /\ logged' = [logged EXCEPT ![Call] = IF outcome = "sent" THEN @ + 1 ELSE @]
         /\ UNCHANGED row

\* Mutated: the grant is used without being marked.
CommitCall_NotConsumed ==
    /\ phase = "effected"
    /\ grant' = 0
    /\ Finalize("sent")
    /\ Goto("acting", Tail(step))
    /\ UNCHANGED <<saved, decisions, interrupts, history, happens>>

\* The call's transaction is committed.
CommitCall ==
    /\ phase = "effected"
    /\ consumed' = consumed \cup ({grant} \ {0})
    /\ grant' = 0
    /\ Finalize("sent")
    /\ Goto("acting", Tail(step))
    /\ UNCHANGED <<saved, verdict, about, why, recent, newer, interrupts, history, happens>>

\* The tool reports an error: the grant is consumed all the same.
ReportError ==
    /\ "bungled" \in happens
    /\ phase = "open"
    /\ consumed' = consumed \cup ({grant} \ {0})
    /\ grant' = 0
    /\ Finalize("failed")
    /\ Goto("acting", Tail(step))
    /\ UNCHANGED <<saved, verdict, about, why, recent, newer, interrupts, history, happens>>

\* The tool raises on its arguments or on an answer it cannot read: execute_tool
\* rolls the transaction back, and the call goes on as failed.
Bungle ==
    /\ "bungled" \in happens
    /\ phase \in {"open", "effected"}
    /\ RollBack
    /\ Finalize("failed")
    /\ Goto("acting", Tail(step))
    /\ UNCHANGED <<saved, decisions, interrupts, sent, approved, declined, happens>>

-----------------------------------------------------------------------------
(* The founder, time, and interruptions.                                     *)

\* Mutated: the task stays parked when its decision is resolved.
Resolve_NotResumed(d, v) ==
    /\ verdict[d] = "pending"
    /\ d \in recent \/ "late_answer" \in happens
    /\ verdict' = [verdict EXCEPT ![d] = v]
    /\ approved' = [approved EXCEPT ![about[d]] = IF v = "approved" THEN @ + 1 ELSE @]
    /\ declined' = IF v = "rejected" THEN declined \cup {about[d]} ELSE declined \ {about[d]}
    /\ UNCHANGED <<saved, phase, step, grant, about, why, consumed, recent, newer, index,
                   interrupts, sent, happens>>

\* resolve_decision: the task comes back, and answers from its checkpoint.
Resolve(d, v) ==
    /\ verdict[d] = "pending"
    /\ d \in recent \/ "late_answer" \in happens
    /\ verdict' = [verdict EXCEPT ![d] = v]
    /\ row' = [row EXCEPT ![d] = IF v = "rejected" /\ @ = "pending_approval"
                                 THEN "rejected" ELSE @]
    /\ IF phase = "parked" THEN Goto("thinking", <<>>) ELSE UNCHANGED <<phase, step>>
    /\ approved' = [approved EXCEPT ![about[d]] = IF v = "approved" THEN @ + 1 ELSE @]
    /\ declined' = IF v = "rejected" THEN declined \cup {about[d]} ELSE declined \ {about[d]}
    /\ UNCHANGED <<saved, grant, about, why, consumed, recent, newer, logged, interrupts, sent,
                   happens>>

\* What the founder has declined when asked again after d.
StillDeclined(d) == {about[e] : e \in {e \in recent \ {d} : verdict[e] = "rejected"}}

\* The cooldown from a decision's creation is over.  The one from its verdict, which
\* came later, is over later still.
Age(d) ==
    /\ d \in recent /\ \A e \in recent : d <= e
    /\ verdict[d] = "pending" => "late_answer" \in happens
    /\ recent' = recent \ {d}
    /\ declined' \in {declined \ ({about[d]} \ StillDeclined(d))} \cup
                     (IF "late_answer" \in happens THEN {declined} ELSE {})
    /\ UNCHANGED <<saved, phase, step, grant, verdict, about, why, consumed, newer, index,
                   interrupts, sent, approved, happens>>

\* The founder declines a message of another task, put to him after d and before the next.
DeclineOther(d) ==
    LET before == {e \in recent : e <= d}
    IN /\ "others_declined" \in happens
       /\ d \in recent
       /\ \A e \in before : newer[e] < MaxOthers
       /\ newer' = [e \in Decisions |-> IF e \in before THEN newer[e] + 1 ELSE newer[e]]
       /\ UNCHANGED <<saved, phase, step, grant, verdict, about, why, consumed, recent, index,
                      interrupts, history, happens>>

\* The execution dies, or raises and is retried: what was not committed is gone.
Interrupt ==
    /\ "interrupted" \in happens
    /\ interrupts < MaxInterrupts
    /\ phase # "parked"
    /\ interrupts' = interrupts + 1
    /\ RollBack
    /\ Goto("thinking", <<>>)
    /\ UNCHANGED <<saved, decisions, index, sent, approved, declined, happens>>

Act == Checkpoint \/ Deny \/ Decline \/ Ask \/ Pass \/ Overdraw \/ Effect \/ CommitCall
         \/ ReportError \/ Bungle

Next ==
    \/ Think \/ Act
    \/ \E d \in Decisions :
         Age(d) \/ DeclineOther(d) \/ \E v \in {"approved", "rejected"} : Resolve(d, v)
    \/ Interrupt

Spec == Init /\ [][Next]_vars

\* The worker goes on with the task whenever it is not parked; nothing forces the
\* founder.
FairSpec == Spec /\ WF_vars(Think) /\ WF_vars(Act)

-----------------------------------------------------------------------------
(* Properties.                                                              *)

\* The variables stay within their types and bounds; a grant is held just while a
\* transaction of a gated call is open.
TypeOK ==
    /\ saved \in 0 .. Len(Script)
    /\ phase \in Phases
    /\ step \in Seq(Calls)
    /\ phase \in {"open", "effected"} => step # <<>> /\ (grant # 0 <=> Call \in Gated)
    /\ phase \notin {"open", "effected"} => grant = 0
    /\ grant \in Decisions \cup {0}
    /\ verdict \in [Decisions -> {"none", "pending", "approved", "rejected"}]
    /\ about \in [Decisions -> Calls]
    /\ why \in [Decisions -> {"gate", "budget"}]
    /\ consumed \subseteq Decisions
    /\ recent \subseteq Decisions
    /\ newer \in [Decisions -> Nat]
    /\ row \in [Decisions -> {"none", "pending_approval", "rejected", "sent", "failed"}]
    /\ logged \in [Calls -> Nat]
    /\ interrupts \in 0 .. MaxInterrupts
    /\ sent \in [Calls -> 0 .. MaxSent]
    /\ approved \in [Calls -> Nat]
    /\ declined \subseteq Calls
    /\ happens \in Scenarios

\* Nothing else happens to the task, and the model makes its calls one at a time.
Only(these) ==
    /\ happens \subseteq these \cup {"others_declined"}
    /\ \A n \in 1 .. Len(Script) : Len(Script[n]) = 1

\* What a policy requires approval for, or denies, goes out as often as the founder
\* has approved it, at most: parking, resuming, declining and replaying never let a
\* call through on an approval of something else or one that is used up (the gate of
\* _handle_call).
EveryGatedCallApproved ==
    Only({"late_answer"}) => \A c \in Gated \cup Denied : sent[c] <= approved[c]

\* A call is made as often as the model's steps name it: a task that parks and
\* resumes does not redo what it has done (_resume_or_seed) ...
Naming(c, m) ==
    UNION {{n} \X {i \in DOMAIN Script[n] : Script[n][i] = c} : n \in 1 .. m}
TimesIn(c) == Cardinality(Naming(c, Len(Script)))
DoneOnce == \A c \in Calls : sent[c] <= TimesIn(c)

\* ... when it makes one call a step and keeps to its steps.
NotRedone == Only({"over_budget", "bungled", "late_answer"}) => DoneOnce

\* Every message that left has its row in the index, and every row its message
\* (external_messages.finalize).
IndexComplete ==
    Only({"over_budget", "late_answer"}) /\ phase # "effected" =>
      \A c \in External :
        logged[c] + Cardinality({d \in Raised : about[d] = c /\ row[d] = "sent"}) = sent[c]

\* For the cooldown from his answer the founder is not asked for a message again that he
\* declined (founder_rejection_cooldown_minutes), if he answered within the cooldown from
\* the question, and until Recall messages that were put to him later are declined.
PushedOut(c) ==
    \E d \in recent : DeclinedMessage(d) /\ about[d] = c /\ Newer(d) >= Recall
DeclineRemembered ==
    [][\A d \in Decisions :
         verdict[d] = "none" /\ verdict'[d] = "pending" =>
           \/ about'[d] \notin declined \cap External
           \/ PushedOut(about'[d])
           \/ "late_answer" \in happens]_vars

\* What the founder approves is done: the task that resumes comes to the call and
\* uses the grant, whatever interrupts it.
ApprovalIsUsed ==
    Only({"interrupted", "late_answer"}) =>
      \A d \in Decisions : verdict[d] = "approved" ~> d \in consumed
=============================================================================
