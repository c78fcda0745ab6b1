----------------------------- MODULE ChatRooms -----------------------------
(***************************************************************************)
(* Conversations between agents (services/chat.py, runtime/tools/chat.py): an  *)
(* agent posts into a channel or thread and may park until somebody else posts  *)
(* there; a conversation that reaches its message budget is paused until the     *)
(* CEO extends or ends it; a cron gives up on waits nobody answered.              *)
(*                                                                         *)
(* Every call is one transaction.  It reads the conversation, then the waits it  *)
(* will satisfy, and commits later, in the founder's case after the answer of a   *)
(* model: what others have not committed it does not see.                         *)
(***************************************************************************)
EXTENDS Integers, FiniteSets

CONSTANTS
    Agents,      \* the agents below the CEO, each with the one task it talks in
    Rooms,       \* conversations: channels, threads, direct messages of two agents
    NoRoom,      \* none of them
    Ceo,
    Founder,
    Budget,      \* message_budget of a new conversation
    More,        \* additional_messages of an extension
    MaxMessages, \* bound: messages in one conversation
    Scenarios    \* the sets of Events that may happen together

Events ==
    {"founder",    \* the founder posts too
     "ceo_quits",  \* a review ends without extend_chat_channel
     "no_ceo"}     \* the company has no active CEO

Posters == Agents \cup {Ceo, Founder}

ASSUME PostersAssumption == Ceo # Founder /\ Agents \cap {Ceo, Founder} = {}
ASSUME RoomsAssumption == NoRoom \notin Rooms
ASSUME BoundsAssumption == {Budget, More, MaxMessages} \subseteq Nat /\ More > 0
ASSUME EventsAssumption == Scenarios \subseteq SUBSET Events

VARIABLES
    count,    \* count[r]: the messages of conversation r
    budget,   \* budget[r]: message_budget
    paused,   \* escalation_pending
    closed,   \* archived
    reviews,  \* reviews[r]: the CEO's review tasks that have not ended
    wait,     \* wait[a][r]: the last chat_waits row of the task of a on r
    task,     \* task[a]: the row of a's task
    send,     \* send[p]: the transaction p is in
    happens   \* what may happen in this behaviour: one of Scenarios

talk == <<count, budget, closed>>
vars == <<count, budget, paused, closed, reviews, wait, task, send, happens>>

\* A transaction: its step, conversation and kind, whether its author will wait, what
\* it has read, the wait rows it will satisfy and the tasks it will queue.  "there" is
\* for the properties: the waits that were pending when it began.
NoSend == [at |-> "idle", room |-> NoRoom, does |-> "post", waits |-> FALSE,
           saw |-> FALSE, messages |-> 0, satisfies |-> {}, wakes |-> {}, there |-> {}]

TypeOK ==
    /\ count \in [Rooms -> Nat]
    /\ budget \in [Rooms -> Nat]
    /\ paused \in [Rooms -> BOOLEAN]
    /\ closed \in [Rooms -> BOOLEAN]
    /\ reviews \in [Rooms -> Nat]
    /\ wait \in [Agents -> [Rooms -> {"none", "pending", "satisfied", "consumed", "expired"}]]
    /\ task \in [Agents -> {"running", "parked", "queued", "failed"}]
    /\ send \in [Posters ->
                 [at : {"idle", "begun", "looked"}, room : Rooms \cup {NoRoom},
                  does : {"post", "escalate", "extend", "end"}, waits : BOOLEAN,
                  saw : BOOLEAN, messages : Nat, satisfies : SUBSET Agents,
                  wakes : SUBSET Agents, there : SUBSET Agents]]
    /\ \A p \in Posters : send[p].at # "idle" => send[p].room \in Rooms
    /\ happens \in Scenarios

Init ==
    /\ count = [r \in Rooms |-> 0]
    /\ budget = [r \in Rooms |-> Budget]
    /\ paused = [r \in Rooms |-> FALSE]
    /\ closed = [r \in Rooms |-> FALSE]
    /\ reviews = [r \in Rooms |-> 0]
    /\ wait = [a \in Agents |-> [r \in Rooms |-> "none"]]
    /\ task = [a \in Agents |-> "running"]
    /\ send = [p \in Posters |-> NoSend]
    /\ happens \in Scenarios

Waiters(r, p) == {a \in Agents \ {p} : wait[a][r] = "pending"}

\* A transaction of p on conversation r begins.
Open(p, r, does, waits, saw) ==
    send' = [send EXCEPT ![p] = [NoSend EXCEPT !.at = "begun", !.room = r, !.does = does,
                                               !.waits = waits, !.saw = saw,
                                               !.there = Waiters(r, p)]]

-----------------------------------------------------------------------------
(* An agent sends.                                                           *)

\* _post_and_maybe_wait up to the loop guard.  A paused conversation takes no post, a
\* full one is escalated, unless there is nobody to escalate to.
Begin(a, r, waits) ==
    /\ task[a] = "running"
    /\ send[a].at = "idle"
    /\ ~closed[r] /\ ~paused[r]
    /\ count[r] < MaxMessages
    /\ waits => wait[a][r] # "satisfied"
    /\ Open(a, r, IF count[r] >= budget[r] /\ "no_ceo" \notin happens
                  THEN "escalate" ELSE "post", waits, FALSE)
    /\ UNCHANGED <<talk, paused, reviews, wait, task, happens>>

\* The same send, run again after a reply: it hands over the replies and posts nothing.
Consume(a, r) ==
    /\ task[a] = "running"
    /\ send[a].at = "idle"
    /\ ~closed[r]
    /\ wait[a][r] = "satisfied"
    /\ wait' = [wait EXCEPT ![a][r] = "consumed"]
    /\ UNCHANGED <<talk, paused, reviews, task, send, happens>>

\* A post of the founder, through the API.
FounderBegins(r) ==
    /\ "founder" \in happens
    /\ send[Founder].at = "idle"
    /\ count[r] < MaxMessages
    /\ Open(Founder, r, "post", FALSE, FALSE)
    /\ UNCHANGED <<talk, paused, reviews, wait, task, happens>>

\* extend_chat_channel, in a review: to go on or to end it.
CeoBegins(r, does) ==
    /\ reviews[r] > 0
    /\ send[Ceo].at = "idle"
    /\ ~closed[r]
    /\ Open(Ceo, r, does, FALSE, paused[r])
    /\ UNCHANGED <<talk, paused, reviews, wait, task, happens>>

\* A review of a conversation that was closed meanwhile, or one without a ruling.
ReviewEnds(r) ==
    /\ reviews[r] > 0
    /\ closed[r] \/ "ceo_quits" \in happens
    /\ send[Ceo].at = "idle"
    /\ reviews' = [reviews EXCEPT ![r] = @ - 1]
    /\ UNCHANGED <<talk, paused, wait, task, send, happens>>

-----------------------------------------------------------------------------
(* Every post: post_message, and wake_channel_waiters of an escalation.          *)

\* Mutated: one waiter is woken.
Look_First(p) ==
    /\ send[p].at = "begun"
    /\ \E found \in SUBSET Waiters(send[p].room, p) :
        /\ Waiters(send[p].room, p) # {} => Cardinality(found) = 1
        /\ send' = [send EXCEPT ![p].at = "looked", ![p].satisfies = found,
                                ![p].wakes = found,
                                ![p].messages = IF p = Ceo THEN count[send[p].room] + 1 ELSE 0]
    /\ UNCHANGED <<talk, paused, reviews, wait, task, happens>>

\* The pending waits of others in this conversation, and how many messages it holds
\* with this one.
Look(p) ==
    LET found == Waiters(send[p].room, p)
    IN /\ send[p].at = "begun"
       /\ send' = [send EXCEPT ![p].at = "looked", ![p].satisfies = found,
                               ![p].wakes = {a \in found : task[a] \in {"parked", "running"}},
                               ![p].messages = IF p = Ceo THEN count[send[p].room] + 1 ELSE 0]
       /\ UNCHANGED <<talk, paused, reviews, wait, task, happens>>

\* Commit: the waits that were found are satisfied and their tasks queued, whatever has
\* become of them; the author may park.  A wait that replaces another is a new row, which
\* nobody else has found.
Settle(p) ==
    LET s == send[p]
        parks == s.waits /\ s.does = "post"
    IN /\ wait' = [a \in Agents |-> [r \in Rooms |->
                     IF r # s.room THEN wait[a][r]
                     ELSE IF a = p /\ parks THEN "pending"
                     ELSE IF a \in s.satisfies THEN "satisfied"
                     ELSE wait[a][r]]]
       /\ task' = [a \in Agents |->
                     IF a = p /\ parks THEN "parked"
                     ELSE IF a \in s.wakes THEN "queued" ELSE task[a]]
       /\ send' = [q \in Posters |->
                     IF q = p THEN NoSend
                     ELSE IF parks /\ send[q].room = s.room
                          THEN [send[q] EXCEPT !.satisfies = @ \ {p}, !.there = @ \ {p}]
                          ELSE send[q]]

\* A message is in.
Post(p) ==
    LET r == send[p].room
    IN /\ send[p].at = "looked"
       /\ send[p].does = "post"
       /\ count' = [count EXCEPT ![r] = @ + 1]
       /\ Settle(p)
       /\ UNCHANGED <<budget, closed, paused, reviews, happens>>

\* escalate_channel_to_ceo: the conversation is paused, a review is queued, and whoever
\* waited in it is freed.
Escalate(p) ==
    LET r == send[p].room
    IN /\ send[p].at = "looked"
       /\ send[p].does = "escalate"
       /\ paused' = [paused EXCEPT ![r] = TRUE]
       /\ reviews' = [reviews EXCEPT ![r] = @ + 1]
       /\ Settle(p)
       /\ UNCHANGED <<talk, happens>>

\* Mutated: the pause is not lifted.
Rule_Paused ==
    LET s == send[Ceo]
        r == s.room
    IN /\ s.at = "looked"
       /\ count' = [count EXCEPT ![r] = @ + 1]
       /\ budget' = [budget EXCEPT ![r] = IF s.does = "extend" THEN s.messages + More ELSE @]
       /\ closed' = [closed EXCEPT ![r] = @ \/ s.does = "end"]
       /\ reviews' = [reviews EXCEPT ![r] = @ - 1]
       /\ Settle(Ceo)
       /\ UNCHANGED <<paused, happens>>

\* The CEO's note is a post like another.  The pause it has not read as such it does
\* not write.
Rule ==
    LET s == send[Ceo]
        r == s.room
    IN /\ s.at = "looked"
       /\ count' = [count EXCEPT ![r] = @ + 1]
       /\ budget' = [budget EXCEPT ![r] = IF s.does = "extend" THEN s.messages + More ELSE @]
       /\ closed' = [closed EXCEPT ![r] = @ \/ s.does = "end"]
       /\ paused' = [paused EXCEPT ![r] = @ /\ ~s.saw]
       /\ reviews' = [reviews EXCEPT ![r] = @ - 1]
       /\ Settle(Ceo)
       /\ UNCHANGED happens

-----------------------------------------------------------------------------
(* The tasks of the agents.                                                  *)

\* The job of a task that was woken: with a reply-wait still open it parks again.
Resume(a) ==
    /\ task[a] = "queued"
    /\ send[a].at = "idle"
    /\ task' = [task EXCEPT ![a] = IF \E r \in Rooms : wait[a][r] = "pending"
                                  THEN "parked" ELSE "running"]
    /\ UNCHANGED <<talk, paused, reviews, wait, send, happens>>

\* Mutated: the reaper wakes the task and leaves the wait open.
Reap_KeepsWait(a, r) ==
    /\ wait[a][r] = "pending"
    /\ task' = [task EXCEPT ![a] = IF @ = "failed" THEN @ ELSE "queued"]
    /\ UNCHANGED <<wait, count, budget, closed, paused, reviews, send, happens>>

\* The cron: a wait older than the reply timeout expires; a task that is still on it is
\* told so by a message, which wakes nobody else, and queued.
Reap(a, r) ==
    /\ wait[a][r] = "pending"
    /\ wait' = [wait EXCEPT ![a][r] = "expired"]
    /\ IF task[a] \in {"parked", "running"}
       THEN /\ task' = [task EXCEPT ![a] = "queued"]
            /\ count' = [count EXCEPT ![r] = @ + 1]
       ELSE UNCHANGED <<task, count>>
    /\ UNCHANGED <<budget, closed, paused, reviews, send, happens>>

\* The other cron: a parked task without a wait (and, here, without any decision) is given
\* up; a post that saw it queued and the job that still saw its wait leave one behind.
ReapOrphan(a) ==
    /\ task[a] = "parked"
    /\ \A r \in Rooms : wait[a][r] # "pending"
    /\ task' = [task EXCEPT ![a] = "failed"]
    /\ UNCHANGED <<talk, paused, reviews, wait, send, happens>>

AgentSteps(a) ==
    \/ \E r \in Rooms : Consume(a, r) \/ (\E waits \in BOOLEAN : Begin(a, r, waits))
    \/ Resume(a)

CeoSteps(r) == ReviewEnds(r) \/ (\E does \in {"extend", "end"} : CeoBegins(r, does))

Commits(p) == Look(p) \/ Post(p) \/ (p \in Agents /\ Escalate(p)) \/ (p = Ceo /\ Rule)

Reaper == \E a \in Agents : ReapOrphan(a) \/ (\E r \in Rooms : Reap(a, r))

Next ==
    \/ \E a \in Agents : AgentSteps(a)
    \/ \E r \in Rooms : CeoSteps(r) \/ FounderBegins(r)
    \/ \E p \in Posters : Commits(p)
    \/ Reaper

Spec == Init /\ [][Next]_vars

\* A transaction that began ends; a queued task is run (TaskDispatch); the CEO takes up its
\* reviews; the cron comes round.  Nobody has to post.
FairSpec ==
    /\ Spec
    /\ \A p \in Posters : WF_vars(Commits(p))
    /\ \A a \in Agents : WF_vars(Resume(a))
    /\ \A r \in Rooms : WF_vars(CeoSteps(r))
    /\ WF_vars(Reaper)

-----------------------------------------------------------------------------
(* Properties.                                                               *)

\* Whoever waited in a conversation when another's post or escalation began is no longer
\* waiting there when that commits, whatever posts went on at once (post_message).
LaterPostsWake ==
    [][\A p \in Posters :
         send[p].at = "looked" /\ send'[p].at = "idle"
           => \A a \in send[p].there : wait'[a][send[p].room] # "pending"]_vars

\* A paused conversation has a review that can still lift the pause, as long as reviews
\* rule: also when two agents reach the limit at once and the first ruling is in before
\* the second (escalate_channel_to_ceo, _extend_chat_channel).
PausedIsReviewed ==
    "ceo_quits" \notin happens
      => \A r \in Rooms : paused[r] /\ ~closed[r] => reviews[r] > 0

\* No agent is parked for good: not by two that wait for one another, nor by a
\* conversation that is paused, closed, or left by the only one who would answer
\* (reap_stale_chat_waits_for_company, reap_orphaned_approvals_for_company).
RunsAgain == \A a \in Agents : []<>(task[a] \in {"running", "failed"})
=============================================================================
