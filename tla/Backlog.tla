------------------------------ MODULE Backlog ------------------------------
(***************************************************************************)
(* The demand backlog all companies share (services/feature_requests.py) and  *)
(* the loop that empties it (services/promoter.py): requests are deduplicated  *)
(* into entries and voted on, a cron files the entries in demand as tracker     *)
(* issues, another marks an entry delivered once its issue has closed and        *)
(* tells everyone who asked.  The Platform agent can do both by hand.            *)
(*                                                                         *)
(* The tracker is outside every transaction: what was filed there stays filed   *)
(* when the process that filed it dies before it commits.                       *)
(***************************************************************************)
EXTENDS Integers, Sequences, Functions, FiniteSets

CONSTANTS
    Keys,          \* dedup keys: a kind and a normalised title
    TitleOf,       \* the issue title of a key; a bug and a capability may share one
    Askers,        \* calls of record_request, each one transaction
    VoterOf,       \* who votes in it: a (company, user, agent)
    CompanyOf,     \* the company of a voter
    Wants,         \* Wants[a]: the keys a call may be about
    MinVotes,      \* settings.platform_promote_min_votes
    PromoteBatch,  \* settings.platform_promote_batch
    ReconcileBatch,\* settings.platform_reconcile_batch
    MaxIssues,     \* bound: issues the tracker holds
    MaxUpsets,     \* bound: things that go wrong
    MaxByHand,     \* bound: calls of the agent's tools
    Scenarios      \* the sets of Events that may happen together

Events ==
    {"by_hand",    \* the Platform agent promotes and delivers too
     "outage",     \* the tracker refuses a call
     "lost_reply", \* an issue is created and the answer does not arrive
     "lag",        \* the tracker's search misses an open issue
     "crash"}      \* a process dies; its transaction is rolled back

Voters == {VoterOf[a] : a \in Askers}
Companies == {CompanyOf[v] : v \in Voters}

ASSUME AskersAssumption ==
    /\ Askers = DOMAIN VoterOf /\ Voters = DOMAIN CompanyOf
    /\ Wants \in [Askers -> SUBSET Keys]
ASSUME KeysAssumption == IsFiniteSet(Keys)
ASSUME BatchAssumption ==
    /\ {MinVotes, PromoteBatch, ReconcileBatch} \subseteq Nat \ {0}
    /\ {MaxIssues, MaxUpsets, MaxByHand} \subseteq Nat
ASSUME EventsAssumption == Scenarios \subseteq SUBSET Events

VARIABLES
    entry,    \* the feature_requests rows: status, vote_count, github_issue_number
    born,     \* the order in which the rows were inserted; 0 for none
    rows,     \* rows[k]: the calls whose feature_request_votes row stands
    notices,  \* notices[k][c]: delivery notices in the memory of company c
    ask,      \* a call: where it is, and the vote_count and rows it has read
    issues,   \* the tracker's issues, in order of their numbers
    job,      \* the transactions of the two crons and of the Platform agent's tool
    upsets,   \* Events so far
    happens   \* what may happen in this behaviour: one of Scenarios

backlog == <<entry, born, rows>>
vars == <<entry, born, rows, notices, ask, issues, job, upsets, happens>>

Jobs == {"promoter", "reconciler", "agent"}
NoIssue == 0

\* A job: its phase, what it makes of the entries, those it still has to visit, the
\* issue it has found for the first, and its uncommitted writes.
Idle == [phase |-> "idle", goal |-> "promoted", todo |-> <<>>, found |-> NoIssue, staged |-> {}]

NoRead == [phase |-> "idle", key |-> "none", votes |-> 0, exists |-> FALSE, voted |-> FALSE]

Init ==
    /\ entry = [k \in Keys |-> [status |-> "absent", votes |-> 0, issue |-> NoIssue]]
    /\ born = [k \in Keys |-> 0]
    /\ rows = [k \in Keys |-> {}]
    /\ notices = [k \in Keys |-> [c \in Companies |-> 0]]
    /\ ask = [a \in Askers |-> NoRead]
    /\ issues = <<>>
    /\ job = [j \in Jobs |-> Idle]
    /\ upsets = 0
    /\ happens \in Scenarios

\* Mutated: the status is written by the commit alone, after the requesters were read.
Locked_Late(k, j) == FALSE

\* The row of k has an UPDATE of another transaction on it: writers wait.
Locked(k, j) == \E i \in Jobs \ {j} : \E s \in job[i].staged : s.key = k

Upset(e) ==
    /\ e \in happens
    /\ upsets < IF e = "by_hand" THEN MaxByHand ELSE MaxUpsets
    /\ upsets' = upsets + 1

-----------------------------------------------------------------------------
(* Asking: report_bug, request_capability and the founder's copilot.           *)

\* Mutated: the existing vote is not looked up.
AskRead_Unlooked(a, k) ==
    /\ ask[a].phase = "idle"
    /\ ask' = [ask EXCEPT ![a] =
                 [phase |-> "read", key |-> k, votes |-> entry[k].votes,
                  exists |-> entry[k].status # "absent", voted |-> FALSE]]
    /\ UNCHANGED <<backlog, notices, issues, job, upsets, happens>>

\* record_request reads the entry and whether this voter has a row on it.
AskRead(a, k) ==
    /\ ask[a].phase = "idle"
    /\ ask' = [ask EXCEPT ![a] =
                 [phase |-> "read", key |-> k,
                  votes |-> entry[k].votes,
                  exists |-> entry[k].status # "absent",
                  voted |-> \E b \in rows[k] : VoterOf[b] = VoterOf[a]]]
    /\ UNCHANGED <<backlog, notices, issues, job, upsets, happens>>

\* It inserts the entry if there was none, the vote if it was new, and writes the
\* count it has read plus one.  A second INSERT of one key fails on the unique
\* constraint; a repeat ask touches no count.
AskCommit(a) ==
    LET r == ask[a]
        k == r.key
    IN /\ r.phase = "read"
       /\ ~r.voted => ~Locked(k, "none")
       /\ ask' = [ask EXCEPT ![a] = [NoRead EXCEPT !.phase = "done"]]
       /\ IF r.voted \/ (~r.exists /\ entry[k].status # "absent")
          THEN UNCHANGED backlog
          ELSE /\ rows' = [rows EXCEPT ![k] = @ \cup {a}]
               /\ entry' = [entry EXCEPT ![k] =
                              [@ EXCEPT !.votes = r.votes + 1,
                                        !.status = IF r.exists THEN entry[k].status ELSE "open"]]
               /\ born' = IF r.exists THEN born
                          ELSE [born EXCEPT ![k] =
                                  1 + Cardinality({q \in Keys : entry[q].status # "absent"})]
       /\ UNCHANGED <<notices, issues, job, upsets, happens>>

\* The asking task dies; it asks again when it is run again.
AskDies(a) ==
    /\ ask[a].phase = "read"
    /\ Upset("crash")
    /\ ask' = [ask EXCEPT ![a] = NoRead]
    /\ UNCHANGED <<backlog, notices, issues, job, happens>>

-----------------------------------------------------------------------------
(* Reading a batch.                                                          *)

\* The first n of S, in order (ORDER BY ... LIMIT n).
Firsts(S, n, Before(_, _)) ==
    {todo \in [1 .. (IF n < Cardinality(S) THEN n ELSE Cardinality(S)) -> S] :
        \A i \in DOMAIN todo :
           /\ \A j \in DOMAIN todo : i < j => Before(todo[i], todo[j])
           /\ \A k \in S \ Range(todo) : Before(todo[i], k)}

Older(k, q) == born[k] < born[q]
MoreVoted(k, q) ==
    entry[k].votes > entry[q].votes \/ (entry[k].votes = entry[q].votes /\ Older(k, q))

\* Mutated: one vote more is wanted.
ListOpen_Above ==
    Firsts({k \in Keys : entry[k].status = "open" /\ entry[k].votes > MinVotes},
           PromoteBatch, MoreVoted)

\* Mutated: delivered entries are listed again.
ListOpen_Delivered ==
    Firsts({k \in Keys : entry[k].status \in {"open", "delivered"} /\ entry[k].votes >= MinVotes},
           PromoteBatch, MoreVoted)

\* list_open: the entries in most demand, then the oldest.
ListOpen ==
    Firsts({k \in Keys : entry[k].status = "open" /\ entry[k].votes >= MinVotes},
           PromoteBatch, MoreVoted)

\* list_promoted: filed, with an issue number, the oldest first.
ListPromoted ==
    Firsts({k \in Keys : entry[k].status = "promoted" /\ entry[k].issue # NoIssue},
           ReconcileBatch, Older)

Begin(j, goal, todo, phase) ==
    /\ job[j].phase = "idle"
    /\ todo # <<>>
    /\ job' = [job EXCEPT ![j] = [Idle EXCEPT !.phase = phase, !.goal = goal, !.todo = todo]]
    /\ UNCHANGED <<backlog, notices, ask, issues, happens>>

\* promote_feature_backlog and reconcile_delivered_requests, one of each at a time.
PromoteTick ==
    /\ \E todo \in ListOpen : Begin("promoter", "promoted", todo, "search")
    /\ UNCHANGED upsets
ReconcileTick ==
    /\ \E todo \in ListPromoted : Begin("reconciler", "delivered", todo, "poll")
    /\ UNCHANGED upsets

\* The tools promote_feature_request and deliver_feature_request look at the status
\* of one entry and go on.
PromoteByHand(k) ==
    /\ Upset("by_hand")
    /\ entry[k].status = "open"
    /\ Begin("agent", "promoted", <<k>>, "search")

DeliverByHand(k) ==
    /\ Upset("by_hand")
    /\ entry[k].status \in {"open", "promoted"}
    /\ Begin("agent", "delivered", <<k>>, "flush")

-----------------------------------------------------------------------------
(* Filing.                                                                   *)

Visited(j) == Head(job[j].todo)
Step(j, transaction) == job' = [job EXCEPT ![j] = transaction]
Goto(j, phase) == Step(j, [job[j] EXCEPT !.phase = phase])
Found(j, i) == Step(j, [job[j] EXCEPT !.phase = "flush", !.found = i])

\* A tracker error ends the batch; what was staged is committed.
Stop(j) == Step(j, [job[j] EXCEPT !.phase = "commit", !.todo = <<>>])

OpenIssues(t) == {i \in DOMAIN issues : issues[i].title = t /\ issues[i].open}

\* Mutated: the tracker is not searched.
Search_Skipped(j) ==
    /\ job[j].phase = "search"
    /\ Goto(j, "file")
    /\ UNCHANGED <<backlog, notices, ask, issues, upsets, happens>>

\* _find_open_issue_by_title: an open issue of the same title gets a +1 instead.
Search(j) ==
    /\ job[j].phase = "search"
    /\ LET mine == OpenIssues(TitleOf[Visited(j)])
       IN IF mine = {} THEN Goto(j, "file")
          ELSE \E i \in mine : Found(j, i)
    /\ UNCHANGED <<backlog, notices, ask, issues, upsets, happens>>

SearchMisses(j) ==
    /\ job[j].phase = "search"
    /\ Upset("lag")
    /\ Goto(j, "file")
    /\ UNCHANGED <<backlog, notices, ask, issues, happens>>

Create(t) == issues' = Append(issues, [title |-> t, open |-> TRUE])

\* _create_issue
File(j) ==
    /\ job[j].phase = "file"
    /\ Len(issues) < MaxIssues
    /\ Create(TitleOf[Visited(j)])
    /\ Found(j, Len(issues) + 1)
    /\ UNCHANGED <<backlog, notices, ask, upsets, happens>>

TrackerFails(j) ==
    /\ job[j].phase \in {"search", "file"}
    /\ Upset("outage")
    /\ Stop(j)
    /\ UNCHANGED <<backlog, notices, ask, issues, happens>>

ReplyLost(j) ==
    /\ job[j].phase = "file"
    /\ Len(issues) < MaxIssues
    /\ Upset("lost_reply")
    /\ Create(TitleOf[Visited(j)])
    /\ Stop(j)
    /\ UNCHANGED <<backlog, notices, ask, happens>>

-----------------------------------------------------------------------------
(* Delivering, and the end of a batch.                                         *)

Next1(j) == IF Len(job[j].todo) = 1 THEN "commit"
            ELSE IF job[j].goal = "promoted" THEN "search" ELSE "poll"

\* On to the next of the batch with these writes.
Advance(j, writes) ==
    Step(j, [job[j] EXCEPT !.phase = Next1(j), !.todo = Tail(@), !.found = NoIssue,
                           !.staged = writes])

\* get_issue_state: only a closed issue delivers its entry.
Poll(j) ==
    /\ job[j].phase = "poll"
    /\ IF issues[entry[Visited(j)].issue].open
       THEN Advance(j, job[j].staged)
       ELSE Goto(j, "flush")
    /\ UNCHANGED <<backlog, notices, ask, issues, upsets, happens>>

\* No state on an error: the entry stays for the next tick.
PollFails(j) ==
    /\ job[j].phase = "poll"
    /\ Upset("outage")
    /\ Advance(j, job[j].staged)
    /\ UNCHANGED <<backlog, notices, ask, issues, happens>>

Requesters(k) == {CompanyOf[VoterOf[a]] : a \in rows[k]}

\* mark_promoted, mark_delivered: the UPDATE is flushed, which locks the row until
\* the commit, and only then _notify_requesters reads who asked.
Flush(j) ==
    LET k == Visited(j)
        told == IF job[j].goal = "delivered" THEN Requesters(k) ELSE {}
    IN /\ job[j].phase = "flush"
       /\ ~Locked(k, j)
       /\ Advance(j, job[j].staged \cup {[key |-> k, issue |-> job[j].found, told |-> told]})
       /\ UNCHANGED <<backlog, notices, ask, issues, upsets, happens>>

\* The whole batch is one transaction.  Only changed columns are written: a delivery
\* leaves the issue number alone.
Commit(j) ==
    LET w == job[j].staged
        Of(k) == {s \in w : s.key = k}
    IN /\ job[j].phase = "commit"
       /\ entry' = [k \in Keys |->
                      IF Of(k) = {} THEN entry[k]
                      ELSE [entry[k] EXCEPT
                              !.status = job[j].goal,
                              !.issue = IF job[j].goal = "promoted"
                                        THEN (CHOOSE s \in Of(k) : TRUE).issue
                                        ELSE entry[k].issue]]
       /\ notices' = [k \in Keys |-> [c \in Companies |->
                        notices[k][c] + IF \E s \in Of(k) : c \in s.told THEN 1 ELSE 0]]
       /\ job' = [job EXCEPT ![j] = Idle]
       /\ UNCHANGED <<born, rows, ask, issues, upsets, happens>>

JobDies(j) ==
    /\ job[j].phase # "idle"
    /\ Upset("crash")
    /\ job' = [job EXCEPT ![j] = Idle]
    /\ UNCHANGED <<backlog, notices, ask, issues, happens>>

\* A maintainer, or the fix's merge, closes an issue.
IssueCloses(i) ==
    /\ issues[i].open
    /\ issues' = [issues EXCEPT ![i].open = FALSE]
    /\ UNCHANGED <<backlog, notices, ask, job, upsets, happens>>

-----------------------------------------------------------------------------
Asking(a) == (\E k \in Wants[a] : AskRead(a, k)) \/ AskCommit(a) \/ AskDies(a)
Filing(j) == Search(j) \/ SearchMisses(j) \/ File(j) \/ TrackerFails(j) \/ ReplyLost(j)
Working(j) == Filing(j) \/ Poll(j) \/ PollFails(j) \/ Flush(j) \/ Commit(j) \/ JobDies(j)

Next ==
    \/ \E a \in Askers : Asking(a)
    \/ PromoteTick \/ ReconcileTick
    \/ \E k \in Keys : PromoteByHand(k) \/ DeliverByHand(k)
    \/ \E j \in Jobs : Working(j)
    \/ \E i \in DOMAIN issues : IssueCloses(i)

Spec == Init /\ [][Next]_vars

\* What a job does when nothing goes wrong: its steps exclude one another, so weak
\* fairness of their disjunction is fairness of the one that is due.
Proceeds(j) ==
    \/ j = "promoter" /\ PromoteTick
    \/ j = "reconciler" /\ ReconcileTick
    \/ Search(j) \/ File(j) \/ Poll(j) \/ Flush(j) \/ Commit(j)

\* The crons tick every hour and a transaction that is under way goes on.  Nobody is
\* obliged to ask, to close an issue or to act by hand.
Fairness ==
    /\ WF_vars(\E a \in Askers : AskCommit(a))
    /\ \A j \in Jobs : WF_vars(Proceeds(j))

FairSpec == Spec /\ Fairness

-----------------------------------------------------------------------------
(* What the backlog promises.                                                 *)

\* Demand is never overstated: the denormalised vote_count of an entry is at most
\* the number of different (company, user, agent) that voted for it, and not lost
\* altogether once a vote stands.  Two first asks of one voter at once may leave two
\* rows, and two voters at once may lose an increment, but never invent one.
VotersFor(k) == {VoterOf[a] : a \in rows[k]}
HonestDemand ==
    \A k \in Keys :
        /\ entry[k].votes <= Cardinality(VotersFor(k))
        /\ rows[k] # {} => entry[k].votes >= 1

\* One open issue per title, whatever crashes between the filing and the commit, as
\* long as a single promoter works, the search sees what is open and answers arrive
\* (integrations/issues.py: "+1 an existing open duplicate").
OneOpenIssue ==
    happens \cap {"by_hand", "lag"} = {} =>
        \A t \in {TitleOf[k] : k \in Keys} : Cardinality(OpenIssues(t)) <= 1

\* What the transaction that marks an entry delivered commits tells every company
\* with a vote on it, those that voted while it was running included: their rows
\* wait for the lock the mark took before the requesters were read.
AllAreTold ==
    [][\A k \in Keys :
          entry[k].status # "delivered" /\ entry'[k].status = "delivered" =>
              \A c \in Requesters(k) : notices'[k][c] = notices[k][c] + 1]_vars

\* Without the agent's hand in it, a delivery is announced once and for good: no
\* promotion from a stale batch takes the entry back and no tick repeats the notice.
ToldOnce ==
    "by_hand" \notin happens =>
        \A k \in Keys : \A c \in Companies : notices[k][c] <= 1

\* The calls being finite, again and again no entry in enough demand is left unfiled:
\* every outage and crash is made good by a later tick, batch after batch.
DemandIsFiled ==
    []<>(\A k \in Keys : entry[k].status = "open" => entry[k].votes < MinVotes)
=============================================================================
