--------------------------- MODULE BacklogProofs ---------------------------
(***************************************************************************)
(* Theorems about Backlog for every set of keys and calls.                    *)
(***************************************************************************)
EXTENDS Backlog, FiniteSetTheorems, SequenceTheorems, TLAPS

\* An entry is a record with a count, and its voters are finitely many.
EntriesOK ==
    /\ DOMAIN entry = Keys /\ DOMAIN rows = Keys /\ DOMAIN ask = Askers
    /\ \A k \in Keys :
         /\ "votes" \in DOMAIN entry[k]
         /\ entry[k].votes \in Nat
         /\ IsFiniteSet(VotersFor(k))

\* The count a call has read, and its own vote if it found none, do not exceed the voters
\* the entry will have with it.  Others' votes may come in between.
ReadsOK ==
    \A a \in Askers :
      /\ ask[a].phase = "read" => ask[a].key \in Keys /\ ask[a].votes \in Nat
      /\ \A k \in Keys :
           ask[a].phase = "read" /\ ~ask[a].voted /\ ask[a].key = k
             => ask[a].votes + 1 <= Cardinality(VotersFor(k) \cup {VoterOf[a]})

DemandInv == EntriesOK /\ ReadsOK /\ HonestDemand

LEMMA DemandInit == Init => DemandInv
<1> SUFFICES ASSUME Init PROVE DemandInv
  OBVIOUS
<1>1. \A k \in Keys : VotersFor(k) = {} /\ rows[k] = {}
  BY DEF Init, VotersFor
<1>2. IsFiniteSet({}) /\ Cardinality({}) = 0
  BY FS_EmptySet
<1>3. EntriesOK
  <2>1. DOMAIN entry = Keys /\ DOMAIN rows = Keys /\ DOMAIN ask = Askers
    BY DEF Init
  <2>2. ASSUME NEW k \in Keys
        PROVE  /\ "votes" \in DOMAIN entry[k]
               /\ entry[k].votes \in Nat
    BY DEF Init
  <2> QED BY <1>1, <1>2, <2>1, <2>2 DEF EntriesOK
<1>4. ReadsOK
  BY DEF Init, ReadsOK, NoRead
<1>5. HonestDemand
  <2>1. \A k \in Keys : entry[k].votes = 0
    BY DEF Init
  <2> QED BY <1>1, <1>2, <2>1 DEF HonestDemand
<1> QED BY <1>3, <1>4, <1>5 DEF DemandInv

\* A step that leaves the votes, the counts and the calls alone.
LEMMA DemandKept ==
  ASSUME DemandInv, rows' = rows, ask' = ask,
         DOMAIN entry' = Keys,
         \A k \in Keys :
           /\ "votes" \in DOMAIN entry'[k]
           /\ entry'[k].votes = entry[k].votes
  PROVE  DemandInv'
<1>1. \A k : VotersFor(k)' = VotersFor(k)
  BY DEF VotersFor
<1>2. EntriesOK'
  BY <1>1 DEF DemandInv, EntriesOK
<1>3. ReadsOK'
  BY <1>1 DEF DemandInv, ReadsOK
<1>4. HonestDemand'
  BY <1>1 DEF DemandInv, HonestDemand
<1> QED BY <1>2, <1>3, <1>4 DEF DemandInv

\* A call reads a count and finds no vote of its own: with its vote there is a voter more.
LEMMA DemandRead ==
  ASSUME DemandInv, NEW a \in Askers, NEW k \in Keys, AskRead(a, k)
  PROVE  DemandInv'
<1> DEFINE r == [phase |-> "read", key |-> k, votes |-> entry[k].votes,
                 exists |-> entry[k].status # "absent",
                 voted |-> \E b \in rows[k] : VoterOf[b] = VoterOf[a]]
<1>1. UNCHANGED <<entry, rows>> /\ ask' = [ask EXCEPT ![a] = r]
  BY DEF AskRead, backlog
<1>2. \A q : VotersFor(q)' = VotersFor(q)
  BY <1>1 DEF VotersFor
<1>3. EntriesOK'
  BY <1>1, <1>2 DEF DemandInv, EntriesOK
<1>4. r.votes \in Nat /\ r.votes <= Cardinality(VotersFor(k)) /\ IsFiniteSet(VotersFor(k))
  BY DEF DemandInv, EntriesOK, HonestDemand
<1>5. ~r.voted => VoterOf[a] \notin VotersFor(k)
  BY DEF VotersFor
<1>6. ~r.voted => r.votes + 1 <= Cardinality(VotersFor(k) \cup {VoterOf[a]})
  <2> SUFFICES ASSUME ~r.voted PROVE r.votes + 1 <= Cardinality(VotersFor(k) \cup {VoterOf[a]})
    OBVIOUS
  <2>1. Cardinality(VotersFor(k) \cup {VoterOf[a]}) = Cardinality(VotersFor(k)) + 1
    BY <1>4, <1>5, FS_AddElement
  <2>2. Cardinality(VotersFor(k)) \in Nat
    BY <1>4, FS_CardinalityType
  <2>3. \A x, y, z \in Nat : x <= y /\ z = y + 1 => x + 1 <= z
    OBVIOUS
  <2> QED BY <1>4, <2>1, <2>2
<1>7. r.key = k
  OBVIOUS
<1>8. ask'[a] = r /\ \A b \in Askers \ {a} : ask'[b] = ask[b]
  BY <1>1 DEF DemandInv, EntriesOK
<1> HIDE DEF r
<1>9. ReadsOK'
  BY <1>2, <1>4, <1>6, <1>7, <1>8 DEF DemandInv, ReadsOK
<1>10. HonestDemand'
  BY <1>1, <1>2 DEF DemandInv, HonestDemand
<1>11. (DOMAIN ask' = Askers)
  BY <1>1 DEF DemandInv, EntriesOK
<1> QED BY <1>3, <1>9, <1>10 DEF DemandInv

\* A commit writes the count it has read plus one, and its voter is among those there are.
LEMMA DemandCommit ==
  ASSUME DemandInv, NEW a \in Askers, NEW k \in Keys, ask[a].key = k, AskCommit(a)
  PROVE  DemandInv'
<1> DEFINE r == ask[a]
           done == [NoRead EXCEPT !.phase = "done"]
<1>0. EntriesOK /\ ReadsOK /\ HonestDemand
  BY DEF DemandInv
<1>1. /\ r.phase = "read" /\ r.votes \in Nat
      /\ ask' = [ask EXCEPT ![a] = done]
  BY <1>0 DEF AskCommit, ReadsOK
<1>2. ask'[a] = done /\ (\A b \in Askers \ {a} : ask'[b] = ask[b]) /\ DOMAIN ask' = Askers
  BY <1>0, <1>1 DEF EntriesOK
<1>3. done.phase = "done"
  BY DEF NoRead
<1> HIDE DEF done
<1>4. CASE UNCHANGED <<entry, rows>>
  <2>1. \A q : VotersFor(q)' = VotersFor(q)
    BY <1>4 DEF VotersFor
  <2>2. EntriesOK'
    BY <1>0, <1>2, <1>4, <2>1 DEF EntriesOK
  <2>3. ReadsOK'
    BY <1>0, <1>2, <1>3, <2>1 DEF ReadsOK
  <2>4. HonestDemand'
    BY <1>0, <1>4, <2>1 DEF HonestDemand
  <2> QED BY <2>2, <2>3, <2>4 DEF DemandInv
<1>5. ASSUME ~r.voted,
             rows' = [rows EXCEPT ![k] = @ \cup {a}],
             entry' = [entry EXCEPT ![k] =
                            [@ EXCEPT !.votes = r.votes + 1,
                                      !.status = IF r.exists THEN entry[k].status ELSE "open"]]
      PROVE  DemandInv'
  <2>1. /\ rows'[k] = rows[k] \cup {a} /\ \A q \in Keys \ {k} : rows'[q] = rows[q]
        /\ DOMAIN rows' = Keys
    BY <1>0, <1>1, <1>5 DEF EntriesOK
  <2>2. /\ VotersFor(k)' = VotersFor(k) \cup {VoterOf[a]}
        /\ \A q \in Keys \ {k} : VotersFor(q)' = VotersFor(q)
    BY <2>1 DEF VotersFor
  <2>3. ASSUME NEW q \in Keys
        PROVE  /\ IsFiniteSet(VotersFor(q)') /\ IsFiniteSet(VotersFor(q))
               /\ VotersFor(q) \subseteq VotersFor(q)'
    <3>1. IsFiniteSet(VotersFor(q))
      BY <1>0 DEF EntriesOK
    <3>2. CASE q = k
      <4>1. IsFiniteSet(VotersFor(k) \cup {VoterOf[a]})
        BY <3>1, <3>2, FS_AddElement
      <4> QED BY <2>2, <3>1, <3>2, <4>1
    <3>3. CASE q # k
      BY <2>2, <3>1, <3>3
    <3> QED BY <3>2, <3>3
  <2>4. /\ DOMAIN entry' = Keys
        /\ \A q \in Keys \ {k} : entry'[q] = entry[q]
        /\ entry'[k].votes = r.votes + 1 /\ "votes" \in DOMAIN entry'[k]
    BY <1>0, <1>5 DEF EntriesOK
  <2>5. EntriesOK'
    <3>1. \A q \in Keys : entry'[q].votes \in Nat
      BY <1>0, <1>1, <2>4 DEF EntriesOK
    <3> QED BY <1>0, <1>2, <2>1, <2>3, <2>4, <3>1 DEF EntriesOK
  <2>6. r.votes + 1 <= Cardinality(VotersFor(k)')
    BY <1>0, <1>1, <1>5, <2>2 DEF ReadsOK
  <2>7. HonestDemand'
    <3>1. entry'[k].votes <= Cardinality(VotersFor(k)') /\ entry'[k].votes >= 1
      BY <1>1, <2>4, <2>6
    <3>2. ASSUME NEW q \in Keys \ {k}
          PROVE  /\ entry'[q].votes <= Cardinality(VotersFor(q)')
                 /\ rows'[q] # {} => entry'[q].votes >= 1
      BY <1>0, <2>1, <2>2, <2>4 DEF HonestDemand
    <3> QED BY <3>1, <3>2 DEF HonestDemand
  \* The voters another call counted on are still there.
  <2>8. ASSUME NEW b \in Askers, NEW q \in Keys,
               ask'[b].phase = "read", ~ask'[b].voted, ask'[b].key = q
        PROVE  ask'[b].votes + 1 <= Cardinality(VotersFor(q)' \cup {VoterOf[b]})
    <3>1. b # a /\ ask'[b] = ask[b]
      BY <1>2, <1>3, <2>8
    <3> DEFINE old == VotersFor(q) \cup {VoterOf[b]}
               new == VotersFor(q)' \cup {VoterOf[b]}
    <3>2. ask[b].votes \in Nat /\ ask[b].votes + 1 <= Cardinality(old)
      BY <1>0, <2>8, <3>1 DEF ReadsOK
    <3>3. IsFiniteSet(new) /\ old \subseteq new
      BY <2>3, FS_AddElement
    <3> HIDE DEF old, new
    <3>4. Cardinality(old) <= Cardinality(new)
          /\ Cardinality(old) \in Nat /\ Cardinality(new) \in Nat
      BY <3>3, FS_Subset, FS_CardinalityType
    <3>5. \A x, y, z \in Nat : x + 1 <= y /\ y <= z => x + 1 <= z
      OBVIOUS
    <3>6. ask[b].votes + 1 <= Cardinality(new)
      BY <3>2, <3>4, <3>5
    <3> QED BY <3>1, <3>6 DEF new
  <2>9. ReadsOK'
    <3>1. \A b \in Askers :
            ask'[b].phase = "read" => ask'[b].key \in Keys /\ ask'[b].votes \in Nat
      BY <1>0, <1>2, <1>3 DEF ReadsOK
    <3> QED BY <2>8, <3>1 DEF ReadsOK
  <2> QED BY <2>5, <2>7, <2>9 DEF DemandInv
<1>6. \/ UNCHANGED <<entry, rows>>
      \/ /\ ~r.voted
         /\ rows' = [rows EXCEPT ![k] = @ \cup {a}]
         /\ entry' = [entry EXCEPT ![k] =
                           [@ EXCEPT !.votes = r.votes + 1,
                                     !.status = IF r.exists THEN entry[k].status ELSE "open"]]
  BY DEF AskCommit, backlog
<1> QED BY <1>4, <1>5, <1>6

\* A batch that is committed writes other columns.
LEMMA DemandFiled ==
  ASSUME DemandInv, NEW j \in Jobs, Commit(j)
  PROVE  DemandInv'
<1> DEFINE Of(k) == {s \in job[j].staged : s.key = k}
<1>1. \A k \in Keys : "votes" \in DOMAIN entry[k]
  BY DEF DemandInv, EntriesOK
<1>2. entry' = [k \in Keys |->
                  IF Of(k) = {} THEN entry[k]
                  ELSE [entry[k] EXCEPT
                          !.status = job[j].goal,
                          !.issue = IF job[j].goal = "promoted"
                                    THEN (CHOOSE s \in Of(k) : TRUE).issue
                                    ELSE entry[k].issue]]
      /\ UNCHANGED <<rows, ask>>
  BY DEF Commit
<1> HIDE DEF Of
<1>3. ASSUME NEW k \in Keys
      PROVE  /\ "votes" \in DOMAIN entry'[k]
             /\ entry'[k].votes = entry[k].votes
  <2> DEFINE i == IF job[j].goal = "promoted"
                  THEN (CHOOSE s \in Of(k) : TRUE).issue ELSE entry[k].issue
  <2>1. entry'[k] = IF Of(k) = {} THEN entry[k]
                    ELSE [entry[k] EXCEPT !.status = job[j].goal, !.issue = i]
    BY <1>2
  <2> HIDE DEF i
  <2>2. CASE Of(k) = {}
    BY <1>1, <2>1, <2>2
  <2>3. CASE Of(k) # {}
    BY <1>1, <2>1, <2>3
  <2> QED BY <2>2, <2>3
<1> QED BY <1>2, <1>3, DemandKept

LEMMA DemandStep == DemandInv /\ [Next]_vars => DemandInv'
<1> SUFFICES ASSUME DemandInv, [Next]_vars PROVE DemandInv'
  OBVIOUS
<1> USE DEF backlog
<1>1. ASSUME UNCHANGED <<entry, rows, ask>> PROVE DemandInv'
  BY <1>1, DemandKept DEF DemandInv, EntriesOK
<1>2. ASSUME NEW a \in Askers, AskDies(a) PROVE DemandInv'
  <2>1. UNCHANGED <<entry, rows>> /\ ask' = [ask EXCEPT ![a] = NoRead]
    BY <1>2 DEF AskDies
  <2>2. \A q : VotersFor(q)' = VotersFor(q)
    BY <2>1 DEF VotersFor
  <2>3. EntriesOK'
    BY <2>1, <2>2 DEF DemandInv, EntriesOK
  <2>4. ReadsOK'
    BY <2>1, <2>2 DEF DemandInv, EntriesOK, ReadsOK, NoRead
  <2>5. HonestDemand'
    BY <2>1, <2>2 DEF DemandInv, HonestDemand
  <2> QED BY <2>3, <2>4, <2>5 DEF DemandInv
<1>3. ASSUME NEW a \in Askers, Asking(a) PROVE DemandInv'
  <2>1. Wants[a] \subseteq Keys
    BY AskersAssumption
  <2>2. AskCommit(a) => ask[a].key \in Keys
    BY DEF DemandInv, ReadsOK, AskCommit
  <2> QED BY <1>2, <1>3, <2>1, <2>2, DemandRead, DemandCommit DEF Asking
<1>4. CASE PromoteTick \/ ReconcileTick
  BY <1>1, <1>4 DEF PromoteTick, ReconcileTick, Begin
<1>5. CASE \E k \in Keys : PromoteByHand(k) \/ DeliverByHand(k)
  BY <1>1, <1>5 DEF PromoteByHand, DeliverByHand, Begin
<1>6. ASSUME NEW j \in Jobs, Working(j) PROVE DemandInv'
  <2>1. CASE Commit(j)
    BY <1>6, <2>1, DemandFiled
  <2>2. CASE Filing(j)
    BY <1>1, <2>2 DEF Filing, Search, SearchMisses, File, TrackerFails, ReplyLost
  <2>3. CASE Poll(j) \/ PollFails(j) \/ Flush(j) \/ JobDies(j)
    BY <1>1, <2>3 DEF Poll, PollFails, Flush, JobDies
  <2> QED BY <1>6, <2>1, <2>2, <2>3 DEF Working
<1>7. CASE \E i \in DOMAIN issues : IssueCloses(i)
  BY <1>1, <1>7 DEF IssueCloses
<1>8. CASE UNCHANGED vars
  BY <1>1, <1>8 DEF vars
<1> QED BY <1>3, <1>4, <1>5, <1>6, <1>7, <1>8 DEF Next

\* Demand is never overstated nor lost altogether, however the asks of one voter and of
\* several, the crons and the agent's tools interleave.
THEOREM DemandIsHonest == Spec => []HonestDemand
BY DemandInit, DemandStep, PTL DEF Spec, DemandInv

-----------------------------------------------------------------------------
(* What the transactions hold.                                                *)

Phases == {"idle", "search", "file", "flush", "poll", "commit"}
Writes == [key : Keys, issue : Nat, told : SUBSET Companies]
Transactions ==
  [phase : Phases, goal : {"promoted", "delivered"}, todo : Seq(Keys), found : Nat,
   staged : SUBSET Writes]

\* A job between reading its batch and the commit has an entry to visit.
Visiting(j) == job[j].phase \in {"search", "file", "flush", "poll"}

BatchInv ==
  /\ job \in [Jobs -> Transactions]
  /\ \A j \in Jobs : Visiting(j) => job[j].todo # <<>>
  /\ issues \in Seq([title : {TitleOf[k] : k \in Keys}, open : BOOLEAN])
  /\ rows \in [Keys -> SUBSET Askers]

LEMMA IdleType == Idle \in Transactions /\ Idle.phase = "idle" /\ Idle.staged = {}
  /\ Idle.todo = <<>> /\ Idle.goal = "promoted"
BY DEF Idle, Transactions, Phases, NoIssue

\* A batch is a non-empty list of entries that the query selects.
LEMMA BatchType ==
  ASSUME NEW S \in SUBSET Keys, NEW n \in Nat, NEW todo,
         todo \in [1 .. (IF n < Cardinality(S) THEN n ELSE Cardinality(S)) -> S]
  PROVE  todo \in Seq(Keys) /\ Range(todo) \subseteq S
<1>1. IsFiniteSet(S)
  BY KeysAssumption, FS_Subset
<1>2. Cardinality(S) \in Nat
  BY <1>1, FS_CardinalityType
<1>3. todo \in Seq(S)
  BY <1>2
<1> QED BY <1>3 DEF Range

\* What is left of a batch is part of it.
LEMMA TailType ==
  ASSUME NEW todo \in Seq(Keys), todo # <<>>
  PROVE  /\ Head(todo) \in Keys /\ Head(todo) \in Range(todo)
         /\ Tail(todo) \in Seq(Keys) /\ Range(Tail(todo)) \subseteq Range(todo)
         /\ Len(todo) # 1 => Tail(todo) # <<>>
         /\ Range(<<>>) = {}
<1>1. Len(todo) \in Nat /\ Len(todo) # 0 /\ DOMAIN todo = 1 .. Len(todo)
  OBVIOUS
<1>2. Head(todo) = todo[1] /\ 1 \in DOMAIN todo
  BY <1>1
<1>3. /\ Tail(todo) \in Seq(Keys) /\ Len(Tail(todo)) = Len(todo) - 1
      /\ \A i \in 1 .. Len(todo) - 1 : Tail(todo)[i] = todo[i + 1]
  BY <1>1, HeadTailProperties
<1>4. Range(Tail(todo)) \subseteq Range(todo)
  BY <1>1, <1>3 DEF Range
<1>5. Len(todo) # 1 => Tail(todo) # <<>>
  <2>1. Len(todo) # 1 => Len(Tail(todo)) # 0
    BY <1>1, <1>3
  <2>2. Len(<<>>) = 0
    BY EmptySeq
  <2> QED BY <2>1, <2>2
<1>6. Head(todo) \in Range(todo) /\ Head(todo) \in Keys
  BY <1>1, <1>2 DEF Range
<1>7. Range(<<>>) = {}
  BY DEF Range
<1> QED BY <1>3, <1>4, <1>5, <1>6, <1>7

Titled == [title : {TitleOf[k] : k \in Keys}, open : BOOLEAN]

\* A step that moves one transaction on and may touch the tracker.
LEMMA StepType ==
  ASSUME BatchInv, NEW j \in Jobs, NEW r \in Transactions, Step(j, r),
         r.phase \in {"search", "file", "flush", "poll"} => r.todo # <<>>,
         rows' = rows, issues' \in Seq(Titled)
  PROVE  BatchInv'
<1>1. /\ job' \in [Jobs -> Transactions] /\ job'[j] = r
      /\ \A i \in Jobs \ {j} : job'[i] = job[i]
  BY DEF BatchInv, Step
<1>2. \A i \in Jobs : Visiting(i)' => job'[i].todo # <<>>
  BY <1>1 DEF BatchInv, Visiting
<1> QED BY <1>1, <1>2 DEF BatchInv, Titled

LEMMA BatchInit == Init => BatchInv
BY IdleType DEF Init, BatchInv, Visiting

\* Opening a transaction on a batch of entries.
LEMMA BeginType ==
  ASSUME BatchInv, NEW j \in Jobs, NEW goal \in {"promoted", "delivered"},
         NEW todo \in Seq(Keys), NEW phase \in Phases, Begin(j, goal, todo, phase)
  PROVE  /\ BatchInv'
         /\ job'[j].phase = phase /\ job'[j].goal = goal /\ job'[j].todo = todo
         /\ job'[j].staged = {}
         /\ \A i \in Jobs \ {j} : job'[i] = job[i]
<1> DEFINE r == [Idle EXCEPT !.phase = phase, !.goal = goal, !.todo = todo]
<1>1. /\ r \in Transactions /\ r.phase = phase /\ r.goal = goal /\ r.todo = todo
      /\ r.staged = {}
  BY DEF Idle, Transactions, NoIssue
<1>2. job' = [job EXCEPT ![j] = r] /\ todo # <<>> /\ rows' = rows /\ issues' = issues
  BY DEF Begin, backlog
<1> HIDE DEF r
<1>3. BatchInv'
  BY <1>1, <1>2, StepType DEF Step, BatchInv, Titled
<1>4. job'[j] = r /\ \A i \in Jobs \ {j} : job'[i] = job[i]
  BY <1>2 DEF BatchInv
<1> QED BY <1>1, <1>3, <1>4

\* Going to the next phase, or the next entry.
LEMMA GotoType ==
  ASSUME BatchInv, NEW j \in Jobs, NEW phase \in Phases, Goto(j, phase), Visiting(j)
  PROVE  /\ rows' = rows /\ issues' \in Seq(Titled) => BatchInv'
         /\ job'[j] = [job[j] EXCEPT !.phase = phase]
         /\ job'[j].phase = phase
         /\ \A i \in Jobs \ {j} : job'[i] = job[i]
<1> DEFINE r == [job[j] EXCEPT !.phase = phase]
<1>1. r \in Transactions /\ r.phase = phase /\ r.todo # <<>>
  BY DEF BatchInv, Transactions
<1>2. job' = [job EXCEPT ![j] = r]
  BY DEF Goto, Step
<1>3. rows' = rows /\ issues' \in Seq(Titled) => BatchInv'
  BY <1>1, <1>2, StepType DEF Step
<1> QED BY <1>1, <1>2, <1>3 DEF BatchInv

LEMMA AdvanceType ==
  ASSUME BatchInv, NEW j \in Jobs, NEW writes \in SUBSET Writes, Advance(j, writes),
         Visiting(j), rows' = rows, issues' = issues
  PROVE  /\ BatchInv'
         /\ job'[j].todo = Tail(job[j].todo) /\ job'[j].staged = writes
         /\ job'[j].goal = job[j].goal
         /\ job'[j].phase = Next1(j)
         /\ \A i \in Jobs \ {j} : job'[i] = job[i]
<1> DEFINE r == [job[j] EXCEPT !.phase = Next1(j), !.todo = Tail(@), !.found = NoIssue,
                               !.staged = writes]
<1>1. job[j].todo \in Seq(Keys) /\ job[j].todo # <<>> /\ job[j] \in Transactions
  BY DEF BatchInv, Transactions
<1>2. Next1(j) \in Phases /\ (Next1(j) # "commit" => Len(job[j].todo) # 1)
  BY DEF Next1, Phases
<1>3. Tail(job[j].todo) \in Seq(Keys)
  BY <1>1, TailType
<1>4. Next1(j) # "commit" => Tail(job[j].todo) # <<>>
  BY <1>1, <1>2, TailType
<1>5. /\ r \in Transactions /\ r.phase = Next1(j) /\ r.goal = job[j].goal
      /\ r.todo = Tail(job[j].todo) /\ r.staged = writes
  BY <1>1, <1>2, <1>3 DEF Transactions, NoIssue
<1>6. job' = [job EXCEPT ![j] = r]
  BY DEF Advance, Step
<1> HIDE DEF r
<1>7. BatchInv'
  BY <1>4, <1>5, <1>6, StepType DEF Step, BatchInv, Titled
<1>8. job'[j] = r /\ \A i \in Jobs \ {j} : job'[i] = job[i]
  BY <1>6 DEF BatchInv
<1> QED BY <1>5, <1>7, <1>8

LEMMA FoundType ==
  ASSUME BatchInv, NEW j \in Jobs, NEW i \in Nat, Found(j, i), Visiting(j),
         rows' = rows, issues' \in Seq(Titled)
  PROVE  /\ BatchInv'
         /\ job'[j].todo = job[j].todo /\ job'[j].staged = job[j].staged
         /\ job'[j].goal = job[j].goal /\ job'[j].phase = "flush"
         /\ \A k \in Jobs \ {j} : job'[k] = job[k]
<1> DEFINE r == [job[j] EXCEPT !.phase = "flush", !.found = i]
<1>1. /\ r \in Transactions /\ r.phase = "flush" /\ r.todo = job[j].todo
      /\ r.staged = job[j].staged /\ r.goal = job[j].goal /\ r.todo # <<>>
  BY DEF BatchInv, Transactions, Phases
<1>2. job' = [job EXCEPT ![j] = r]
  BY DEF Found, Step
<1> HIDE DEF r
<1>3. BatchInv'
  BY <1>1, <1>2, StepType DEF Step
<1>4. job'[j] = r /\ \A k \in Jobs \ {j} : job'[k] = job[k]
  BY <1>2 DEF BatchInv
<1> QED BY <1>1, <1>3, <1>4

LEMMA StopType ==
  ASSUME BatchInv, NEW j \in Jobs, Stop(j), rows' = rows, issues' \in Seq(Titled)
  PROVE  /\ BatchInv'
         /\ job'[j].todo = <<>> /\ job'[j].staged = job[j].staged
         /\ job'[j].goal = job[j].goal /\ job'[j].phase = "commit"
         /\ \A k \in Jobs \ {j} : job'[k] = job[k]
<1> DEFINE r == [job[j] EXCEPT !.phase = "commit", !.todo = <<>>]
<1>1. /\ r \in Transactions /\ r.phase = "commit" /\ r.todo = <<>>
      /\ r.staged = job[j].staged /\ r.goal = job[j].goal
  BY EmptySeq DEF BatchInv, Transactions, Phases
<1>2. job' = [job EXCEPT ![j] = r]
  BY DEF Stop, Step
<1> HIDE DEF r
<1>3. BatchInv'
  BY <1>1, <1>2, StepType DEF Step
<1>4. job'[j] = r /\ \A k \in Jobs \ {j} : job'[k] = job[k]
  BY <1>2 DEF BatchInv
<1> QED BY <1>1, <1>3, <1>4

\* A transaction that ends leaves nothing behind in its process.
LEMMA IdleStep ==
  ASSUME BatchInv, NEW j \in Jobs, job' = [job EXCEPT ![j] = Idle],
         rows' = rows, issues' = issues
  PROVE  /\ BatchInv' /\ job'[j] = Idle
         /\ \A k \in Jobs \ {j} : job'[k] = job[k]
<1>1. BatchInv'
  BY IdleType, StepType DEF Step, BatchInv, Titled
<1> QED BY <1>1 DEF BatchInv

\* The batches that the two crons read, and the ones of the agent's tools.
LEMMA Reading ==
  ASSUME BatchInv
  PROVE  /\ \A todo \in ListOpen :
              todo \in Seq(Keys) /\ \A k \in Range(todo) : entry[k].status = "open"
         /\ \A todo \in ListPromoted :
              todo \in Seq(Keys) /\ \A k \in Range(todo) : entry[k].status = "promoted"
         /\ \A k \in Keys : <<k>> \in Seq(Keys) /\ Range(<<k>>) = {k}
<1>1. PromoteBatch \in Nat /\ ReconcileBatch \in Nat
  BY BatchAssumption
<1>2. ASSUME NEW todo \in ListOpen
      PROVE  todo \in Seq(Keys) /\ \A k \in Range(todo) : entry[k].status = "open"
  <2> DEFINE S == {k \in Keys : entry[k].status = "open" /\ entry[k].votes >= MinVotes}
  <2>1. todo \in [1 .. (IF PromoteBatch < Cardinality(S) THEN PromoteBatch
                        ELSE Cardinality(S)) -> S]
    BY <1>2 DEF ListOpen, Firsts
  <2>2. S \in SUBSET Keys
    OBVIOUS
  <2>3. todo \in Seq(Keys) /\ Range(todo) \subseteq S
    <3> HIDE DEF S
    <3> QED BY <1>1, <2>1, <2>2, BatchType
  <2> QED BY <2>3
<1>3. ASSUME NEW todo \in ListPromoted
      PROVE  todo \in Seq(Keys) /\ \A k \in Range(todo) : entry[k].status = "promoted"
  <2> DEFINE S == {k \in Keys : entry[k].status = "promoted" /\ entry[k].issue # NoIssue}
  <2>1. todo \in [1 .. (IF ReconcileBatch < Cardinality(S) THEN ReconcileBatch
                        ELSE Cardinality(S)) -> S]
    BY <1>3 DEF ListPromoted, Firsts
  <2>2. S \in SUBSET Keys
    OBVIOUS
  <2>3. todo \in Seq(Keys) /\ Range(todo) \subseteq S
    <3> HIDE DEF S
    <3> QED BY <1>1, <2>1, <2>2, BatchType
  <2> QED BY <2>3
<1>4. ASSUME NEW k \in Keys PROVE <<k>> \in Seq(Keys) /\ Range(<<k>>) = {k}
  BY DEF Range
<1> QED BY <1>2, <1>3, <1>4

\* Filing adds an issue at the end of the tracker's list.
LEMMA CreateType ==
  ASSUME BatchInv, NEW k \in Keys, Create(TitleOf[k])
  PROVE  /\ issues' \in Seq(Titled)
         /\ Len(issues) \in Nat /\ Len(issues') = Len(issues) + 1
         /\ DOMAIN issues = 1 .. Len(issues)
         /\ DOMAIN issues' = 1 .. Len(issues) + 1
         /\ \A i \in DOMAIN issues : issues'[i] = issues[i]
         /\ issues'[Len(issues) + 1] = [title |-> TitleOf[k], open |-> TRUE]
<1> DEFINE e == [title |-> TitleOf[k], open |-> TRUE]
<1>1. issues \in Seq(Titled) /\ e \in Titled /\ issues' = Append(issues, e)
  BY DEF BatchInv, Titled, Create
<1> HIDE DEF e
<1>2. /\ Append(issues, e) \in Seq(Titled)
      /\ Len(Append(issues, e)) = Len(issues) + 1
      /\ \A i \in 1 .. Len(issues) : Append(issues, e)[i] = issues[i]
      /\ Append(issues, e)[Len(issues) + 1] = e
  BY <1>1, AppendProperties
<1>3. DOMAIN issues = 1 .. Len(issues) /\ Len(issues) \in Nat
  BY <1>1
<1>4. DOMAIN issues' = 1 .. Len(issues) + 1
  BY <1>1, <1>2
<1> QED BY <1>1, <1>2, <1>3, <1>4 DEF e

\* The entry a transaction visits.
LEMMA VisitedType ==
  ASSUME BatchInv, NEW j \in Jobs, Visiting(j)
  PROVE  Visited(j) \in Keys /\ Visited(j) \in Range(job[j].todo)
BY TailType DEF BatchInv, Transactions, Visited

\* One step of the model on the transactions: what is written when, and by whom.
LEMMA BatchStep == BatchInv /\ [Next]_vars => BatchInv'
<1> SUFFICES ASSUME BatchInv, [Next]_vars PROVE BatchInv'
  OBVIOUS
<1>i. issues \in Seq(Titled)
  BY DEF BatchInv, Titled
<1>k. ASSUME UNCHANGED <<job, issues, rows>> PROVE BatchInv'
  BY <1>k DEF BatchInv, Visiting
<1>1. ASSUME NEW a \in Askers, Asking(a) PROVE BatchInv'
  <2>1. job' = job /\ issues' = issues
    BY <1>1 DEF Asking, AskRead, AskCommit, AskDies
  <2>2. rows' \in [Keys -> SUBSET Askers]
    BY <1>1 DEF Asking, AskRead, AskCommit, AskDies, backlog, BatchInv
  <2> QED BY <2>1, <2>2 DEF BatchInv, Visiting
<1>2. CASE PromoteTick
  <2>1. PICK todo \in ListOpen : Begin("promoter", "promoted", todo, "search")
    BY <1>2 DEF PromoteTick
  <2>2. todo \in Seq(Keys) /\ "promoter" \in Jobs /\ "search" \in Phases
    BY Reading DEF Jobs, Phases
  <2> QED BY <2>1, <2>2, BeginType
<1>3. CASE ReconcileTick
  <2>1. PICK todo \in ListPromoted : Begin("reconciler", "delivered", todo, "poll")
    BY <1>3 DEF ReconcileTick
  <2>2. todo \in Seq(Keys) /\ "reconciler" \in Jobs /\ "poll" \in Phases
    BY Reading DEF Jobs, Phases
  <2> QED BY <2>1, <2>2, BeginType
<1>4. ASSUME NEW k \in Keys, PromoteByHand(k) \/ DeliverByHand(k) PROVE BatchInv'
  <2>1. <<k>> \in Seq(Keys) /\ "agent" \in Jobs
    BY Reading DEF Jobs
  <2> QED BY <1>4, <2>1, BeginType DEF PromoteByHand, DeliverByHand, Phases
<1>5. ASSUME NEW j \in Jobs, Search(j) PROVE BatchInv'
  <2>1. Visiting(j) /\ rows' = rows /\ issues' = issues
    BY <1>5 DEF Search, Visiting, backlog
  <2>2. CASE Goto(j, "file")
    BY <1>i, <2>1, <2>2, GotoType DEF Phases
  <2>3. ASSUME NEW i \in OpenIssues(TitleOf[Visited(j)]), Found(j, i) PROVE BatchInv'
    <3>1. i \in Nat
      BY <1>i DEF OpenIssues
    <3> QED BY <1>i, <2>1, <2>3, <3>1, FoundType
  <2> QED BY <1>5, <2>2, <2>3 DEF Search
<1>6. ASSUME NEW j \in Jobs, SearchMisses(j) PROVE BatchInv'
  BY <1>i, <1>6, GotoType DEF SearchMisses, Visiting, backlog, Phases
<1>7. ASSUME NEW j \in Jobs, File(j) \/ ReplyLost(j) PROVE BatchInv'
  <2>1. Visiting(j) /\ rows' = rows /\ Create(TitleOf[Visited(j)])
    BY <1>7 DEF File, ReplyLost, Visiting, backlog
  <2>2. issues' \in Seq(Titled) /\ Len(issues) + 1 \in Nat
    <3>1. Visited(j) \in Keys
      BY <2>1, VisitedType
    <3>2. issues' \in Seq(Titled) /\ Len(issues) \in Nat
      BY <2>1, <3>1, CreateType
    <3> QED BY <3>2
  <2>3. Found(j, Len(issues) + 1) \/ Stop(j)
    BY <1>7 DEF File, ReplyLost
  <2> QED BY <2>1, <2>2, <2>3, FoundType, StopType
<1>8. ASSUME NEW j \in Jobs, TrackerFails(j) PROVE BatchInv'
  BY <1>i, <1>8, StopType DEF TrackerFails, backlog
<1>9. ASSUME NEW j \in Jobs, Poll(j) \/ PollFails(j) PROVE BatchInv'
  <2>1. Visiting(j) /\ rows' = rows /\ issues' = issues
    BY <1>9 DEF Poll, PollFails, Visiting, backlog
  <2>2. job[j].staged \in SUBSET Writes
    BY DEF BatchInv, Transactions
  <2>3. Advance(j, job[j].staged) \/ Goto(j, "flush")
    BY <1>9 DEF Poll, PollFails
  <2> QED BY <1>i, <2>1, <2>2, <2>3, AdvanceType, GotoType DEF Phases
<1>10. ASSUME NEW j \in Jobs, Flush(j) PROVE BatchInv'
  <2> DEFINE k == Visited(j)
             told == IF job[j].goal = "delivered" THEN Requesters(k) ELSE {}
             w == [key |-> k, issue |-> job[j].found, told |-> told]
  <2>1. /\ Visiting(j) /\ rows' = rows /\ issues' = issues
        /\ Advance(j, job[j].staged \cup {w})
    BY <1>10 DEF Flush, Visiting, backlog
  <2>2. k \in Keys
    BY <2>1, VisitedType
  <2>3. Requesters(k) \subseteq Companies
    BY <2>2 DEF BatchInv, Requesters, Companies, Voters
  <2>4. job[j].found \in Nat /\ job[j].staged \subseteq Writes
    BY DEF BatchInv, Transactions
  <2>5. w \in Writes
    BY <2>2, <2>3, <2>4 DEF Writes
  <2> HIDE DEF w
  <2> QED BY <2>1, <2>4, <2>5, AdvanceType
<1>11. ASSUME NEW j \in Jobs, Commit(j) \/ JobDies(j) PROVE BatchInv'
  BY <1>11, IdleStep DEF Commit, JobDies, backlog
<1>12. ASSUME NEW i \in DOMAIN issues, IssueCloses(i) PROVE BatchInv'
  <2>1. issues' = [issues EXCEPT ![i] = [issues[i] EXCEPT !.open = FALSE]]
    BY <1>12 DEF IssueCloses
  <2>2. [issues[i] EXCEPT !.open = FALSE] \in Titled
    <3>1. issues[i] \in Titled
      BY <1>i, <1>12
    <3> QED BY <3>1 DEF Titled
  <2>3. issues' \in Seq(Titled)
    BY <1>i, <1>12, <2>1, <2>2
  <2>4. job' = job /\ rows' = rows
    BY <1>12 DEF IssueCloses, backlog
  <2> QED BY <2>3, <2>4 DEF BatchInv, Visiting, Titled
<1>13. CASE UNCHANGED vars
  BY <1>k, <1>13 DEF vars
<1> QED BY <1>1, <1>2, <1>3, <1>4, <1>5, <1>6, <1>7, <1>8, <1>9, <1>10, <1>11, <1>12, <1>13
     DEF Next, Working, Filing


-----------------------------------------------------------------------------
(* Everyone who asked is told.                                                *)

Statuses == {"absent", "open", "promoted", "delivered"}
Entries == [status : Statuses, votes : Nat, issue : Nat]

RowsInv ==
  /\ entry \in [Keys -> Entries]
  /\ notices \in [Keys -> [Companies -> Nat]]

\* The writes of a transaction to an entry.
WritesTo(j, k) == {s \in job[j].staged : s.key = k}

\* What a commit makes of an entry and of its requesters' memories.
LEMMA CommitEffect ==
  ASSUME BatchInv, RowsInv, NEW j \in Jobs, Commit(j)
  PROVE  /\ RowsInv'
         /\ UNCHANGED <<born, rows, ask, issues, upsets, happens>>
         /\ \A k \in Keys :
              /\ WritesTo(j, k) = {} => entry'[k] = entry[k]
              /\ WritesTo(j, k) # {} => entry'[k].status = job[j].goal
              /\ \A c \in Companies :
                   notices'[k][c] = notices[k][c] +
                     (IF \E s \in WritesTo(j, k) : c \in s.told THEN 1 ELSE 0)
         /\ job'[j] = Idle /\ \A i \in Jobs \ {j} : job'[i] = job[i]
<1> DEFINE new(k) == [entry[k] EXCEPT
                        !.status = job[j].goal,
                        !.issue = IF job[j].goal = "promoted"
                                  THEN (CHOOSE s \in WritesTo(j, k) : TRUE).issue
                                  ELSE entry[k].issue]
           more(k, c) == notices[k][c] +
                           (IF \E s \in WritesTo(j, k) : c \in s.told THEN 1 ELSE 0)
<1>1. /\ entry' = [k \in Keys |-> IF WritesTo(j, k) = {} THEN entry[k] ELSE new(k)]
      /\ notices' = [k \in Keys |-> [c \in Companies |-> more(k, c)]]
      /\ job' = [job EXCEPT ![j] = Idle]
      /\ UNCHANGED <<born, rows, ask, issues, upsets, happens>>
  BY DEF Commit, WritesTo
<1>2. ASSUME NEW k \in Keys, WritesTo(j, k) # {}
      PROVE  new(k) \in Entries /\ new(k).status = job[j].goal
  <2>1. PICK s \in WritesTo(j, k) : s = CHOOSE w \in WritesTo(j, k) : TRUE
    BY <1>2
  <2>2. s.issue \in Nat
    BY <2>1 DEF WritesTo, BatchInv, Transactions, Writes
  <2>3. entry[k] \in Entries /\ job[j].goal \in {"promoted", "delivered"}
    BY DEF RowsInv, BatchInv, Transactions
  <2>4. (CHOOSE w \in WritesTo(j, k) : TRUE).issue \in Nat
    BY <2>1, <2>2
  <2> DEFINE n == (CHOOSE w \in WritesTo(j, k) : TRUE).issue
  <2> HIDE DEF n
  <2>5. [entry[k] EXCEPT !.status = job[j].goal,
                         !.issue = IF job[j].goal = "promoted" THEN n ELSE entry[k].issue]
          \in Entries
    BY <2>3, <2>4 DEF Entries, Statuses, n
  <2>6. [entry[k] EXCEPT !.status = job[j].goal,
                         !.issue = IF job[j].goal = "promoted" THEN n ELSE entry[k].issue
        ].status = job[j].goal
    BY <2>3 DEF Entries
  <2> QED BY <2>5, <2>6 DEF n
<1>3. ASSUME NEW k \in Keys, NEW c \in Companies PROVE more(k, c) \in Nat
  BY DEF RowsInv
<1> HIDE DEF new, more
<1>4. RowsInv'
  BY <1>1, <1>2, <1>3 DEF RowsInv
<1>5. ASSUME NEW k \in Keys
      PROVE  /\ WritesTo(j, k) = {} => entry'[k] = entry[k]
             /\ WritesTo(j, k) # {} => entry'[k].status = job[j].goal
             /\ \A c \in Companies : notices'[k][c] = more(k, c)
  BY <1>1, <1>2
<1>6. job'[j] = Idle /\ \A i \in Jobs \ {j} : job'[i] = job[i]
  BY <1>1 DEF BatchInv
<1> QED BY <1>1, <1>4, <1>5, <1>6 DEF more

\* What a call of record_request makes of the entries.
LEMMA AskEffect ==
  ASSUME DemandInv, RowsInv, NEW a \in Askers, Asking(a)
  PROVE  /\ RowsInv' /\ UNCHANGED <<notices, job, issues, happens>>
         /\ \A k \in Keys :
              entry'[k].status = entry[k].status
                \/ (entry[k].status = "absent" /\ entry'[k].status = "open")
         /\ \A k \in Keys, j \in Jobs :
              (\E s \in job[j].staged : s.key = k) => rows'[k] = rows[k]
<1> DEFINE Goal == /\ RowsInv' /\ UNCHANGED <<notices, job, issues, happens>>
                   /\ \A k \in Keys :
                        entry'[k].status = entry[k].status
                          \/ (entry[k].status = "absent" /\ entry'[k].status = "open")
                   /\ \A k \in Keys, j \in Jobs :
                        (\E s \in job[j].staged : s.key = k) => rows'[k] = rows[k]
<1>1. CASE (\E k \in Wants[a] : AskRead(a, k)) \/ AskDies(a)
  BY <1>1 DEF AskRead, AskDies, backlog, RowsInv
<1>2. CASE AskCommit(a)
  <2> DEFINE r == ask[a]
             k == ask[a].key
  <2>1. k \in Keys /\ r.votes \in Nat
    BY <1>2 DEF AskCommit, DemandInv, ReadsOK
  <2>2. UNCHANGED <<notices, job, issues, happens>>
    BY <1>2 DEF AskCommit
  <2>3. CASE UNCHANGED backlog
    BY <2>2, <2>3 DEF backlog, RowsInv
  <2>4. ASSUME ~r.voted, ~ (~r.exists /\ entry[k].status # "absent"),
               rows' = [rows EXCEPT ![k] = @ \cup {a}],
               entry' = [entry EXCEPT ![k] =
                              [@ EXCEPT !.votes = r.votes + 1,
                                        !.status = IF r.exists THEN entry[k].status ELSE "open"]]
        PROVE  Goal
    <3> DEFINE new == [entry[k] EXCEPT !.votes = r.votes + 1,
                                       !.status = IF r.exists THEN entry[k].status ELSE "open"]
    <3>0. entry[k] \in Entries /\ (IF r.exists THEN entry[k].status ELSE "open") \in Statuses
      BY <2>1 DEF RowsInv, Entries, Statuses
    <3>1. /\ new \in Entries
          /\ new.status = entry[k].status \/ (entry[k].status = "absent" /\ new.status = "open")
      <4> DEFINE st == IF r.exists THEN entry[k].status ELSE "open"
                 up == r.votes + 1
      <4>1. st \in Statuses /\ up \in Nat
        BY <2>1, <3>0
      <4>2. st = entry[k].status \/ (entry[k].status = "absent" /\ st = "open")
        BY <2>4
      <4> HIDE DEF st, up
      <4>3. [entry[k] EXCEPT !.votes = up, !.status = st] \in Entries
            /\ [entry[k] EXCEPT !.votes = up, !.status = st].status = st
        BY <3>0, <4>1 DEF Entries
      <4> QED BY <4>2, <4>3 DEF st, up
    <3>2. entry' = [entry EXCEPT ![k] = new]
      BY <2>4
    <3> HIDE DEF new
    <3>3. entry'[k] = new /\ (\A q \in Keys \ {k} : entry'[q] = entry[q]) /\ RowsInv'
      BY <2>1, <2>2, <3>1, <3>2 DEF RowsInv
    <3>4. ~ Locked(k, "none")
      BY <1>2, <2>4 DEF AskCommit
    <3>5. ASSUME NEW q \in Keys, NEW j \in Jobs, \E s \in job[j].staged : s.key = q
          PROVE  rows'[q] = rows[q]
      <4>1. j \in Jobs \ {"none"}
        BY DEF Jobs
      <4>2. q # k
        BY <3>4, <3>5, <4>1 DEF Locked
      <4> QED BY <2>1, <2>4, <4>2 DEF DemandInv, EntriesOK
    <3> QED BY <2>2, <2>4, <3>1, <3>3, <3>5
  <2> QED BY <1>2, <2>3, <2>4 DEF AskCommit
<1> QED BY <1>1, <1>2 DEF Asking

LEMMA RowsInit == Init => RowsInv
<1> SUFFICES ASSUME Init PROVE RowsInv
  OBVIOUS
<1>1. [status |-> "absent", votes |-> 0, issue |-> NoIssue] \in Entries
  BY DEF Entries, Statuses, NoIssue
<1> QED BY <1>1 DEF Init, RowsInv

\* A step of a transaction before its commit: it writes no row, and what it stages is a
\* write to an entry of its batch, with the requesters it reads.
Staged(j) ==
  \/ job'[j].staged = job[j].staged
  \/ /\ job[j].phase = "flush"
     /\ \E s \in Writes :
          /\ job'[j].staged = job[j].staged \cup {s}
          /\ s.key \in Range(job[j].todo)
          /\ s.told = IF job[j].goal = "delivered" THEN Requesters(s.key) ELSE {}

Delivers(j) == job[j].phase \in {"poll", "flush", "commit"}

\* The tracker gets an issue only from a job that was about to file one.
Files(j) ==
  \/ issues' = issues
  \/ /\ job[j].phase = "file" /\ job'[j].phase # "file"
     /\ Create(TitleOf[Visited(j)])

\* And a job is about to file when its search has found nothing, or misled it.
Sought(j) ==
  job'[j].phase = "file" =>
    /\ job[j].phase = "search" /\ job'[j].todo = job[j].todo /\ issues' = issues
    /\ OpenIssues(TitleOf[Visited(j)]) = {} \/ "lag" \in happens

Moves(j) ==
  /\ UNCHANGED <<entry, born, rows, notices, ask, happens>>
  /\ \A i \in Jobs \ {j} : job'[i] = job[i]
  /\ job'[j].goal = job[j].goal
  /\ job[j].phase # "idle"
  /\ Range(job'[j].todo) \subseteq Range(job[j].todo)
  /\ Staged(j)
  /\ job[j].goal = "delivered" /\ Delivers(j) => Delivers(j)'
  /\ Files(j) /\ Sought(j)

LEMMA GotoMoves ==
  ASSUME BatchInv, NEW j \in Jobs, NEW phase \in Phases, Goto(j, phase), Visiting(j),
         UNCHANGED <<entry, born, rows, notices, ask, happens, issues>>,
         \/ phase = "flush"
         \/ /\ phase = "file" /\ job[j].phase = "search"
            /\ OpenIssues(TitleOf[Visited(j)]) = {} \/ "lag" \in happens
  PROVE  Moves(j)
<1>1. job[j] \in Transactions
  BY DEF BatchInv
<1>2. job'[j] = [job[j] EXCEPT !.phase = phase] /\ \A i \in Jobs \ {j} : job'[i] = job[i]
  BY GotoType
<1>3. /\ job'[j].phase = phase /\ job'[j].todo = job[j].todo /\ job'[j].goal = job[j].goal
      /\ job'[j].staged = job[j].staged
  BY <1>1, <1>2 DEF Transactions
<1>4. job[j].phase # "idle"
  BY DEF Visiting
<1>5. job[j].goal = "delivered" /\ Delivers(j) => Delivers(j)'
  BY <1>3 DEF Delivers
<1>6. Files(j) /\ Sought(j)
  BY <1>3 DEF Files, Sought
<1> QED BY <1>2, <1>3, <1>4, <1>5, <1>6 DEF Moves, Staged

LEMMA AdvanceMoves ==
  ASSUME BatchInv, NEW j \in Jobs, NEW writes \in SUBSET Writes, Advance(j, writes),
         Visiting(j), UNCHANGED <<entry, born, rows, notices, ask, happens, issues>>,
         \/ writes = job[j].staged
         \/ /\ job[j].phase = "flush"
            /\ \E s \in Writes :
                 /\ writes = job[j].staged \cup {s}
                 /\ s.key \in Range(job[j].todo)
                 /\ s.told = IF job[j].goal = "delivered" THEN Requesters(s.key) ELSE {}
  PROVE  Moves(j)
<1>1. /\ job'[j].todo = Tail(job[j].todo) /\ job'[j].staged = writes
      /\ job'[j].goal = job[j].goal
      /\ job'[j].phase = Next1(j)
      /\ \A i \in Jobs \ {j} : job'[i] = job[i]
  BY AdvanceType
<1>2. Range(job'[j].todo) \subseteq Range(job[j].todo)
  BY <1>1, TailType DEF BatchInv, Transactions, Visiting
<1>3. /\ job'[j].phase # "file"
      /\ job[j].goal = "delivered" => job'[j].phase \in {"poll", "commit"}
  BY <1>1 DEF Next1
<1>4. job[j].phase # "idle"
  BY DEF Visiting
<1>5. Staged(j)
  BY <1>1 DEF Staged
<1> QED BY <1>1, <1>2, <1>3, <1>4, <1>5 DEF Moves, Delivers, Files, Sought

LEMMA FoundMoves ==
  ASSUME BatchInv, NEW j \in Jobs, NEW i \in Nat, Found(j, i), Visiting(j),
         UNCHANGED <<entry, born, rows, notices, ask, happens>>,
         issues' \in Seq(Titled),
         issues' = issues \/ (job[j].phase = "file" /\ Create(TitleOf[Visited(j)]))
  PROVE  Moves(j)
<1>1. /\ job'[j].todo = job[j].todo /\ job'[j].staged = job[j].staged
      /\ job'[j].goal = job[j].goal /\ job'[j].phase = "flush"
      /\ \A k \in Jobs \ {j} : job'[k] = job[k]
  BY FoundType
<1>2. job[j].phase # "idle"
  BY DEF Visiting
<1> QED BY <1>1, <1>2 DEF Moves, Staged, Delivers, Files, Sought

LEMMA StopMoves ==
  ASSUME BatchInv, NEW j \in Jobs, Stop(j), Visiting(j),
         UNCHANGED <<entry, born, rows, notices, ask, happens>>,
         issues' \in Seq(Titled),
         issues' = issues \/ (job[j].phase = "file" /\ Create(TitleOf[Visited(j)]))
  PROVE  Moves(j)
<1>1. /\ job'[j].todo = <<>> /\ job'[j].staged = job[j].staged
      /\ job'[j].goal = job[j].goal /\ job'[j].phase = "commit"
      /\ \A k \in Jobs \ {j} : job'[k] = job[k]
  BY StopType
<1>2. job[j].phase # "idle" /\ Range(<<>>) = {}
  BY DEF Visiting, Range
<1> QED BY <1>1, <1>2 DEF Moves, Staged, Delivers, Files, Sought

\* Every step of a transaction is such a step, its commit, or its end in a crash.
LEMMA WorkingMoves ==
  ASSUME BatchInv, NEW j \in Jobs, Working(j)
  PROVE  Moves(j) \/ Commit(j) \/ JobDies(j)
<1>i. issues \in Seq(Titled)
  BY DEF BatchInv, Titled
<1> USE DEF backlog
<1>1. CASE Search(j)
  <2>1. Visiting(j) /\ UNCHANGED <<entry, born, rows, notices, ask, happens, issues>>
    BY <1>1 DEF Search, Visiting
  <2>2. CASE OpenIssues(TitleOf[Visited(j)]) = {} /\ Goto(j, "file")
    BY <1>1, <2>1, <2>2, GotoMoves DEF Search, Phases
  <2>3. ASSUME NEW i \in OpenIssues(TitleOf[Visited(j)]), Found(j, i) PROVE Moves(j)
    <3>1. i \in Nat
      BY <1>i DEF OpenIssues
    <3> QED BY <1>i, <2>1, <2>3, <3>1, FoundMoves
  <2> QED BY <1>1, <2>2, <2>3 DEF Search
<1>2. CASE SearchMisses(j)
  BY <1>2, GotoMoves DEF SearchMisses, Upset, Visiting, Phases
<1>3. CASE File(j) \/ ReplyLost(j)
  <2>1. /\ Visiting(j) /\ UNCHANGED <<entry, born, rows, notices, ask, happens>>
        /\ Create(TitleOf[Visited(j)]) /\ job[j].phase = "file"
    BY <1>3 DEF File, ReplyLost, Visiting
  <2>2. issues' \in Seq(Titled) /\ Len(issues) + 1 \in Nat
    <3>1. Visited(j) \in Keys
      BY <2>1, VisitedType
    <3>2. issues' \in Seq(Titled) /\ Len(issues) \in Nat
      BY <2>1, <3>1, CreateType
    <3> QED BY <3>2
  <2>3. Found(j, Len(issues) + 1) \/ Stop(j)
    BY <1>3 DEF File, ReplyLost
  <2> QED BY <2>1, <2>2, <2>3, FoundMoves, StopMoves
<1>4. CASE TrackerFails(j)
  BY <1>i, <1>4, StopMoves DEF TrackerFails, Visiting
<1>5. CASE Poll(j) \/ PollFails(j)
  <2>1. Visiting(j) /\ UNCHANGED <<entry, born, rows, notices, ask, happens, issues>>
    BY <1>5 DEF Poll, PollFails, Visiting
  <2>2. job[j].staged \in SUBSET Writes
    BY DEF BatchInv, Transactions
  <2>3. Advance(j, job[j].staged) \/ Goto(j, "flush")
    BY <1>5 DEF Poll, PollFails
  <2> QED BY <2>1, <2>2, <2>3, AdvanceMoves, GotoMoves DEF Phases
<1>6. CASE Flush(j)
  <2> DEFINE k == Visited(j)
             told == IF job[j].goal = "delivered" THEN Requesters(k) ELSE {}
             w == [key |-> k, issue |-> job[j].found, told |-> told]
  <2>1. /\ Visiting(j) /\ UNCHANGED <<entry, born, rows, notices, ask, happens, issues>>
        /\ Advance(j, job[j].staged \cup {w}) /\ job[j].phase = "flush"
    BY <1>6 DEF Flush, Visiting
  <2>2. k \in Keys /\ k \in Range(job[j].todo)
    BY <2>1, VisitedType
  <2>3. Requesters(k) \subseteq Companies
    BY <2>2 DEF BatchInv, Requesters, Companies, Voters
  <2>4. job[j].found \in Nat /\ job[j].staged \subseteq Writes
    BY DEF BatchInv, Transactions
  <2>5. /\ w \in Writes /\ w.key = k
        /\ w.told = IF job[j].goal = "delivered" THEN Requesters(w.key) ELSE {}
    BY <2>2, <2>3, <2>4 DEF Writes
  <2> HIDE DEF w, k
  <2>6. w.key \in Range(job[j].todo) /\ job[j].staged \cup {w} \in SUBSET Writes
    BY <2>2, <2>4, <2>5
  <2> QED BY <2>1, <2>5, <2>6, AdvanceMoves
<1> QED BY <1>1, <1>2, <1>3, <1>4, <1>5, <1>6 DEF Working, Filing

\* What a transaction opens on.
LEMMA OpensEmpty ==
  ASSUME BatchInv, PromoteTick \/ ReconcileTick \/ \E k \in Keys : PromoteByHand(k) \/ DeliverByHand(k)
  PROVE  /\ UNCHANGED <<entry, born, rows, notices, ask, issues, happens>>
         /\ \E j \in Jobs :
              /\ job'[j].staged = {} /\ job'[j].phase # "file"
              /\ \A i \in Jobs \ {j} : job'[i] = job[i]
<1> DEFINE Opens == /\ UNCHANGED <<entry, born, rows, notices, ask, issues, happens>>
                    /\ \E j \in Jobs :
                         /\ job'[j].staged = {} /\ job'[j].phase # "file"
                         /\ \A i \in Jobs \ {j} : job'[i] = job[i]
<1>1. ASSUME NEW j \in Jobs, NEW goal \in {"promoted", "delivered"}, NEW todo \in Seq(Keys),
             NEW phase \in Phases \ {"file"}, Begin(j, goal, todo, phase)
      PROVE  Opens
  <2>1. /\ job'[j].staged = {} /\ job'[j].phase = phase
        /\ \A i \in Jobs \ {j} : job'[i] = job[i]
    BY <1>1, BeginType
  <2> QED BY <1>1, <2>1 DEF Begin, backlog
<1> HIDE DEF Opens
<1>2. "promoter" \in Jobs /\ "reconciler" \in Jobs /\ "agent" \in Jobs
      /\ {"search", "poll", "flush"} \subseteq Phases \ {"file"}
  BY DEF Jobs, Phases
<1>3. CASE PromoteTick
  <2>1. PICK todo \in ListOpen : Begin("promoter", "promoted", todo, "search")
    BY <1>3 DEF PromoteTick
  <2>2. todo \in Seq(Keys)
    BY Reading
  <2>3. Opens
    BY <1>1, <1>2, <2>1, <2>2
  <2> QED BY <2>3 DEF Opens
<1>4. CASE ReconcileTick
  <2>1. PICK todo \in ListPromoted : Begin("reconciler", "delivered", todo, "poll")
    BY <1>4 DEF ReconcileTick
  <2>2. todo \in Seq(Keys)
    BY Reading
  <2>3. Opens
    BY <1>1, <1>2, <2>1, <2>2
  <2> QED BY <2>3 DEF Opens
<1>5. ASSUME NEW k \in Keys, PromoteByHand(k) \/ DeliverByHand(k) PROVE Opens
  <2>1. <<k>> \in Seq(Keys)
    BY Reading
  <2>2. Begin("agent", "promoted", <<k>>, "search") \/ Begin("agent", "delivered", <<k>>, "flush")
    BY <1>5 DEF PromoteByHand, DeliverByHand
  <2> QED BY <1>1, <1>2, <2>1, <2>2
<1> QED BY <1>3, <1>4, <1>5 DEF Opens

\* A delivery under way has read the requesters that its entry has now: the row it has
\* written to holds the next voters up.
TellInv ==
  \A j \in Jobs : job[j].goal = "delivered" =>
    \A s \in job[j].staged : s.told = Requesters(s.key)

ToldInv == DemandInv /\ BatchInv /\ RowsInv /\ TellInv

LEMMA TellStep == ToldInv /\ [Next]_vars => RowsInv' /\ TellInv'
<1> SUFFICES ASSUME ToldInv, [Next]_vars PROVE RowsInv' /\ TellInv'
  OBVIOUS
<1> USE DEF backlog
<1>0. DemandInv /\ BatchInv /\ RowsInv /\ TellInv
  BY DEF ToldInv
<1>r. ASSUME rows' = rows PROVE \A k : Requesters(k)' = Requesters(k)
  BY <1>r DEF Requesters
<1>1. ASSUME NEW a \in Askers, Asking(a) PROVE RowsInv' /\ TellInv'
  <2>1. /\ RowsInv' /\ job' = job
        /\ \A k \in Keys, j \in Jobs :
             (\E s \in job[j].staged : s.key = k) => rows'[k] = rows[k]
    BY <1>0, <1>1, AskEffect
  <2>2. ASSUME NEW j \in Jobs, NEW s \in job[j].staged
        PROVE  Requesters(s.key)' = Requesters(s.key)
    <3>1. s.key \in Keys
      BY <1>0 DEF BatchInv, Transactions, Writes
    <3> QED BY <2>1, <3>1 DEF Requesters
  <2> QED BY <1>0, <2>1, <2>2 DEF TellInv
<1>2. CASE PromoteTick \/ ReconcileTick \/ \E k \in Keys : PromoteByHand(k) \/ DeliverByHand(k)
  <2>1. PICK j \in Jobs : /\ job'[j].staged = {}
                          /\ \A i \in Jobs \ {j} : job'[i] = job[i]
    BY <1>0, <1>2, OpensEmpty
  <2>2. UNCHANGED <<entry, rows, notices>>
    BY <1>0, <1>2, OpensEmpty
  <2> QED BY <1>0, <1>r, <2>1, <2>2 DEF TellInv, RowsInv
<1>3. ASSUME NEW j \in Jobs, Moves(j) PROVE RowsInv' /\ TellInv'
  <2>1. /\ UNCHANGED <<entry, rows, notices>> /\ job'[j].goal = job[j].goal
        /\ \A i \in Jobs \ {j} : job'[i] = job[i]
        /\ Staged(j)
    BY <1>3 DEF Moves
  <2>2. job[j].goal = "delivered" =>
          \A s \in job'[j].staged : s.told = Requesters(s.key)
    BY <1>0, <2>1 DEF Staged, TellInv
  <2> QED BY <1>0, <1>r, <2>1, <2>2 DEF TellInv, RowsInv
<1>4. ASSUME NEW j \in Jobs, Commit(j) \/ JobDies(j) PROVE RowsInv' /\ TellInv'
  <2>1. rows' = rows /\ job' = [job EXCEPT ![j] = Idle] /\ issues' = issues
    BY <1>4 DEF Commit, JobDies
  <2>2. job'[j] = Idle /\ \A i \in Jobs \ {j} : job'[i] = job[i]
    BY <1>0, <2>1, IdleStep
  <2>3. RowsInv'
    <3>1. CASE Commit(j)
      BY <1>0, <3>1, CommitEffect
    <3>2. CASE JobDies(j)
      BY <1>0, <3>2 DEF JobDies, RowsInv
    <3> QED BY <1>4, <3>1, <3>2
  <2> QED BY <1>0, <1>r, <2>1, <2>2, <2>3, IdleType DEF TellInv
<1>5. CASE (\E i \in DOMAIN issues : IssueCloses(i)) \/ UNCHANGED vars
  <2>1. UNCHANGED <<entry, rows, notices, job>>
    BY <1>5 DEF IssueCloses, vars
  <2> QED BY <1>0, <1>r, <2>1 DEF TellInv, RowsInv
<1>6. ASSUME NEW j \in Jobs, Working(j) PROVE RowsInv' /\ TellInv'
  BY <1>0, <1>3, <1>4, <1>6, WorkingMoves
<1> QED BY <1>1, <1>2, <1>5, <1>6 DEF Next

LEMMA ToldInvariant == Spec => []ToldInv
<1>1. Init => TellInv
  BY IdleType DEF Init, TellInv
<1>2. Init => ToldInv
  BY <1>1, DemandInit, BatchInit, RowsInit DEF ToldInv
<1>3. ToldInv /\ [Next]_vars => ToldInv'
  BY DemandStep, BatchStep, TellStep DEF ToldInv
<1> QED BY <1>2, <1>3, PTL DEF Spec

\* Whoever has a vote on an entry when it becomes delivered is told by the transaction that
\* makes it so: no vote slips in between the read of the requesters and the commit.
THEOREM RequestersAreTold == Spec => AllAreTold
<1> DEFINE Tell == \A k \in Keys :
                     entry[k].status # "delivered" /\ entry'[k].status = "delivered" =>
                       \A c \in Requesters(k) : notices'[k][c] = notices[k][c] + 1
<1>1. ToldInv /\ [Next]_vars => Tell
  <2> SUFFICES ASSUME ToldInv, [Next]_vars, NEW k \in Keys,
                      entry[k].status # "delivered", entry'[k].status = "delivered",
                      NEW c \in Requesters(k)
               PROVE  notices'[k][c] = notices[k][c] + 1
    OBVIOUS
  <2> USE DEF backlog
  <2>0. DemandInv /\ BatchInv /\ RowsInv /\ TellInv
    BY DEF ToldInv
  <2>1. entry' # entry
    OBVIOUS
  <2>2. ASSUME NEW a \in Askers, Asking(a) PROVE FALSE
    BY <2>0, <2>2, AskEffect
  <2>3. ~ (PromoteTick \/ ReconcileTick \/ \E q \in Keys : PromoteByHand(q) \/ DeliverByHand(q))
    BY <2>0, <2>1, OpensEmpty
  <2>4. PICK j \in Jobs : Commit(j)
    <3>1. PICK j \in Jobs : Working(j)
      BY <2>1, <2>2, <2>3 DEF Next, IssueCloses, vars
    <3>2. ~ Moves(j) /\ ~ JobDies(j)
      BY <2>1 DEF Moves, JobDies
    <3> QED BY <2>0, <3>1, <3>2, WorkingMoves
  <2>5. /\ WritesTo(j, k) = {} => entry'[k] = entry[k]
        /\ WritesTo(j, k) # {} => entry'[k].status = job[j].goal
        /\ \A d \in Companies :
             notices'[k][d] = notices[k][d] +
               (IF \E s \in WritesTo(j, k) : d \in s.told THEN 1 ELSE 0)
    BY <2>0, <2>4, CommitEffect
  <2>6. WritesTo(j, k) # {} /\ job[j].goal = "delivered"
    BY <2>5
  <2>7. PICK s \in WritesTo(j, k) : s.told = Requesters(k)
    BY <2>0, <2>6 DEF WritesTo, TellInv
  <2>8. c \in Companies
    BY <2>0 DEF BatchInv, Requesters, Companies, Voters
  <2> QED BY <2>5, <2>7, <2>8
<1>2. ToldInv /\ [Next]_vars => [Tell]_vars
  BY <1>1
<1> QED BY <1>2, ToldInvariant, PTL DEF Spec, AllAreTold

-----------------------------------------------------------------------------
(* A single promoter and a single reconciler: the agent's tools are not used.  *)

Crons == {"promoter", "reconciler"}

\* The status of the entries that a cron takes up.
Takes(j) == IF j = "promoter" THEN "open" ELSE "promoted"

\* The entries a transaction still has to visit or has written to.
InHand(j) == Range(job[j].todo) \cup {s.key : s \in job[j].staged}

\* The crons keep to their own part of the work, and an entry stays as the one that has it
\* in hand found it: the other takes up entries of another status.
CronsInv ==
  /\ job["agent"].phase = "idle" /\ job["agent"].staged = {}
  /\ job["promoter"].goal = "promoted"
  /\ job["reconciler"].phase # "idle" =>
       job["reconciler"].goal = "delivered" /\ Delivers("reconciler")
  /\ \A s \in job["promoter"].staged : s.told = {}
  /\ \A j \in Crons : \A k \in InHand(j) : entry[k].status = Takes(j)

\* A notice stands for a delivery, which is final.
NoticesInv ==
  \A k \in Keys : \A c \in Companies :
    /\ notices[k][c] <= 1
    /\ notices[k][c] # 0 => entry[k].status = "delivered"

ByCronInv == "by_hand" \notin happens => CronsInv /\ NoticesInv

LEMMA HeldType ==
  ASSUME BatchInv, NEW j \in Jobs
  PROVE  InHand(j) \subseteq Keys
BY DEF BatchInv, Transactions, Writes, InHand, Range

\* A cron opens its transaction.
LEMMA CronBegins ==
  ASSUME BatchInv, CronsInv, PromoteTick \/ ReconcileTick
  PROVE  CronsInv'
<1>1. "promoter" \in Jobs /\ "reconciler" \in Jobs /\ "agent" \in Jobs
      /\ {"search", "poll"} \subseteq Phases
  BY DEF Jobs, Phases
<1>2. entry' = entry
  BY DEF PromoteTick, ReconcileTick, Begin, backlog
<1>3. CASE PromoteTick
  <2>1. PICK todo \in ListOpen : Begin("promoter", "promoted", todo, "search")
    BY <1>3 DEF PromoteTick
  <2>2. todo \in Seq(Keys) /\ \A k \in Range(todo) : entry[k].status = "open"
    BY Reading
  <2>3. /\ job'["promoter"].goal = "promoted" /\ job'["promoter"].todo = todo
        /\ job'["promoter"].staged = {}
        /\ job'["reconciler"] = job["reconciler"] /\ job'["agent"] = job["agent"]
    BY <1>1, <2>1, <2>2, BeginType
  <2>4. \A j \in Crons : \A k \in InHand(j)' : entry[k].status = Takes(j)
    BY <2>2, <2>3 DEF CronsInv, Crons, InHand, Takes
  <2> QED BY <1>2, <2>3, <2>4 DEF CronsInv, Delivers
<1>4. CASE ReconcileTick
  <2>1. PICK todo \in ListPromoted : Begin("reconciler", "delivered", todo, "poll")
    BY <1>4 DEF ReconcileTick
  <2>2. todo \in Seq(Keys) /\ \A k \in Range(todo) : entry[k].status = "promoted"
    BY Reading
  <2>3. /\ job'["reconciler"].goal = "delivered" /\ job'["reconciler"].todo = todo
        /\ job'["reconciler"].staged = {} /\ job'["reconciler"].phase = "poll"
        /\ job'["promoter"] = job["promoter"] /\ job'["agent"] = job["agent"]
    BY <1>1, <2>1, <2>2, BeginType
  <2>4. \A j \in Crons : \A k \in InHand(j)' : entry[k].status = Takes(j)
    BY <2>2, <2>3 DEF CronsInv, Crons, InHand, Takes
  <2> QED BY <1>2, <2>3, <2>4 DEF CronsInv, Delivers
<1> QED BY <1>3, <1>4

\* It goes through its batch.
LEMMA CronMoves ==
  ASSUME BatchInv, CronsInv, NEW j \in Jobs, Moves(j)
  PROVE  CronsInv' /\ j \in Crons
<1>1. /\ entry' = entry /\ \A i \in Jobs \ {j} : job'[i] = job[i]
      /\ job'[j].goal = job[j].goal
      /\ job[j].phase # "idle"
      /\ Range(job'[j].todo) \subseteq Range(job[j].todo)
      /\ Staged(j)
      /\ job[j].goal = "delivered" /\ Delivers(j) => Delivers(j)'
  BY DEF Moves
<1>2. j \in Crons /\ job'["agent"] = job["agent"]
  BY <1>1 DEF CronsInv, Jobs, Crons
<1>3. InHand(j)' \subseteq InHand(j)
  BY <1>1 DEF Staged, InHand
<1>4. \A i \in Crons \ {j} : InHand(i)' = InHand(i)
  BY <1>1 DEF InHand, Crons, Jobs
<1>5. \A i \in Crons : \A k \in InHand(i)' : entry'[k].status = Takes(i)
  BY <1>1, <1>3, <1>4 DEF CronsInv
<1>6. CASE j = "promoter"
  <2>1. job'["reconciler"] = job["reconciler"]
    BY <1>1, <1>6 DEF Jobs
  <2>2. \A s \in job'["promoter"].staged : s.told = {}
    BY <1>1, <1>6 DEF Staged, CronsInv
  <2> QED BY <1>1, <1>2, <1>5, <1>6, <2>1, <2>2 DEF CronsInv, Delivers
<1>7. CASE j = "reconciler"
  <2>1. job'["promoter"] = job["promoter"]
    BY <1>1, <1>7 DEF Jobs
  <2> QED BY <1>1, <1>2, <1>5, <1>7, <2>1 DEF CronsInv
<1> QED BY <1>2, <1>6, <1>7 DEF Crons

\* It commits: the entries it has written to are none the other has in hand.
LEMMA CronCommits ==
  ASSUME BatchInv, RowsInv, CronsInv, NoticesInv, NEW j \in Jobs, Commit(j)
  PROVE  CronsInv' /\ NoticesInv'
<1>1. /\ \A k \in Keys :
           /\ WritesTo(j, k) = {} => entry'[k] = entry[k]
           /\ WritesTo(j, k) # {} => entry'[k].status = job[j].goal
           /\ \A c \in Companies :
                notices'[k][c] = notices[k][c] +
                  (IF \E s \in WritesTo(j, k) : c \in s.told THEN 1 ELSE 0)
      /\ job'[j] = Idle /\ \A i \in Jobs \ {j} : job'[i] = job[i]
      /\ RowsInv'
  BY CommitEffect
<1>2. j \in Crons /\ job[j].phase # "idle" /\ job'["agent"] = job["agent"]
  BY <1>1 DEF CronsInv, Jobs, Crons, Commit
<1>3. \A k \in Keys : WritesTo(j, k) # {} => entry[k].status = Takes(j)
  BY <1>2 DEF CronsInv, InHand, WritesTo
<1>4. InHand(j)' = {} /\ \A i \in Crons \ {j} : InHand(i)' = InHand(i)
  BY <1>1, IdleType DEF InHand, Crons, Jobs, Range
<1>5. ASSUME NEW i \in Crons, NEW k \in InHand(i)' PROVE entry'[k].status = Takes(i)
  <2>1. i # j /\ k \in InHand(i) /\ i \in Jobs
    BY <1>4, <1>5 DEF Crons, Jobs
  <2>2. k \in Keys /\ entry[k].status = Takes(i)
    BY <2>1, HeldType DEF CronsInv
  <2>3. Takes(i) # Takes(j)
    BY <1>2, <2>1 DEF Crons, Takes
  <2> QED BY <1>1, <1>3, <2>2, <2>3
<1>6. CronsInv'
  <2>1. j = "promoter" => job'["reconciler"] = job["reconciler"]
    BY <1>1 DEF Jobs
  <2>2. j = "reconciler" => job'["promoter"] = job["promoter"]
    BY <1>1 DEF Jobs
  <2> QED BY <1>1, <1>2, <1>5, <2>1, <2>2, IdleType DEF CronsInv, Crons, Delivers
<1>7. ASSUME NEW k \in Keys, NEW c \in Companies
      PROVE  notices'[k][c] <= 1 /\ (notices'[k][c] # 0 => entry'[k].status = "delivered")
  <2>1. notices[k][c] \in Nat /\ notices[k][c] <= 1
        /\ (notices[k][c] # 0 => entry[k].status = "delivered")
    BY DEF RowsInv, NoticesInv
  <2>2. CASE WritesTo(j, k) = {}
    BY <1>1, <2>1, <2>2
  <2>3. CASE WritesTo(j, k) # {}
    <3>1. entry[k].status # "delivered" /\ notices[k][c] = 0
      BY <1>3, <2>1, <2>3 DEF Takes
    <3>2. CASE j = "promoter"
      <4>1. \A s \in WritesTo(j, k) : s.told = {}
        BY <3>2 DEF CronsInv, WritesTo
      <4> QED BY <1>1, <3>1, <4>1
    <3>3. CASE j = "reconciler"
      <4>1. entry'[k].status = "delivered"
        BY <1>1, <1>2, <2>3, <3>3 DEF CronsInv
      <4> QED BY <1>1, <3>1, <4>1
    <3> QED BY <1>2, <3>2, <3>3 DEF Crons
  <2> QED BY <2>2, <2>3
<1> QED BY <1>6, <1>7 DEF NoticesInv

\* What may happen in a behaviour is settled at its start.
LEMMA HappensKept == ToldInv /\ [Next]_vars => happens' = happens
<1> SUFFICES ASSUME ToldInv, [Next]_vars PROVE happens' = happens
  OBVIOUS
<1>0. DemandInv /\ BatchInv /\ RowsInv
  BY DEF ToldInv
<1>1. ASSUME NEW a \in Askers, Asking(a) PROVE happens' = happens
  BY <1>0, <1>1, AskEffect
<1>2. ASSUME NEW j \in Jobs, Working(j) PROVE happens' = happens
  BY <1>0, <1>2, WorkingMoves DEF Moves, Commit, JobDies
<1> QED BY <1>0, <1>1, <1>2, OpensEmpty DEF Next, IssueCloses, vars

LEMMA ByCronStep == ToldInv /\ ByCronInv /\ [Next]_vars => ByCronInv'
<1> SUFFICES ASSUME ToldInv, ByCronInv, [Next]_vars, "by_hand" \notin happens'
             PROVE  CronsInv' /\ NoticesInv'
  BY DEF ByCronInv
<1> USE DEF backlog
<1>0. DemandInv /\ BatchInv /\ RowsInv
  BY DEF ToldInv
<1>h. happens' = happens
  BY HappensKept
<1>c. CronsInv /\ NoticesInv
  BY <1>h DEF ByCronInv
<1>k. ASSUME UNCHANGED <<entry, notices, job>> PROVE CronsInv' /\ NoticesInv'
  BY <1>c, <1>k DEF CronsInv, NoticesInv, InHand, Delivers
<1>n. ASSUME UNCHANGED <<entry, notices>> PROVE NoticesInv'
  BY <1>c, <1>n DEF NoticesInv
<1>1. ASSUME NEW a \in Askers, Asking(a) PROVE CronsInv' /\ NoticesInv'
  <2>1. /\ UNCHANGED <<notices, job>>
        /\ \A k \in Keys :
             entry'[k].status = entry[k].status
               \/ (entry[k].status = "absent" /\ entry'[k].status = "open")
    BY <1>0, <1>1, AskEffect
  <2>2. ASSUME NEW j \in Crons, NEW k \in InHand(j)' PROVE entry'[k].status = Takes(j)
    <3>1. k \in InHand(j) /\ k \in Keys
      BY <1>0, <2>1, <2>2, HeldType DEF InHand, Crons, Jobs
    <3> QED BY <1>c, <2>1, <3>1 DEF CronsInv, Takes
  <2>3. CronsInv'
    BY <1>c, <2>1, <2>2 DEF CronsInv, Delivers
  <2> QED BY <1>c, <2>1, <2>3 DEF NoticesInv
<1>2. CASE PromoteTick \/ ReconcileTick
  BY <1>0, <1>c, <1>n, <1>2, CronBegins DEF PromoteTick, ReconcileTick, Begin
<1>3. CASE \E k \in Keys : PromoteByHand(k) \/ DeliverByHand(k)
  BY <1>h, <1>3 DEF PromoteByHand, DeliverByHand, Upset
<1>4. ASSUME NEW j \in Jobs, Moves(j) PROVE CronsInv' /\ NoticesInv'
  BY <1>0, <1>c, <1>n, <1>4, CronMoves DEF Moves
<1>5. ASSUME NEW j \in Jobs, Commit(j) PROVE CronsInv' /\ NoticesInv'
  BY <1>0, <1>c, <1>5, CronCommits
<1>6. ASSUME NEW j \in Jobs, JobDies(j) PROVE CronsInv' /\ NoticesInv'
  <2>1. UNCHANGED <<entry, notices, rows, issues>> /\ job' = [job EXCEPT ![j] = Idle]
    BY <1>6 DEF JobDies
  <2>2. job'[j] = Idle /\ \A i \in Jobs \ {j} : job'[i] = job[i]
    BY <1>0, <2>1, IdleStep
  <2>3. \A i \in Jobs : InHand(i)' \subseteq InHand(i)
    BY <2>2, IdleType DEF InHand, Range
  <2>4. \A i \in Jobs : job'[i] = job[i] \/ job'[i] = Idle
    BY <2>2
  <2>5. \A i \in Crons : \A k \in InHand(i)' : entry'[k].status = Takes(i)
    BY <1>c, <2>1, <2>3 DEF CronsInv, Crons, Jobs
  <2>6. "agent" \in Jobs /\ "promoter" \in Jobs /\ "reconciler" \in Jobs
    BY DEF Jobs
  <2>7. CronsInv'
    BY <1>c, <2>4, <2>5, <2>6, IdleType DEF CronsInv, Delivers
  <2> QED BY <1>n, <2>1, <2>7
<1>7. ASSUME NEW j \in Jobs, Working(j) PROVE CronsInv' /\ NoticesInv'
  BY <1>0, <1>4, <1>5, <1>6, <1>7, WorkingMoves
<1>8. CASE (\E i \in DOMAIN issues : IssueCloses(i)) \/ UNCHANGED vars
  BY <1>k, <1>8 DEF IssueCloses, vars
<1> QED BY <1>1, <1>2, <1>3, <1>7, <1>8 DEF Next

LEMMA ByCronInit == Init => ByCronInv
<1> SUFFICES ASSUME Init PROVE CronsInv /\ NoticesInv
  BY DEF ByCronInv
<1>1. \A j \in Jobs : job[j] = Idle
  BY DEF Init
<1>2. \A j \in Jobs : InHand(j) = {}
  BY <1>1, IdleType DEF InHand, Range
<1>3. CronsInv
  BY <1>1, <1>2, IdleType DEF CronsInv, Crons, Jobs
<1>4. NoticesInv
  BY DEF Init, NoticesInv
<1> QED BY <1>3, <1>4

\* As long as nobody promotes or delivers by hand, no company hears twice of one delivery.
THEOREM NobodyIsToldTwice == Spec => []ToldOnce
<1>1. Init => ByCronInv
  BY ByCronInit
<1>2. ToldInv /\ ByCronInv /\ [Next]_vars => ByCronInv'
  BY ByCronStep
<1>3. ByCronInv => ToldOnce
  BY DEF ByCronInv, NoticesInv, ToldOnce
<1> QED BY <1>1, <1>2, <1>3, ToldInvariant, PTL DEF Spec

\* No title has two open issues, and none when its issue is about to be filed: only the
\* promoter files, and nobody else between its search and that.
TitlesInv ==
  /\ \A t \in {TitleOf[k] : k \in Keys} : \A i, l \in OpenIssues(t) : i = l
  /\ job["promoter"].phase = "file" => OpenIssues(TitleOf[Visited("promoter")]) = {}

FiledInv == happens \cap {"by_hand", "lag"} = {} => TitlesInv

\* A new issue for a title that has none open.
LEMMA FiledOnce ==
  ASSUME BatchInv, NEW k \in Keys, Create(TitleOf[k]), OpenIssues(TitleOf[k]) = {},
         \A t \in {TitleOf[q] : q \in Keys} : \A i, l \in OpenIssues(t) : i = l
  PROVE  \A t \in {TitleOf[q] : q \in Keys} : \A i, l \in OpenIssues(t)' : i = l
<1>1. /\ Len(issues) \in Nat /\ DOMAIN issues = 1 .. Len(issues)
      /\ DOMAIN issues' = 1 .. Len(issues) + 1
      /\ \A i \in DOMAIN issues : issues'[i] = issues[i]
      /\ issues'[Len(issues) + 1] = [title |-> TitleOf[k], open |-> TRUE]
  BY CreateType
<1> DEFINE last == Len(issues) + 1
<1>2. \A i \in DOMAIN issues' : i = last \/ i \in DOMAIN issues
  BY <1>1
<1>3. issues'[last].title = TitleOf[k]
  BY <1>1
<1> HIDE DEF last
<1>4. ASSUME NEW t \in {TitleOf[q] : q \in Keys}, NEW i \in OpenIssues(t)'
      PROVE  IF t = TitleOf[k] THEN i = last ELSE i \in OpenIssues(t)
  <2>1. i \in DOMAIN issues' /\ issues'[i].title = t /\ issues'[i].open
    BY <1>4 DEF OpenIssues
  <2>2. CASE i = last
    BY <1>3, <2>1, <2>2
  <2>3. CASE i \in DOMAIN issues
    BY <1>1, <2>1, <2>3 DEF OpenIssues
  <2> QED BY <1>2, <2>1, <2>2, <2>3
<1> QED BY <1>4

LEMMA FiledStep == ToldInv /\ ByCronInv /\ FiledInv /\ [Next]_vars => FiledInv'
<1> SUFFICES ASSUME ToldInv, ByCronInv, FiledInv, [Next]_vars,
                    happens' \cap {"by_hand", "lag"} = {}
             PROVE  TitlesInv'
  BY DEF FiledInv
<1> USE DEF backlog
<1>0. DemandInv /\ BatchInv /\ RowsInv
  BY DEF ToldInv
<1>h. happens' = happens
  BY HappensKept
<1>c. CronsInv /\ TitlesInv /\ "lag" \notin happens
  BY <1>h DEF ByCronInv, FiledInv
<1>p. "promoter" \in Jobs
  BY DEF Jobs
\* The tracker gets nothing new and the promoter does not come to file.
<1>k. ASSUME \A t : OpenIssues(t)' \subseteq OpenIssues(t),
             job'["promoter"] = job["promoter"] \/ job'["promoter"].phase # "file"
      PROVE  TitlesInv'
  <2>1. \A t \in {TitleOf[k] : k \in Keys} : \A i, l \in OpenIssues(t)' : i = l
    BY <1>c, <1>k DEF TitlesInv
  <2>2. job'["promoter"].phase = "file" => OpenIssues(TitleOf[Visited("promoter")])' = {}
    BY <1>c, <1>k DEF TitlesInv, Visited
  <2> QED BY <2>1, <2>2 DEF TitlesInv
<1>i. ASSUME issues' = issues PROVE \A t : OpenIssues(t)' = OpenIssues(t)
  BY <1>i DEF OpenIssues
<1>1. ASSUME NEW a \in Askers, Asking(a) PROVE TitlesInv'
  BY <1>0, <1>1, <1>i, <1>k, AskEffect
<1>2. CASE PromoteTick \/ ReconcileTick \/ \E k \in Keys : PromoteByHand(k) \/ DeliverByHand(k)
  BY <1>0, <1>2, <1>i, <1>k, <1>p, OpensEmpty
<1>3. ASSUME NEW j \in Jobs, Moves(j) PROVE TitlesInv'
  <2>1. /\ Files(j) /\ Sought(j) /\ job[j].phase # "idle"
        /\ \A i \in Jobs \ {j} : job'[i] = job[i]
    BY <1>3 DEF Moves
  <2>2. j \in Crons
    BY <1>0, <1>c, <1>3, CronMoves
  <2>3. CASE j = "reconciler"
    <3>1. job[j].phase # "file" /\ job'["promoter"] = job["promoter"]
      BY <1>c, <1>p, <2>1, <2>3 DEF CronsInv, Delivers
    <3> QED BY <1>i, <1>k, <2>1, <3>1 DEF Files
  <2>4. CASE j = "promoter" /\ issues' = issues
    <3>1. CASE job'[j].phase # "file"
      BY <1>i, <1>k, <2>4, <3>1
    <3>2. CASE job'[j].phase = "file"
      <4>1. OpenIssues(TitleOf[Visited(j)]) = {} /\ Visited(j)' = Visited(j)
        BY <1>c, <2>1, <3>2 DEF Sought, Visited
      <4> QED BY <1>c, <1>i, <2>4, <4>1 DEF TitlesInv
    <3> QED BY <3>1, <3>2
  <2>5. CASE /\ j = "promoter" /\ job[j].phase = "file" /\ job'[j].phase # "file"
             /\ Create(TitleOf[Visited(j)])
    <3>1. Visited(j) \in Keys
      BY <1>0, <2>5, VisitedType DEF Visiting
    <3>2. OpenIssues(TitleOf[Visited(j)]) = {}
      BY <1>c, <2>5 DEF TitlesInv
    <3>3. \A t \in {TitleOf[q] : q \in Keys} : \A i, l \in OpenIssues(t)' : i = l
      BY <1>0, <1>c, <2>5, <3>1, <3>2, FiledOnce DEF TitlesInv
    <3> QED BY <2>5, <3>3 DEF TitlesInv
  <2> QED BY <2>1, <2>2, <2>3, <2>4, <2>5 DEF Crons, Files
<1>4. ASSUME NEW j \in Jobs, Commit(j) \/ JobDies(j) PROVE TitlesInv'
  <2>1. UNCHANGED <<rows, issues>> /\ job' = [job EXCEPT ![j] = Idle]
    BY <1>4 DEF Commit, JobDies
  <2>2. job'[j] = Idle /\ \A i \in Jobs \ {j} : job'[i] = job[i]
    BY <1>0, <2>1, IdleStep
  <2> QED BY <1>i, <1>k, <1>p, <2>1, <2>2, IdleType
<1>5. ASSUME NEW j \in Jobs, Working(j) PROVE TitlesInv'
  BY <1>0, <1>3, <1>4, <1>5, WorkingMoves
<1>6. ASSUME NEW i \in DOMAIN issues, IssueCloses(i) PROVE TitlesInv'
  <2>1. /\ issues' = [issues EXCEPT ![i] = [issues[i] EXCEPT !.open = FALSE]]
        /\ job' = job
    BY <1>6 DEF IssueCloses
  <2>2. issues[i] \in Titled /\ DOMAIN issues' = DOMAIN issues
    <3>1. issues \in Seq(Titled)
      BY <1>0 DEF BatchInv, Titled
    <3> QED BY <1>6, <2>1, <3>1
  <2>3. \A l \in DOMAIN issues : issues'[l] = issues[l] \/ ~issues'[l].open
    BY <2>1, <2>2 DEF Titled
  <2>4. \A t : OpenIssues(t)' \subseteq OpenIssues(t)
    BY <2>2, <2>3 DEF OpenIssues
  <2> QED BY <1>k, <2>1, <2>4
<1>7. CASE UNCHANGED vars
  BY <1>i, <1>k, <1>7 DEF vars
<1> QED BY <1>1, <1>2, <1>5, <1>6, <1>7 DEF Next

\* With a single promoter and a search that sees what is open, no two open issues have one
\* title, whichever process dies between the filing and its commit.
THEOREM TitlesAreFiledOnce == Spec => []OneOpenIssue
<1>1. Init => FiledInv /\ ByCronInv
  <2>1. Init => FiledInv
    <3> SUFFICES ASSUME Init PROVE TitlesInv
      BY DEF FiledInv
    <3>1. \A t : OpenIssues(t) = {}
      BY DEF Init, OpenIssues
    <3>2. job["promoter"] = Idle
      BY DEF Init, Jobs
    <3> QED BY <3>1, <3>2, IdleType DEF TitlesInv
  <2> QED BY <2>1, ByCronInit
<1>2. ToldInv /\ ByCronInv /\ FiledInv /\ [Next]_vars => (ByCronInv /\ FiledInv)'
  BY ByCronStep, FiledStep
<1>3. ToldInv /\ FiledInv => OneOpenIssue
  <2> SUFFICES ASSUME ToldInv, TitlesInv, NEW t \in {TitleOf[k] : k \in Keys}
               PROVE  Cardinality(OpenIssues(t)) <= 1
    BY DEF FiledInv, OneOpenIssue
  <2>1. CASE OpenIssues(t) = {}
    BY <2>1, FS_EmptySet
  <2>2. ASSUME NEW i \in OpenIssues(t) PROVE Cardinality(OpenIssues(t)) <= 1
    <3>1. OpenIssues(t) = {i}
      BY DEF TitlesInv
    <3> QED BY <3>1, FS_Singleton
  <2> QED BY <2>1, <2>2
<1> QED BY <1>1, <1>2, <1>3, ToldInvariant, PTL DEF Spec
=============================================================================
