----------------------------- MODULE RunProofs ------------------------------
(***************************************************************************)
(* Theorems about a run: RunCycle's, for every set of runs and job slots;      *)
(* Oversight's, about the reviews without which a run's tasks do not end; and  *)
(* Transcript's, about the memory such a task works with.  No action of one    *)
(* of these modules reads another's variables.                               *)
(***************************************************************************)
EXTENDS RunCycle, Oversight, Transcript, FiniteSetTheorems, SequenceTheorems,
        WellFoundedInduction, TLAPS

-----------------------------------------------------------------------------
(* Types and closed runs, whatever happens.                                  *)

\* Only an open run has active tasks, and a slot that winds down has a run.
Quiet == \A r \in Runs : run[r] # "running" => active[r] = 0
Winding == \A w \in Slots : at[w] = "idle" <=> of[w] = NoRun

CycleInv == TypeOK /\ Quiet /\ Winding

LEMMA CycleInit == Init => CycleInv
<1> SUFFICES ASSUME Init PROVE CycleInv
  OBVIOUS
<1>1. PICK r \in Runs :
        /\ run = [s \in Runs |-> IF s = r THEN "running" ELSE "none"]
        /\ active = [s \in Runs |-> IF s = r THEN 1 ELSE 0]
  BY DEF Init
<1>2. 0 \in 0 .. MaxTasks /\ 1 \in 0 .. MaxTasks
  BY BoundsAssumption
<1>3. active \in [Runs -> 0 .. MaxTasks]
  BY <1>1, <1>2
<1> QED BY <1>1, <1>3 DEF Init, CycleInv, TypeOK, Quiet, Winding, Triggers

\* A run that is created, and the tables.
LEMMA OpensKeeps ==
  ASSUME CycleInv, NEW r \in Runs, NEW why \in Triggers, NEW closed \in SUBSET Runs,
         \A s \in closed : active[s] = 0,
         Opens(r, why, closed)
  PROVE  /\ run' \in [Runs -> {"none", "running", "done"}]
         /\ trigger' \in [Runs -> Triggers]
         /\ active' \in [Runs -> 0 .. MaxTasks]
         /\ worked' \in [Runs -> BOOLEAN]
         /\ retro' \in [Runs -> {0, 1}]
         /\ Quiet'
<1>1. 1 \in 0 .. MaxTasks
  BY BoundsAssumption
<1>2. active' \in [Runs -> 0 .. MaxTasks]
  BY <1>1 DEF CycleInv, TypeOK, Opens
<1>3. Quiet'
  BY DEF CycleInv, TypeOK, Quiet, Opens
<1> QED BY <1>2, <1>3 DEF CycleInv, TypeOK, Opens

LEMMA LeaveKeeps ==
  ASSUME CycleInv, NEW w \in Slots, Leave(w)
  PROVE  /\ at' \in [Slots -> {"idle", "counting", "claiming"}]
         /\ of' \in [Slots -> Runs \cup {NoRun}]
         /\ Winding'
BY DEF CycleInv, TypeOK, Winding, Leave

\* What a slot winds down is a run.
LEMMA ClaimsRun ==
  ASSUME CycleInv, NEW w \in Slots, at[w] # "idle"
  PROVE  of[w] \in Runs
BY DEF CycleInv, TypeOK, Winding

LEMMA CycleStep == CycleInv /\ [Next]_vars => CycleInv'
<1> SUFFICES ASSUME CycleInv, [Next]_vars PROVE CycleInv'
  OBVIOUS
<1> USE DEF CycleInv, tables, slots
<1>1. ASSUME NEW r \in Runs, Dispatch(r) PROVE CycleInv'
  <2>1. active' = [active EXCEPT ![r] = active[r] + 1] /\ active[r] \in 1 .. MaxTasks - 1
    BY <1>1 DEF Dispatch
  <2>2. active[r] + 1 \in 0 .. MaxTasks /\ active[r] # 0
    BY <2>1, BoundsAssumption
  <2>3. active' \in [Runs -> 0 .. MaxTasks]
    BY <2>1, <2>2 DEF TypeOK
  <2>4. Quiet'
    BY <1>1, <2>1, <2>2 DEF TypeOK, Quiet, Dispatch
  <2> QED BY <1>1, <2>3, <2>4 DEF TypeOK, Winding, Dispatch
<1>2. ASSUME NEW r \in Runs, active[r] > 0, active' = [active EXCEPT ![r] = @ - 1],
             UNCHANGED run
      PROVE  active' \in [Runs -> 0 .. MaxTasks] /\ Quiet'
  <2>1. active[r] - 1 \in 0 .. MaxTasks
    BY <1>2, BoundsAssumption DEF TypeOK
  <2> QED BY <1>2, <2>1, BoundsAssumption DEF TypeOK, Quiet
<1>3. ASSUME NEW r \in Runs, NEW w \in Slots, Finish(w, r) PROVE CycleInv'
  <2>1. Winding' /\ at' \in [Slots -> {"idle", "counting", "claiming"}]
                 /\ of' \in [Slots -> Runs \cup {NoRun}]
    BY <1>3, RunsAssumption DEF TypeOK, Winding, Finish
  <2> QED BY <1>2, <1>3, <2>1 DEF TypeOK, Finish
<1>4. ASSUME NEW r \in Runs, EndSilently(r) PROVE CycleInv'
  BY <1>2, <1>4 DEF TypeOK, Winding, EndSilently
<1>5. ASSUME NEW w \in Slots, Count(w) PROVE CycleInv'
  <2>1. CASE active[of[w]] > 0
    BY <1>5, <2>1, LeaveKeeps DEF TypeOK, Quiet, Count
  <2>2. CASE ~ (active[of[w]] > 0)
    BY <1>5, <2>2 DEF TypeOK, Quiet, Winding, Count
  <2> QED BY <2>1, <2>2
<1>6. ASSUME NEW w \in Slots, ClaimNothing(w) PROVE CycleInv'
  BY <1>6, LeaveKeeps DEF TypeOK, Quiet, ClaimNothing
<1>7. ASSUME NEW w \in Slots, OpenRetro(w) PROVE CycleInv'
  <2>1. of[w] \in Runs
    BY <1>7, ClaimsRun DEF OpenRetro
  <2>2. retro' \in [Runs -> {0, 1}]
    BY <1>7, <2>1 DEF TypeOK, OpenRetro, WantsRetro
  <2>3. active' \in [Runs -> 0 .. MaxTasks]
    BY <1>7, <2>1, BoundsAssumption DEF TypeOK, OpenRetro
  <2>4. Quiet'
    BY <1>7, <2>1 DEF TypeOK, Quiet, OpenRetro, StillOver
  <2> QED BY <1>7, <2>2, <2>3, <2>4, LeaveKeeps DEF TypeOK, OpenRetro
<1>8. ASSUME NEW w \in Slots, CloseRun(w) PROVE CycleInv'
  <2>1. of[w] \in Runs /\ active[of[w]] = 0
    BY <1>8, ClaimsRun DEF CloseRun, StillOver
  <2>2. CASE healthy
    <3>1. PICK r \in Runs : Opens(r, "scheduled", {of[w]})
      BY <1>8, <2>2 DEF CloseRun
    <3>2. "scheduled" \in Triggers /\ {of[w]} \in SUBSET Runs
      BY <2>1 DEF Triggers
    <3>3. \A s \in {of[w]} : active[s] = 0
      BY <2>1
    <3> QED BY <1>8, <3>1, <3>2, <3>3, OpensKeeps, LeaveKeeps DEF TypeOK, CloseRun
  <2>3. CASE ~ healthy
    BY <1>8, <2>1, <2>3, LeaveKeeps DEF TypeOK, Quiet, CloseRun
  <2> QED BY <2>2, <2>3
<1>9. ASSUME NEW s \in Lookers, FindIdle(s) PROVE CycleInv'
  BY <1>9 DEF TypeOK, Quiet, Winding, FindIdle
<1>10. ASSUME NEW s \in Lookers \cup {"recovery"}, Start(s) PROVE CycleInv'
  <2>1. PICK r \in Runs : Opens(r, "scheduled", {})
    BY <1>10 DEF Start
  <2>2. "scheduled" \in Triggers
    BY DEF Triggers
  <2> QED BY <1>10, <2>1, <2>2, OpensKeeps DEF TypeOK, Winding, Start
<1>11. ASSUME FounderDm PROVE CycleInv'
  <2>1. PICK r \in Runs : Opens(r, "founder_command", {})
    BY <1>11 DEF FounderDm
  <2>2. "founder_command" \in Triggers
    BY DEF Triggers
  <2> QED BY <1>11, <2>1, <2>2, OpensKeeps DEF TypeOK, Winding, FounderDm
<1>12. ASSUME Restart PROVE CycleInv'
  BY <1>12 DEF TypeOK, Quiet, Winding, Restart, Lookers
<1>13. ASSUME TurnHealth PROVE CycleInv'
  BY <1>13 DEF TypeOK, Quiet, Winding, TurnHealth
<1>14. ASSUME UNCHANGED vars PROVE CycleInv'
  BY <1>14 DEF vars, TypeOK, Quiet, Winding
<1> QED BY <1>1, <1>3, <1>4, <1>5, <1>6, <1>7, <1>8, <1>9, <1>10, <1>11, <1>12, <1>13, <1>14
        DEF Next, WindDown

LEMMA CycleHolds == Spec => []CycleInv
BY CycleInit, CycleStep, PTL DEF Spec

\* The types of the runs, with at most one retrospective in a run however many
\* finishers wind it down.
THEOREM TypeCorrect == Spec => []TypeOK
<1>1. CycleInv => TypeOK
  BY DEF CycleInv
<1> QED BY <1>1, CycleHolds, PTL

\* Whoever starts runs, dies or is paused, a run is closed only when nothing in it is
\* active: the check under the run's lock sees the retrospective of another finisher.
THEOREM ClosedRunsAreQuiet == Spec => []ClosedIsQuiet
<1>1. CycleInv => ClosedIsQuiet
  BY DEF CycleInv, Quiet, ClosedIsQuiet
<1> QED BY <1>1, CycleHolds, PTL

-----------------------------------------------------------------------------
(* One cycle, while only the winding down starts the next.                   *)

\* What may happen is settled at the start.
LEMMA Settled == [Next]_vars => happens' = happens
BY DEF Next, vars, tables, slots, WindDown, Dispatch, EndSilently, Finish, Count,
       ClaimNothing, OpenRetro, CloseRun, FindIdle, Start, FounderDm, Restart, TurnHealth

\* At most one run is open, and nobody else is about to start one.
OneRun ==
    /\ \A r, s \in Runs : run[r] = "running" /\ run[s] = "running" => r = s
    /\ saw = {}

\* While only the winding down opens runs, one finisher's claim closes the one that is
\* open before it opens the next.
LEMMA OneRunStep ==
  ASSUME CycleInv, OnlyContinues, OneRun, [Next]_vars
  PROVE  OneRun'
<1>1. ASSUME UNCHANGED <<run, saw>> PROVE OneRun'
  BY <1>1 DEF OneRun
<1>2. ASSUME NEW w \in Slots, CloseRun(w) PROVE OneRun'
  <2>1. of[w] \in Runs /\ run[of[w]] = "running"
    BY <1>2, ClaimsRun DEF CloseRun, StillOver
  <2>2. CASE healthy
    <3>1. PICK r \in Runs : Opens(r, "scheduled", {of[w]})
      BY <1>2, <2>2 DEF CloseRun
    <3>2. \A s \in Runs : run'[s] = "running" => s = r
      BY <2>1, <3>1 DEF OneRun, Opens
    <3> QED BY <1>2, <3>2 DEF OneRun, CloseRun
  <2>3. CASE ~ healthy
    BY <1>2, <2>1, <2>3 DEF CycleInv, TypeOK, OneRun, CloseRun
  <2> QED BY <2>2, <2>3
<1>3. /\ \A s \in Lookers : ~ FindIdle(s)
      /\ \A s \in Lookers \cup {"recovery"} : ~ Start(s)
      /\ ~ FounderDm /\ ~ Restart
  BY DEF OneRun, OnlyContinues, Lookers, FindIdle, Start, FounderDm, Restart
<1>4. ASSUME NEW r \in Runs, Dispatch(r) PROVE OneRun'
  BY <1>1, <1>4 DEF Dispatch
<1>5. ASSUME NEW r \in Runs, EndSilently(r) PROVE OneRun'
  BY <1>1, <1>5 DEF EndSilently
<1>6. ASSUME NEW r \in Runs, NEW w \in Slots, Finish(w, r) PROVE OneRun'
  BY <1>1, <1>6 DEF Finish
<1>7. ASSUME NEW w \in Slots, Count(w) \/ ClaimNothing(w) \/ OpenRetro(w) PROVE OneRun'
  BY <1>1, <1>7 DEF Count, ClaimNothing, OpenRetro, tables
<1>8. ASSUME TurnHealth \/ UNCHANGED vars PROVE OneRun'
  BY <1>1, <1>8 DEF TurnHealth, tables, vars
<1> QED BY <1>2, <1>3, <1>4, <1>5, <1>6, <1>7, <1>8 DEF Next, WindDown

\* However many tasks end at once, however their finishers interleave and whatever turns
\* the company's health, the next cycle is started once ("concurrent finishers can't
\* double-launch").
THEOREM OneCycleAtATime == Spec => []OneCycle
<1>1. Init => (OnlyContinues => OneRun)
  BY DEF Init, OneRun
<1>2. CycleInv /\ (OnlyContinues => OneRun) /\ [Next]_vars => (OnlyContinues => OneRun)'
  <2> SUFFICES ASSUME CycleInv, OnlyContinues => OneRun, [Next]_vars, OnlyContinues'
               PROVE  OneRun'
    OBVIOUS
  <2>1. OnlyContinues
    BY Settled DEF OnlyContinues
  <2> QED BY <2>1, OneRunStep
<1>3. CycleInv /\ (OnlyContinues => OneRun) => OneCycle
  BY DEF CycleInv, TypeOK, Quiet, OneRun, OneCycle, LiveCyclesAgree, Cycling
<1> QED BY <1>1, <1>2, <1>3, CycleHolds, PTL DEF Spec

-----------------------------------------------------------------------------
(* A delegated task ends, and so leaves its run, when a review of it does: the *)
(* theorems about Oversight, for every set of tasks and every cap.             *)

ReviewRows ==
    /\ status \in [Tasks -> Statuses]
    /\ runs \in [Tasks -> BOOLEAN]
    /\ rounds \in [Tasks -> Nat]
    /\ retries \in [Tasks -> Nat]
    /\ result \in [Tasks -> {"none", "success", "failure"}]
    /\ review \in [Tasks -> [Reviews -> {"free", "queued", "running", "waiting", "resumed"}]]
    /\ kind \in [Tasks -> [Reviews -> Kinds]]
    /\ verdict \in [Tasks -> [Reviews -> {"none", "reopen", "retry"}]]
    /\ current \in [Tasks -> Reviews \cup {NoReview}]

\* What a task in auditing awaits is the review of its last result.
KindInv ==
    \A t \in Tasks : status[t] = "auditing" =>
      /\ current[t] \in Reviews
      /\ kind[t][current[t]] = IF result[t] = "success" THEN "audit" ELSE "failure"

\* While a review ends with its verdict, the last one made is the only one alive.  A
\* verdict is given by a review at work, and by one at a time.
AliveInv ==
    \A t \in Tasks : \A r \in Reviews :
      /\ "slow_review" \notin befalls /\ ~ FreeSlot(t, r) => r = current[t]
      /\ verdict[t][r] # "none" =>
           /\ review[t][r] \in {"running", "resumed"}
           /\ \A q \in Reviews \ {r} : verdict[t][q] = "none"

\* Nobody works on a task that is held or on offer: a verdict is given on one that is held,
\* and the cron may have failed the row of one that is executed.
RunsInv ==
    \A t \in Tasks :
      /\ runs[t] => status[t] \in {"running", "failed"} /\ ~ Deciding(t)
      /\ Deciding(t) => status[t] \notin {"queued", "running"}

WorkInv == ReviewRows /\ KindInv /\ AliveInv /\ RunsInv

LEMMA WorkInit == ReviewInit => WorkInv
BY DEF ReviewInit, Statuses, Kinds, FreeSlot, Deciding, WorkInv, ReviewRows, KindInv,
       AliveInv, RunsInv

\* What the park in auditing does.
LEMMA HoldDoes ==
  ASSUME ReviewRows, NEW t \in Tasks, NEW k \in Kinds, NEW n, Hold(t, k, n)
  PROVE  \E r \in Reviews :
           /\ review[t][r] = "free"
           /\ review' = [review EXCEPT ![t][r] = "queued"]
           /\ kind' = [kind EXCEPT ![t][r] = k]
           /\ current' = [current EXCEPT ![t] = r]
           /\ status' = [status EXCEPT ![t] = "auditing"]
           /\ verdict' = verdict
           /\ "slow_review" \notin befalls => \A q \in Reviews : review[t][q] = "free"
BY DEF Hold, FreeSlot, SetReview, SetStatus

\* What the steps do that make no review and give no verdict: a review moves on, or ends,
\* and the row of a task with it.
Moves(t) ==
    /\ \/ status' = status
       \/ \E s \in Ended : status' = [status EXCEPT ![t] = s]
    /\ \/ review' = review
       \/ \E r \in Reviews : \E n \in {"free", "running", "waiting", "resumed"} :
            /\ review' = [review EXCEPT ![t][r] = n]
            /\ review[t][r] # "free"
            /\ verdict[t][r] = "none"
    /\ UNCHANGED <<runs, rounds, retries, result, kind, verdict, current, befalls>>

\* Nothing happens to the row, or a review at work settles what is held, or the cron fails
\* what no verdict locks.
Settles(t) ==
    /\ Moves(t)
    /\ \/ status' = status
       \/ status[t] = "auditing" /\ \E r \in Reviews : Working(t, r)
       \/ ~ Deciding(t) /\ status' = [status EXCEPT ![t] = "failed"]

\* A worker dispatches an offered task, or does not.
Takes(t) ==
    /\ \/ /\ status[t] = "queued"
          /\ status' = [status EXCEPT ![t] = "running"]
          /\ runs' = [runs EXCEPT ![t] = TRUE]
       \/ UNCHANGED <<status, runs>>
    /\ UNCHANGED <<rounds, retries, result, review, kind, verdict, current, befalls>>

\* An execution ends, and nothing is held.
EndsRun(t) ==
    /\ runs[t] /\ runs' = [runs EXCEPT ![t] = FALSE]
    /\ \/ status' = status /\ result' = result
       \/ /\ \E s \in Ended : status' = [status EXCEPT ![t] = s]
          /\ \E o \in {"success", "failure"} : result' = [result EXCEPT ![t] = o]
    /\ UNCHANGED <<rounds, retries, review, kind, verdict, current, befalls>>

\* An execution ends, and its result is held while the cap allows.
HoldsAs(t, k, o) ==
    /\ runs[t] /\ runs' = [runs EXCEPT ![t] = FALSE]
    /\ \E r \in Reviews :
         /\ review[t][r] = "free"
         /\ "slow_review" \notin befalls => \A q \in Reviews : review[t][q] = "free"
         /\ review' = [review EXCEPT ![t][r] = "queued"]
         /\ kind' = [kind EXCEPT ![t][r] = k]
         /\ current' = [current EXCEPT ![t] = r]
    /\ status' = [status EXCEPT ![t] = "auditing"]
    /\ result' = [result EXCEPT ![t] = o]
    /\ UNCHANGED <<rounds, retries, verdict, befalls>>
HoldsSome(t) ==
    \/ HoldsAs(t, "audit", "success") /\ rounds[t] < MaxRounds
    \/ HoldsAs(t, "failure", "failure") /\ retries[t] < MaxRetries

\* A verdict that puts the task back is given, on what a review of its kind may act on.
Gives(t, r, v) ==
    /\ Working(t, r) /\ status[t] = "auditing" /\ ~ Deciding(t)
    /\ Calls(t, r, IF v = "reopen" THEN "audit" ELSE "failure")
    /\ verdict' = [verdict EXCEPT ![t][r] = v]
    /\ UNCHANGED <<status, runs, rounds, retries, result, review, kind, current, befalls>>

\* What the commit of a verdict does to the rows above.
Commits(t, r) ==
    /\ verdict[t][r] # "none"
    /\ status' = [status EXCEPT ![t] = "queued"]
    /\ verdict' = [verdict EXCEPT ![t][r] = "none"]
    /\ IF verdict[t][r] = "reopen"
       THEN rounds' = [rounds EXCEPT ![t] = OneMore(@)] /\ retries' = retries
       ELSE retries' = [retries EXCEPT ![t] = @ + 1] /\ rounds' = rounds
    /\ UNCHANGED <<runs, result, review, kind, current, befalls>>

\* What a step of a review may be.
LEMMA ReviewMoves ==
  ASSUME ReviewRows, AliveInv, NEW t \in Tasks, NEW r \in Reviews,
         RunReview(t, r) \/ ResumeReview(t, r)
  PROVE  \/ Settles(t)
         \/ \E v \in {"reopen", "retry"} : Gives(t, r, v)
         \/ Commits(t, r)
<1> USE DEF counts, reviews, rest, SetStatus, SetReview
<1>1. verdict[t][r] = "none" \/ review[t][r] \in {"running", "resumed"}
  BY DEF AliveInv
<1>2. CASE StartReview(t, r)
  <2>1. verdict[t][r] = "none" /\ review[t][r] # "free"
    BY <1>1, <1>2 DEF StartReview
  <2> QED BY <1>2, <2>1 DEF StartReview, Settles, Moves
<1>3. CASE ResumeReview(t, r)
  <2>1. verdict[t][r] = "none" /\ review[t][r] # "free"
    BY <1>1, <1>3 DEF ResumeReview
  <2> QED BY <1>3, <2>1 DEF ResumeReview, Settles, Moves
<1>4. CASE ParkReview(t, r)
  <2>1. verdict[t][r] = "none" /\ review[t][r] # "free"
    BY <1>4 DEF ParkReview, Working
  <2> QED BY <1>4, <2>1 DEF ParkReview, Settles, Moves
<1>5. CASE FailReview(t, r)
  <2>1. verdict[t][r] = "none" /\ review[t][r] # "free"
    BY <1>1, <1>5 DEF FailReview, Working
  <2> QED BY <1>5, <2>1 DEF FailReview, Settles, Moves
<1>6. CASE FinishReview(t, r)
  <2>1. verdict[t][r] = "none" /\ review[t][r] # "free"
    BY <1>6 DEF FinishReview, Working
  <2>2. \/ status' = status
        \/ /\ status[t] = "auditing"
           /\ \E s \in Ended : status' = [status EXCEPT ![t] = s]
    BY <1>6 DEF FinishReview, Ended
  <2> QED BY <1>6, <2>1, <2>2 DEF FinishReview, Settles, Moves
<1>7. CASE Approve(t, r)
  BY <1>7 DEF Approve, Auditable, Settles, Moves, Ended
<1>8. CASE Abandon(t, r)
  BY <1>8 DEF Abandon, Retriable, Settles, Moves, Ended
<1>9. CASE Reopen(t, r)
  BY <1>9 DEF Reopen, Auditable, PutBack, Gives
<1>10. CASE Retry(t, r)
  BY <1>10 DEF Retry, Retriable, PutBack, Gives
<1>11. CASE CommitVerdict(t, r)
  BY <1>11 DEF CommitVerdict, Commits
<1> QED BY <1>2, <1>3, <1>4, <1>5, <1>6, <1>7, <1>8, <1>9, <1>10, <1>11 DEF RunReview

\* What a step of Oversight may be.
LEMMA ReviewSteps ==
  ASSUME ReviewRows, AliveInv, ReviewNext
  PROVE  \E t \in Tasks :
           \/ Settles(t) \/ Takes(t) \/ EndsRun(t) \/ HoldsSome(t)
           \/ \E r \in Reviews :
                Commits(t, r) \/ \E v \in {"reopen", "retry"} : Gives(t, r, v)
<1> USE DEF counts, reviews, rest, SetStatus, SetReview
<1>1. PICK t \in Tasks :
        \/ Take(t) \/ Submit(t) \/ Fail(t) \/ Strand(t) \/ Reap(t)
        \/ \E r \in Reviews : RunReview(t, r) \/ ResumeReview(t, r)
  BY DEF ReviewNext
<1>2. CASE Take(t)
  BY <1>2 DEF Take, Takes
<1>3. CASE Submit(t)
  <2>1. CASE rounds[t] < MaxRounds /\ Hold(t, "audit", rounds[t])
    <3>1. HoldsAs(t, "audit", "success")
      BY <1>3, <2>1 DEF Submit, Ends, Hold, HoldsAs, FreeSlot
    <3> QED BY <2>1, <3>1 DEF HoldsSome
  <2>2. CASE status' = [status EXCEPT ![t] = "done"] /\ UNCHANGED reviews
    <3>1. EndsRun(t)
      BY <1>3, <2>2 DEF Submit, Ends, EndsRun, Ended
    <3> QED BY <3>1
  <2> QED BY <1>3, <2>1, <2>2 DEF Submit
<1>4. CASE Fail(t)
  <2>1. CASE retries[t] < MaxRetries /\ Hold(t, "failure", retries[t])
             /\ result' = [result EXCEPT ![t] = "failure"]
    <3>1. HoldsAs(t, "failure", "failure")
      BY <1>4, <2>1 DEF Fail, Ends, Hold, HoldsAs, FreeSlot
    <3> QED BY <2>1, <3>1 DEF HoldsSome
  <2>2. CASE /\ status' = [status EXCEPT ![t] = "failed"] /\ UNCHANGED reviews
             /\ result' = [result EXCEPT ![t] = "failure"]
    <3>1. EndsRun(t)
      BY <1>4, <2>2 DEF Fail, Ends, EndsRun, Ended
    <3> QED BY <3>1
  <2>3. CASE UNCHANGED <<status, marked, result, reviews>>
    <3>1. EndsRun(t)
      BY <1>4, <2>3 DEF Fail, Ends, EndsRun
    <3> QED BY <3>1
  <2> QED BY <1>4, <2>1, <2>2, <2>3 DEF Fail
<1>5. CASE Strand(t)
  BY <1>5 DEF Strand, Settles, Moves
<1>6. CASE Reap(t)
  BY <1>6 DEF Reap, Settles, Moves, Ended
<1>7. ASSUME NEW r \in Reviews, RunReview(t, r) \/ ResumeReview(t, r)
      PROVE  Settles(t) \/ Commits(t, r) \/ \E v \in {"reopen", "retry"} : Gives(t, r, v)
  BY <1>7, ReviewMoves
<1> QED BY <1>1, <1>2, <1>3, <1>4, <1>5, <1>6, <1>7

\* Each kind of step keeps the invariant.
LEMMA SettlesKeeps ==
  ASSUME WorkInv, NEW t \in Tasks, Settles(t)
  PROVE  WorkInv'
<1> USE DEF WorkInv, Settles, Moves
<1>1. /\ status' \in [Tasks -> Statuses]
      /\ \A u \in Tasks : status'[u] # status[u] => u = t /\ status'[u] \in Ended
  BY DEF ReviewRows, Ended, Statuses
<1>2. /\ review' \in [Tasks -> [Reviews -> {"free", "queued", "running", "waiting", "resumed"}]]
      /\ \A u \in Tasks : \A q \in Reviews :
           review'[u][q] # review[u][q] => review[u][q] # "free" /\ verdict[u][q] = "none"
  <2>1. CASE review' = review
    BY <2>1 DEF ReviewRows
  <2>2. ASSUME NEW r \in Reviews, NEW n \in {"free", "running", "waiting", "resumed"},
               review' = [review EXCEPT ![t][r] = n], review[t][r] # "free",
               verdict[t][r] = "none"
        PROVE  <1>2!1 /\ <1>2!2
    BY <2>2 DEF ReviewRows
  <2> QED BY <2>1, <2>2
<1>3. ReviewRows'
  BY <1>1, <1>2 DEF ReviewRows
<1>4. KindInv'
  BY <1>1 DEF KindInv, Ended
<1>5. AliveInv'
  BY <1>2 DEF AliveInv, FreeSlot
<1>6. ASSUME NEW u \in Tasks, status'[u] # status[u]
      PROVE  \/ status[u] = "auditing" /\ status'[u] \in Ended
             \/ ~ Deciding(u) /\ status'[u] = "failed"
  <2>1. u = t
    BY <1>1, <1>6
  <2>2. CASE status[t] = "auditing"
    BY <1>1, <1>6, <2>1, <2>2
  <2>3. CASE ~ Deciding(t) /\ status' = [status EXCEPT ![t] = "failed"]
    BY <2>1, <2>3 DEF ReviewRows
  <2> QED BY <1>6, <2>2, <2>3
<1>7. runs' = runs /\ \A u \in Tasks : Deciding(u)' = Deciding(u)
  BY DEF Deciding
<1>8. RunsInv'
  <2> SUFFICES ASSUME NEW u \in Tasks
               PROVE  /\ runs[u] => status'[u] \in {"running", "failed"} /\ ~ Deciding(u)
                      /\ Deciding(u) => status'[u] \notin {"queued", "running"}
    BY <1>7 DEF RunsInv
  <2>1. /\ runs[u] => status[u] \in {"running", "failed"} /\ ~ Deciding(u)
        /\ Deciding(u) => status[u] \notin {"queued", "running"}
    BY DEF RunsInv
  <2> HIDE DEF WorkInv, Settles, Moves
  <2> QED BY <1>6, <2>1 DEF Ended
<1> QED BY <1>3, <1>4, <1>5, <1>8

LEMMA TakesKeeps ==
  ASSUME WorkInv, NEW t \in Tasks, Takes(t)
  PROVE  WorkInv'
<1> USE DEF WorkInv, Takes
<1>1. ReviewRows'
  BY DEF ReviewRows, Statuses
<1>2. ASSUME NEW u \in Tasks
      PROVE  \/ status'[u] = status[u] /\ runs'[u] = runs[u]
             \/ status[u] = "queued" /\ status'[u] = "running"
  BY DEF ReviewRows
<1>3. /\ result' = result /\ kind' = kind /\ current' = current
      /\ \A u \in Tasks : Deciding(u)' = Deciding(u)
  BY DEF Deciding
<1>4. KindInv'
  <2> SUFFICES ASSUME NEW u \in Tasks, status'[u] = "auditing"
               PROVE  /\ current[u] \in Reviews
                      /\ kind[u][current[u]]
                           = IF result[u] = "success" THEN "audit" ELSE "failure"
    BY <1>3 DEF KindInv
  <2>1. status[u] = "auditing"
    BY <1>2
  <2> QED BY <2>1 DEF KindInv
<1>5. AliveInv'
  BY DEF AliveInv, FreeSlot
<1>6. RunsInv'
  <2> SUFFICES ASSUME NEW u \in Tasks
               PROVE  /\ runs'[u] => status'[u] \in {"running", "failed"} /\ ~ Deciding(u)
                      /\ Deciding(u) => status'[u] \notin {"queued", "running"}
    BY <1>3 DEF RunsInv
  <2>1. /\ runs[u] => status[u] \in {"running", "failed"} /\ ~ Deciding(u)
        /\ Deciding(u) => status[u] \notin {"queued", "running"}
    BY DEF RunsInv
  <2> HIDE DEF WorkInv, Takes
  <2> QED BY <1>2, <2>1
<1> QED BY <1>1, <1>4, <1>5, <1>6

LEMMA EndsRunKeeps ==
  ASSUME WorkInv, NEW t \in Tasks, EndsRun(t)
  PROVE  WorkInv'
<1> USE DEF WorkInv, EndsRun
<1>1. ReviewRows'
  <2>1. Ended \subseteq Statuses
    BY DEF Statuses, Ended
  <2>2. /\ status' \in [Tasks -> Statuses]
        /\ result' \in [Tasks -> {"none", "success", "failure"}]
    BY <2>1 DEF ReviewRows
  <2>3. runs' \in [Tasks -> BOOLEAN]
    BY DEF ReviewRows
  <2> QED BY <2>2, <2>3 DEF ReviewRows
<1>2. /\ kind' = kind /\ current' = current
      /\ \A u \in Tasks : Deciding(u)' = Deciding(u)
  BY DEF Deciding
<1>3. ASSUME NEW u \in Tasks
      PROVE  \/ /\ status'[u] = status[u] /\ result'[u] = result[u]
                /\ runs'[u] => runs[u]
             \/ runs[u] /\ ~ runs'[u] /\ status'[u] \in Ended
  <2>1. runs'[u] = IF u = t THEN FALSE ELSE runs[u]
    BY DEF ReviewRows
  <2>2. CASE status' = status /\ result' = result
    BY <2>1, <2>2
  <2>3. ASSUME NEW s \in Ended, NEW o \in {"success", "failure"},
               status' = [status EXCEPT ![t] = s], result' = [result EXCEPT ![t] = o]
        PROVE  \/ status'[u] = status[u] /\ result'[u] = result[u] /\ runs'[u] = runs[u]
               \/ runs[u] /\ ~ runs'[u] /\ status'[u] \in Ended
    <3>1. /\ status'[u] = IF u = t THEN s ELSE status[u]
          /\ result'[u] = IF u = t THEN o ELSE result[u]
      BY <2>3 DEF ReviewRows
    <3>2. runs[t]
      OBVIOUS
    <3> HIDE DEF WorkInv, EndsRun
    <3> QED BY <2>1, <2>3, <3>1, <3>2
  <2> QED BY <2>2, <2>3
<1>4. KindInv'
  <2> SUFFICES ASSUME NEW u \in Tasks, status'[u] = "auditing"
               PROVE  /\ current[u] \in Reviews
                      /\ kind[u][current[u]]
                           = IF result'[u] = "success" THEN "audit" ELSE "failure"
    BY <1>2 DEF KindInv
  <2>1. status[u] = "auditing" /\ result'[u] = result[u]
    BY <1>3 DEF Ended
  <2> QED BY <2>1 DEF KindInv
<1>5. AliveInv'
  BY DEF AliveInv, FreeSlot
<1>6. RunsInv'
  <2> SUFFICES ASSUME NEW u \in Tasks
               PROVE  /\ runs'[u] => status'[u] \in {"running", "failed"} /\ ~ Deciding(u)
                      /\ Deciding(u) => status'[u] \notin {"queued", "running"}
    BY <1>2 DEF RunsInv
  <2>1. /\ runs[u] => status[u] \in {"running", "failed"} /\ ~ Deciding(u)
        /\ Deciding(u) => status[u] \notin {"queued", "running"}
    BY DEF RunsInv
  <2> HIDE DEF WorkInv, EndsRun
  <2> QED BY <1>3, <2>1 DEF Ended
<1> QED BY <1>1, <1>4, <1>5, <1>6

LEMMA HoldsKeeps ==
  ASSUME WorkInv, NEW t \in Tasks, NEW k \in Kinds, NEW o \in {"success", "failure"},
         HoldsAs(t, k, o), k = "audit" <=> o = "success"
  PROVE  WorkInv'
<1> USE DEF WorkInv
<1>1. PICK r \in Reviews :
        /\ review[t][r] = "free"
        /\ "slow_review" \notin befalls => \A q \in Reviews : review[t][q] = "free"
        /\ review' = [review EXCEPT ![t][r] = "queued"]
        /\ kind' = [kind EXCEPT ![t][r] = k]
        /\ current' = [current EXCEPT ![t] = r]
  BY DEF HoldsAs
<1>2. review' \in [Tasks -> [Reviews -> {"free", "queued", "running", "waiting", "resumed"}]]
  BY <1>1 DEF ReviewRows
<1>3. kind' \in [Tasks -> [Reviews -> Kinds]] /\ current' \in [Tasks -> Reviews \cup {NoReview}]
  BY <1>1 DEF ReviewRows
<1>4. ReviewRows'
  BY <1>2, <1>3 DEF ReviewRows, HoldsAs, Statuses
<1>5. KindInv'
  BY <1>1 DEF KindInv, ReviewRows, HoldsAs, Kinds
<1>6. \A u \in Tasks : \A q \in Reviews :
        review'[u][q] = IF u = t /\ q = r THEN "queued" ELSE review[u][q]
  BY <1>1 DEF ReviewRows
<1>7. verdict[t][r] = "none"
  BY <1>1 DEF AliveInv
<1>8. AliveInv'
  <2>1. \A u \in Tasks \ {t} : current'[u] = current[u]
    BY <1>1 DEF ReviewRows
  <2>2. current'[t] = r
    BY <1>1 DEF ReviewRows
  <2> QED BY <1>1, <1>6, <1>7, <2>1, <2>2 DEF AliveInv, FreeSlot, HoldsAs
<1>9. ASSUME NEW u \in Tasks
      PROVE  /\ Deciding(u)' = Deciding(u)
             /\ u # t => status'[u] = status[u] /\ runs'[u] = runs[u]
  BY DEF Deciding, HoldsAs, ReviewRows
<1>10. status'[t] = "auditing" /\ ~ runs'[t]
  BY DEF HoldsAs, ReviewRows
<1>11. RunsInv'
  <2> SUFFICES ASSUME NEW u \in Tasks
               PROVE  /\ runs'[u] => status'[u] \in {"running", "failed"} /\ ~ Deciding(u)
                      /\ Deciding(u) => status'[u] \notin {"queued", "running"}
    BY <1>9 DEF RunsInv
  <2>1. /\ runs[u] => status[u] \in {"running", "failed"} /\ ~ Deciding(u)
        /\ Deciding(u) => status[u] \notin {"queued", "running"}
    BY DEF RunsInv
  <2> HIDE DEF WorkInv
  <2> QED BY <1>9, <1>10, <2>1
<1> QED BY <1>4, <1>5, <1>8, <1>11

LEMMA GivesKeeps ==
  ASSUME WorkInv, NEW t \in Tasks, NEW r \in Reviews, NEW v \in {"reopen", "retry"},
         Gives(t, r, v)
  PROVE  WorkInv'
<1> USE DEF WorkInv, Gives
<1>1. verdict' \in [Tasks -> [Reviews -> {"none", "reopen", "retry"}]]
  BY DEF ReviewRows
<1>2. \A u \in Tasks : \A q \in Reviews :
        verdict'[u][q] = IF u = t /\ q = r THEN v ELSE verdict[u][q]
  BY DEF ReviewRows
<1>3. ReviewRows'
  BY <1>1 DEF ReviewRows
<1>4. KindInv'
  BY DEF KindInv
<1>5. AliveInv'
  BY <1>2 DEF AliveInv, FreeSlot, Working, Deciding
<1>6. RunsInv'
  BY <1>2 DEF RunsInv, Deciding
<1> QED BY <1>3, <1>4, <1>5, <1>6

LEMMA CommitsKeeps ==
  ASSUME WorkInv, NEW t \in Tasks, NEW r \in Reviews, Commits(t, r)
  PROVE  WorkInv'
<1> USE DEF WorkInv
<1>1. verdict' \in [Tasks -> [Reviews -> {"none", "reopen", "retry"}]]
  BY DEF ReviewRows, Commits
<1>2. \A u \in Tasks : \A q \in Reviews :
        verdict'[u][q] = IF u = t /\ q = r THEN "none" ELSE verdict[u][q]
  BY DEF ReviewRows, Commits
<1>3. rounds' \in [Tasks -> Nat] /\ retries' \in [Tasks -> Nat]
  <2>1. /\ rounds \in [Tasks -> Nat] /\ retries \in [Tasks -> Nat]
        /\ OneMore(rounds[t]) \in Nat /\ retries[t] + 1 \in Nat
    BY DEF OneMore, ReviewRows
  <2>2. \/ rounds' = [rounds EXCEPT ![t] = OneMore(@)] /\ retries' = retries
        \/ retries' = [retries EXCEPT ![t] = @ + 1] /\ rounds' = rounds
    BY DEF Commits
  <2> HIDE DEF WorkInv
  <2> QED BY <2>1, <2>2
<1>4. status' = [status EXCEPT ![t] = "queued"] /\ status' \in [Tasks -> Statuses]
  <2>1. "queued" \in Statuses
    BY DEF Statuses
  <2>2. status' = [status EXCEPT ![t] = "queued"]
    BY DEF Commits
  <2> QED BY <2>1, <2>2 DEF ReviewRows
<1>5. ReviewRows'
  BY <1>1, <1>3, <1>4 DEF ReviewRows, Commits
<1>6. /\ runs' = runs /\ result' = result /\ kind' = kind /\ current' = current
      /\ \A u \in Tasks : status'[u] = IF u = t THEN "queued" ELSE status[u]
  BY <1>4 DEF ReviewRows, Commits
<1>7. KindInv'
  <2> SUFFICES ASSUME NEW u \in Tasks, status'[u] = "auditing"
               PROVE  /\ current[u] \in Reviews
                      /\ kind[u][current[u]]
                           = IF result[u] = "success" THEN "audit" ELSE "failure"
    BY <1>6 DEF KindInv
  <2>1. status[u] = "auditing"
    BY <1>6
  <2> QED BY <2>1 DEF KindInv
<1>8. AliveInv'
  BY <1>2 DEF AliveInv, FreeSlot, Commits
<1>9. verdict[t][r] # "none" /\ Deciding(t)
  <2>1. verdict[t][r] # "none"
    BY DEF Commits
  <2> QED BY <2>1 DEF Deciding
<1>10. ~ Deciding(t)'
  <2>1. \A q \in Reviews \ {r} : verdict[t][q] = "none"
    BY <1>9 DEF AliveInv
  <2> QED BY <1>2, <2>1 DEF Deciding
<1>11. \A u \in Tasks \ {t} : Deciding(u)' = Deciding(u)
  BY <1>2 DEF Deciding
<1>12. RunsInv'
  <2> SUFFICES ASSUME NEW u \in Tasks
               PROVE  /\ runs[u] => status'[u] \in {"running", "failed"} /\ ~ Deciding(u)'
                      /\ Deciding(u)' => status'[u] \notin {"queued", "running"}
    BY <1>6 DEF RunsInv
  <2>1. /\ runs[u] => status[u] \in {"running", "failed"} /\ ~ Deciding(u)
        /\ Deciding(u) => status[u] \notin {"queued", "running"}
    BY DEF RunsInv
  <2> HIDE DEF WorkInv
  <2> QED BY <1>6, <1>9, <1>10, <1>11, <2>1
<1> QED BY <1>5, <1>7, <1>8, <1>12

LEMMA WorkStep == WorkInv /\ [ReviewNext]_reviewVars => WorkInv'
<1>1. ASSUME WorkInv, ReviewNext PROVE WorkInv'
  <2>1. PICK t \in Tasks :
           \/ Settles(t) \/ Takes(t) \/ EndsRun(t) \/ HoldsSome(t)
           \/ \E r \in Reviews :
                Commits(t, r) \/ \E v \in {"reopen", "retry"} : Gives(t, r, v)
    BY <1>1, ReviewSteps DEF WorkInv
  <2>2. CASE HoldsSome(t)
    BY <1>1, <2>2, HoldsKeeps DEF HoldsSome, Kinds
  <2> QED BY <1>1, <2>1, <2>2, SettlesKeeps, TakesKeeps, EndsRunKeeps, GivesKeeps, CommitsKeeps
<1>2. ASSUME WorkInv, UNCHANGED reviewVars PROVE WorkInv'
  BY <1>2 DEF reviewVars, WorkInv, ReviewRows, KindInv, AliveInv, RunsInv, FreeSlot, Deciding
<1> QED BY <1>1, <1>2

LEMMA WorkHolds == ReviewSpec => []WorkInv
BY WorkInit, WorkStep, PTL DEF ReviewSpec

\* Whatever fails, is paused or reaped around it: a task is accepted on a success only, by
\* the review that was made for this very result, while reviews end with their verdict and
\* use the tool their goal names (begin_auditing, audit_task, settle_audit_target).
THEOREM AcceptedOnItsReview == ReviewSpec => AcceptedByItsReview
<1> DEFINE Accepted(t) == status[t] = "auditing" /\ status'[t] = "done"
           Justified(t) == result[t] = "success" /\ Working(t, current[t])
           Accepts == ToTheGoal => \A t \in Tasks : Accepted(t) => Justified(t)
<1>1. WorkInv /\ [ReviewNext]_reviewVars => [Accepts]_reviewVars
  <2> SUFFICES ASSUME WorkInv, ReviewNext, ToTheGoal, NEW t \in Tasks, Accepted(t)
               PROVE  Justified(t)
    OBVIOUS
  <2> USE DEF SetStatus
  <2>1. status[t] # status'[t]
    OBVIOUS
  <2>2. ASSUME NEW u \in Tasks, NEW s, s # "done", status' = [status EXCEPT ![u] = s]
        PROVE  FALSE
    BY <2>1, <2>2 DEF WorkInv, ReviewRows
  <2>3. ASSUME NEW u \in Tasks, status[u] # "auditing", NEW s, status' = [status EXCEPT ![u] = s]
        PROVE  FALSE
    BY <2>1, <2>3 DEF WorkInv, ReviewRows
  <2>4. ASSUME NEW u \in Tasks, NEW r \in Reviews,
               Working(u, r), kind[u][r] = "audit",
               status' = [status EXCEPT ![u] = "done"]
        PROVE  Justified(t)
    <3>1. u = t
      BY <2>1, <2>4 DEF WorkInv, ReviewRows
    <3>2. ~ FreeSlot(t, r)
      BY <2>4, <3>1 DEF Working, FreeSlot
    <3>3. r = current[t]
      BY <3>2 DEF WorkInv, AliveInv, ToTheGoal
    <3>4. result[t] = "success"
      BY <2>4, <3>1, <3>3 DEF WorkInv, KindInv
    <3> QED BY <2>4, <3>1, <3>3, <3>4
  <2>5. PICK u \in Tasks :
          \/ Take(u) \/ Submit(u) \/ Fail(u) \/ Strand(u) \/ Reap(u)
          \/ \E r \in Reviews : RunReview(u, r) \/ ResumeReview(u, r)
    BY DEF ReviewNext
  <2>6. CASE Take(u)
    BY <2>2, <2>3, <2>6, <2>1 DEF Take, WorkInv, ReviewRows
  <2>7. CASE Submit(u) \/ Fail(u)
    <3>1. status[u] # "auditing"
      BY <2>7 DEF Submit, Fail, Ends, WorkInv, RunsInv
    <3>2. status' = status \/ \E s : status' = [status EXCEPT ![u] = s]
      BY <2>7 DEF Submit, Fail, Hold
    <3> QED BY <2>1, <2>3, <3>1, <3>2
  <2>8. CASE Strand(u) \/ Reap(u)
    BY <2>1, <2>2, <2>8 DEF Strand, Reap
  <2>9. ASSUME NEW r \in Reviews, RunReview(u, r) PROVE Justified(t)
    <3>1. CASE Approve(u, r)
      <4>1. kind[u][r] = "audit"
        BY <3>1 DEF Approve, Auditable, Calls, ToTheGoal
      <4> QED BY <2>4, <3>1, <4>1 DEF Approve, Auditable
    <3>2. CASE FinishReview(u, r)
      <4>1. CASE status[u] = "auditing" /\ kind[u][r] # "failure"
        <5>1. kind[u][r] = "audit"
          BY <4>1 DEF WorkInv, ReviewRows, Kinds
        <5> QED BY <2>4, <3>2, <4>1, <5>1 DEF FinishReview
      <4>2. CASE status[u] = "auditing" /\ kind[u][r] = "failure"
        BY <2>2, <3>2, <4>2 DEF FinishReview
      <4>3. CASE status[u] # "auditing"
        BY <2>1, <3>2, <4>3 DEF FinishReview
      <4> QED BY <4>1, <4>2, <4>3
    <3>3. CASE Abandon(u, r) \/ CommitVerdict(u, r)
      BY <2>2, <3>3 DEF Abandon, CommitVerdict
    <3>4. CASE status' = status
      BY <2>1, <3>4
    <3> QED BY <2>9, <3>1, <3>2, <3>3, <3>4
            DEF RunReview, StartReview, Reopen, Retry, PutBack,
                FailReview, ParkReview
  <2>10. ASSUME NEW r \in Reviews, ResumeReview(u, r) PROVE Justified(t)
    BY <2>1, <2>10 DEF ResumeReview
  <2> QED BY <2>5, <2>6, <2>7, <2>8, <2>9, <2>10
<1> QED BY <1>1, WorkHolds, PTL DEF ReviewSpec, AcceptedByItsReview

-----------------------------------------------------------------------------
(* The caps of the reviews.                                                  *)

\* While a review ends with its verdict and uses its tool, what is held is within the cap
\* it was held under until the verdict on it commits.
CapsInv ==
    ToTheGoal => \A t \in Tasks :
      /\ rounds[t] <= MaxRounds /\ retries[t] <= MaxRetries
      /\ status[t] = "auditing" => IF result[t] = "success" THEN rounds[t] < MaxRounds
                                                            ELSE retries[t] < MaxRetries
      /\ \A r \in Reviews : verdict[t][r] # "none" =>
           status[t] = "auditing" /\ (verdict[t][r] = "reopen" <=> result[t] = "success")

LEMMA CapsInit == ReviewInit => CapsInv
BY CapsAssumption DEF ReviewInit, CapsInv

LEMMA CapsStep ==
  ASSUME WorkInv, CapsInv, [ReviewNext]_reviewVars
  PROVE  CapsInv'
<1> SUFFICES ASSUME ReviewNext, ToTheGoal, ToTheGoal' PROVE CapsInv'
  <2>1. ASSUME UNCHANGED reviewVars PROVE CapsInv'
    BY <2>1 DEF reviewVars, CapsInv, ToTheGoal
  <2>2. ASSUME ReviewNext PROVE befalls' = befalls
    BY <2>2, ReviewSteps DEF WorkInv, Settles, Moves, Takes, EndsRun, HoldsSome, HoldsAs,
                             Commits, Gives
  <2> QED BY <2>1, <2>2 DEF CapsInv, ToTheGoal
<1> USE CapsAssumption
<1> DEFINE Within(t) ==
             /\ rounds[t] <= MaxRounds /\ retries[t] <= MaxRetries
             /\ status[t] = "auditing" => IF result[t] = "success" THEN rounds[t] < MaxRounds
                                                                   ELSE retries[t] < MaxRetries
             /\ \A r \in Reviews : verdict[t][r] # "none" =>
                  status[t] = "auditing" /\ (verdict[t][r] = "reopen" <=> result[t] = "success")
<1>1. \A u \in Tasks : Within(u)
  BY DEF CapsInv
<1>2. \A u \in Tasks : \A q, r \in Reviews :
        review[u][q] # "free" /\ review[u][r] # "free" => q = r
  BY DEF WorkInv, AliveInv, FreeSlot, ToTheGoal
<1>3. PICK t \in Tasks :
        \/ Settles(t) \/ Takes(t) \/ EndsRun(t) \/ HoldsSome(t)
        \/ \E r \in Reviews :
             Commits(t, r) \/ \E v \in {"reopen", "retry"} : Gives(t, r, v)
  BY ReviewSteps DEF WorkInv
\* Only the rows of t change.
<1>4. ASSUME NEW u \in Tasks, u # t PROVE Within(u)'
  <2>1. /\ status'[u] = status[u] /\ result'[u] = result[u] /\ verdict'[u] = verdict[u]
        /\ rounds'[u] = rounds[u] /\ retries'[u] = retries[u]
    BY <1>3, <1>4 DEF WorkInv, ReviewRows, Settles, Moves, Takes, EndsRun, HoldsSome, HoldsAs,
                      Commits, Gives
  <2> QED BY <1>1, <2>1
<1>5. Within(t)'
  <2>1. CASE Settles(t)
    <3>1. CASE status' = status
      BY <1>1, <2>1, <3>1 DEF Settles, Moves
    <3>2. CASE status' # status
      <4>1. ~ Deciding(t)
        <5>1. ASSUME NEW r \in Reviews, Working(t, r) PROVE ~ Deciding(t)
          BY <1>2, <5>1 DEF Working, Deciding, WorkInv, AliveInv
        <5> QED BY <2>1, <3>2, <5>1 DEF Settles
      <4>2. status'[t] # "auditing"
        BY <2>1, <3>2 DEF Settles, Moves, Ended, WorkInv, ReviewRows
      <4> QED BY <1>1, <2>1, <4>1, <4>2 DEF Settles, Moves, Deciding
    <3> QED BY <3>1, <3>2
  <2>2. CASE Takes(t)
    <3>1. status'[t] = status[t] \/ status'[t] = "running"
      BY <2>2 DEF Takes, WorkInv, ReviewRows
    <3> QED BY <1>1, <2>2, <3>1 DEF Takes
  <2>3. CASE EndsRun(t)
    <3>1. \A r \in Reviews : verdict[t][r] = "none"
      BY <2>3 DEF EndsRun, WorkInv, RunsInv, Deciding
    <3>2. status'[t] # "auditing"
      BY <2>3 DEF EndsRun, WorkInv, RunsInv, ReviewRows, Ended
    <3> QED BY <1>1, <2>3, <3>1, <3>2 DEF EndsRun
  <2>4. CASE HoldsSome(t)
    <3>1. \A r \in Reviews : verdict[t][r] = "none"
      BY <2>4 DEF HoldsSome, HoldsAs, WorkInv, RunsInv, Deciding
    <3>2. \/ result'[t] = "success" /\ rounds[t] < MaxRounds
          \/ result'[t] = "failure" /\ retries[t] < MaxRetries
      BY <2>4 DEF HoldsSome, HoldsAs, WorkInv, ReviewRows
    <3> QED BY <1>1, <2>4, <3>1, <3>2 DEF HoldsSome, HoldsAs
  <2>5. ASSUME NEW r \in Reviews, Commits(t, r) PROVE Within(t)'
    <3>1. /\ status[t] = "auditing"
          /\ verdict[t][r] = "reopen" <=> result[t] = "success"
      BY <1>1, <2>5 DEF Commits
    <3>2. rounds'[t] <= MaxRounds /\ retries'[t] <= MaxRetries
      BY <1>1, <2>5, <3>1 DEF Commits, OneMore, WorkInv, ReviewRows
    <3>3. status'[t] = "queued"
      BY <2>5 DEF Commits, WorkInv, ReviewRows
    <3>4. \A q \in Reviews : verdict'[t][q] = "none"
      BY <2>5 DEF Commits, WorkInv, ReviewRows, AliveInv
    <3> QED BY <3>2, <3>3, <3>4
  <2>6. ASSUME NEW r \in Reviews, NEW v \in {"reopen", "retry"}, Gives(t, r, v)
        PROVE  Within(t)'
    <3>1. r = current[t]
      BY <2>6 DEF Gives, Working, WorkInv, AliveInv, FreeSlot, ToTheGoal
    <3>2. v = "reopen" <=> result[t] = "success"
      BY <2>6, <3>1 DEF Gives, Calls, ToTheGoal, WorkInv, KindInv
    <3>3. \A q \in Reviews : verdict'[t][q] = IF q = r THEN v ELSE "none"
      BY <2>6 DEF Gives, Deciding, WorkInv, ReviewRows
    <3> QED BY <1>1, <2>6, <3>2, <3>3 DEF Gives
  <2> QED BY <1>3, <2>1, <2>2, <2>3, <2>4, <2>5, <2>6
<1> QED BY <1>4, <1>5 DEF CapsInv

\* A result is redone at most max_audit_rounds times and a failure retried at most
\* max_task_retries times, for every value of the caps and of the bound on the counters:
\* should_audit and should_review_failure look at the caps when a result is held, and the
\* verdict that counts (audit_task, retry_task) can only be about that result.
THEOREM RedosStayCapped == ReviewSpec => []RedosAreCapped
<1>1. CapsInv => RedosAreCapped
  BY DEF CapsInv, RedosAreCapped
<1>2. WorkInv /\ CapsInv /\ [ReviewNext]_reviewVars => CapsInv'
  BY CapsStep
<1> QED BY <1>1, <1>2, CapsInit, WorkHolds, PTL DEF ReviewSpec

-----------------------------------------------------------------------------
(* The memory of a task: what the functions it is built with compute.        *)

\* Every non-empty set of naturals has a least element.
LEMMA LeastNat ==
  ASSUME NEW T, T \subseteq Nat, T # {}
  PROVE  \E x \in T : \A y \in T : x <= y
<1> DEFINE Segments == {0..x : x \in T}
<1>1. IsWellFoundedOn(StrictSubsetOrdering(Nat), FiniteSubsetsOf(Nat))
  BY FS_StrictSubsetOrderingWellFounded
<1>2. Segments \subseteq FiniteSubsetsOf(Nat)
  <2> SUFFICES ASSUME NEW x \in T PROVE 0..x \in FiniteSubsetsOf(Nat)
    OBVIOUS
  <2>1. IsFiniteSet(0..x)
    BY FS_Interval
  <2>2. 0..x \subseteq Nat
    OBVIOUS
  <2> QED BY <2>1, <2>2 DEF FiniteSubsetsOf
<1>3. Segments # {}
  OBVIOUS
<1>4. \E s \in Segments : \A t \in Segments : ~ (<<t, s>> \in StrictSubsetOrdering(Nat))
  <2> HIDE DEF Segments
  <2> QED BY <1>1, <1>2, <1>3, WFMin
<1>5. PICK x \in T : \A y \in T : ~ (<<0..y, 0..x>> \in StrictSubsetOrdering(Nat))
  BY <1>4
<1>6. ASSUME NEW y \in T, y < x PROVE FALSE
  <2>1. 0..y \subseteq 0..x /\ 0..y # 0..x
    BY <1>6
  <2>2. 0..y \in SUBSET Nat /\ 0..x \in SUBSET Nat
    OBVIOUS
  <2>3. <<0..y, 0..x>> \in StrictSubsetOrdering(Nat)
    BY <2>1, <2>2 DEF StrictSubsetOrdering
  <2> QED BY <1>5, <2>3
<1> QED BY <1>6

\* Infinite descent.
LEMMA NoDescent ==
  ASSUME NEW T, T \subseteq Nat, \A i \in T : \E j \in T : j < i
  PROVE  T = {}
<1> SUFFICES ASSUME T # {} PROVE FALSE
  OBVIOUS
<1>1. PICK i \in T : \A j \in T : i <= j
  BY LeastNat
<1>2. PICK j \in T : j < i
  OBVIOUS
<1> QED BY <1>1, <1>2

\* g meets the equation by which FlattenSeq(s) is computed.
Unfolds(g, s, n) == \A i \in 1 .. n : g[i] = IF i = 1 THEN s[i] ELSE g[i-1] \o s[i]

\* A function that meets FlattenSeq's recursive equation is the one it computes: the least
\* argument where two of them differed would not be one.
LEMMA Flattened ==
  ASSUME NEW s, NEW n \in Nat \ {0}, Len(s) = n, NEW g, Unfolds(g, s, n)
  PROVE  FlattenSeq(s) = g[n]
<1> DEFINE f == CHOOSE h : h = [i \in 1 .. Len(s) |-> IF i = 1 THEN s[i] ELSE h[i-1] \o s[i]]
           Differ == {i \in 1 .. n : f[i] # g[i]}
           G == [i \in 1 .. n |-> g[i]]
<1> USE DEF Unfolds
<1>0. G = [i \in 1 .. Len(s) |-> IF i = 1 THEN s[i] ELSE G[i-1] \o s[i]]
  <2>1. ASSUME NEW i \in 1 .. n PROVE G[i] = IF i = 1 THEN s[i] ELSE G[i-1] \o s[i]
    <3>1. CASE i = 1
      BY <3>1
    <3>2. CASE i # 1
      <4>1. i-1 \in 1 .. n
        BY <3>2
      <4>2. G[i-1] = g[i-1] /\ G[i] = g[i]
        BY <4>1
      <4> QED BY <3>2, <4>2
    <3> QED BY <3>1, <3>2
  <2> HIDE DEF G
  <2>2. G = [i \in 1 .. n |-> G[i]]
    BY DEF G
  <2> QED BY <2>1, <2>2
<1>1. f = [i \in 1 .. n |-> IF i = 1 THEN s[i] ELSE f[i-1] \o s[i]]
  <2> HIDE DEF G
  <2> QED BY <1>0
<1>2. FlattenSeq(s) = f[n]
  BY DEF FlattenSeq
<1> HIDE DEF f
<1>3. ASSUME NEW i \in Differ PROVE \E j \in Differ : j < i
  <2>1. i \in 1 .. n /\ f[i] # g[i]
    OBVIOUS
  <2>2. f[i] = IF i = 1 THEN s[i] ELSE f[i-1] \o s[i]
    BY <1>1, <2>1
  <2>3. g[i] = IF i = 1 THEN s[i] ELSE g[i-1] \o s[i]
    BY <2>1
  <2>4. i # 1 /\ f[i-1] # g[i-1]
    BY <2>1, <2>2, <2>3
  <2>5. i-1 \in Differ /\ i-1 < i
    BY <2>1, <2>4
  <2> QED BY <2>5
<1>4. Differ \subseteq Nat
  OBVIOUS
<1> HIDE DEF Differ
<1>5. Differ = {}
  BY <1>3, <1>4, NoDescent
<1>6. f[n] = g[n]
  BY ONLY <1>5, n \in Nat \ {0} DEF Differ
<1> QED BY ONLY <1>2, <1>6

LEMMA FlatSingles ==
  ASSUME NEW S, NEW t \in Seq(S), t # <<>>,
         NEW s, s = [i \in DOMAIN t |-> <<t[i]>>]
  PROVE  FlattenSeq(s) = t
<1> DEFINE n == Len(t)
           g == [i \in 1 .. n |-> SubSeq(t, 1, i)]
<1>1. n \in Nat \ {0} /\ DOMAIN t = 1 .. n
  BY EmptySeq, LenProperties
<1>2. Len(s) = n
  BY <1>1
<1>3. \A i \in 1 .. n : g[i] = IF i = 1 THEN s[i] ELSE g[i-1] \o s[i]
  <2> SUFFICES ASSUME NEW i \in 1 .. n
               PROVE  g[i] = IF i = 1 THEN s[i] ELSE g[i-1] \o s[i]
    OBVIOUS
  <2>1. s[i] = <<t[i]>> /\ g[i] = SubSeq(t, 1, i)
    BY <1>1
  <2>2. SubSeq(t, 1, i) = SubSeq(t, 1, i-1) \o <<t[i]>>
    BY <1>1, SubSeqRecursiveSecond
  <2>3. CASE i = 1
    <3>1. SubSeq(t, 1, 1) = SubSeq(t, 1, 0) \o <<t[1]>>
      BY <2>2, <2>3
    <3>2. SubSeq(t, 1, 0) = <<>>
      BY SubSeqEmpty
    <3>3. t[1] \in S
      BY <2>3, ElementOfSeq
    <3>4. <<>> \o <<t[1]>> = <<t[1]>>
      BY <3>3, ConcatEmptySeq
    <3> QED BY <2>1, <2>3, <3>1, <3>2, <3>4
  <2>4. CASE i # 1
    <3>1. g[i-1] = SubSeq(t, 1, i-1)
      BY <2>4
    <3> QED BY <2>1, <2>2, <2>4, <3>1
  <2> QED BY <2>3, <2>4
<1>5. g[n] = t
  BY <1>1, SubSeqFull
<1>6. FlattenSeq(s) = g[n]
  <2> HIDE DEF g, n
  <2>1. n \in Nat \ {0} /\ Len(s) = n
    BY <1>1, <1>2
  <2>2. Unfolds(g, s, n)
    BY <1>3 DEF Unfolds
  <2> QED BY ONLY <2>1, <2>2, Flattened, Zenon
<1> QED BY <1>5, <1>6

-----------------------------------------------------------------------------
(* What the pure functions do to a conversation.                             *)

TurnRecords == [role : {"user", "assistant"}, calls : SUBSET (Nat \X Nat), steps : SUBSET Nat,
          notes : SUBSET (Feedback \cup Nat)]

\* t accounts for the steps 1 .. k: the first of them in its recap, the others a
\* request and its results.
Steps(t, k) ==
    \E r \in 0 .. k :
        /\ t[1].steps = 1 .. r
        /\ Len(t) = 2 * (k - r) + 1
        /\ \A i \in 1 .. k - r : StepsOf(t[2 * i]) = {r + i}
        /\ \A i \in 2 .. Len(t) : t[i].steps = {}

\* No note but those of excused is told twice.
Once(t, excused) ==
    \A i, j \in DOMAIN t : i # j => t[i].notes \cap t[j].notes \subseteq excused

\* What t tells is known, and nothing of it is still to be told.
Told(t, pending, known) ==
    \A i \in DOMAIN t : t[i].notes \cap pending = {} /\ t[i].notes \subseteq known

\* A conversation the loop may hold with k steps behind it.
Good(t, k, excused, pending, known) ==
    /\ t \in Seq(TurnRecords)
    /\ WellFormed(t)
    /\ Steps(t, k)
    /\ Once(t, excused)
    /\ Told(t, pending, known)

\* A conversation as the provider wants it is one sanitize_messages leaves alone.
LEMMA CleanIsKept ==
  ASSUME NEW t \in Seq(TurnRecords), WellFormed(t)
  PROVE  Sanitized(t) = t
<1>1. Len(t) \in Nat /\ DOMAIN t = 1 .. Len(t) /\ Len(t) % 2 = 1
  BY LenProperties DEF WellFormed
<1>2. t # <<>>
  BY <1>1, EmptySeq
<1>3. ASSUME NEW i \in DOMAIN t PROVE Repaired(t, i) = <<t[i]>>
  <2>1. i \in 1 .. Len(t) /\ t[i] \in TurnRecords
    BY <1>1, ElementOfSeq
  <2>2. ASSUME Asks(t, i) PROVE Answers(t, i + 1)
    <3>1. i % 2 = 0
      BY <2>1, <2>2 DEF Asks, WellFormed
    <3>2. i + 1 \in DOMAIN t /\ (i + 1) % 2 = 1 /\ i + 1 # 1 /\ (i + 1) - 1 = i
      BY <1>1, <2>1, <3>1
    <3>3. t[i + 1].role = "user" /\ t[i + 1].calls = t[i].calls
      BY <3>2 DEF WellFormed
    <3> QED BY <2>2, <3>2, <3>3 DEF Asks, Answers
  <2>3. ASSUME Answers(t, i) PROVE [t[i] EXCEPT !.calls = @ \cup t[i - 1].calls] = t[i]
    <3>1. i % 2 = 1 /\ i # 1
      BY <1>1, <2>1, <2>3 DEF Answers, Asks, WellFormed
    <3>2. t[i].calls = t[i - 1].calls
      BY <2>1, <1>1, <3>1 DEF WellFormed
    <3> QED BY <2>1, <3>2 DEF TurnRecords
  <2> QED BY <2>2, <2>3 DEF Repaired
<1>4. [i \in DOMAIN t |-> Repaired(t, i)] = [i \in DOMAIN t |-> <<t[i]>>]
  BY <1>3
<1> QED BY <1>2, <1>4, FlatSingles DEF Sanitized

\* The calls of a step, and what StepsOf makes of them.
LEMMA CallsOfStep ==
  ASSUME NEW n \in Nat, NEW k \in Nat \ {0}
  PROVE  /\ CallsOf(n, k) \in SUBSET (Nat \X Nat)
         /\ CallsOf(n, k) # {}
         /\ {c[1] : c \in CallsOf(n, k)} = {n}
<1>1. <<n, 1>> \in CallsOf(n, k)
  BY DEF CallsOf
<1>2. \A c \in CallsOf(n, k) : c \in Nat \X Nat /\ c[1] = n
  BY DEF CallsOf
<1>3. <<n, 1>>[1] = n
  OBVIOUS
<1> QED BY <1>1, <1>2, <1>3

\* The turns the loop makes.
LEMMA MadeTurns ==
  ASSUME NEW n \in Nat, NEW k \in Nat \ {0}
  PROVE  /\ Seed \in TurnRecords
         /\ Request(CallsOf(n, k)) \in TurnRecords
         /\ Results(CallsOf(n, k)) \in TurnRecords
<1>1. CallsOf(n, k) \in SUBSET (Nat \X Nat)
  BY CallsOfStep
<1> QED BY <1>1 DEF TurnRecords, Turn, Seed, Request, Results

LEMMA ConcatIs ==
  ASSUME NEW S, NEW u \in Seq(S), NEW v \in Seq(S), NEW w \in Seq(S),
         Len(w) = Len(u) + Len(v),
         \A i \in 1 .. Len(w) : w[i] = IF i <= Len(u) THEN u[i] ELSE v[i - Len(u)]
  PROVE  u \o v = w
<1>1. /\ u \o v \in Seq(S) /\ Len(u \o v) = Len(w)
      /\ \A i \in 1 .. Len(w) : (u \o v)[i] = w[i]
  BY ConcatProperties
<1> QED BY <1>1, SeqEqual

LEMMA SmallConcats ==
  ASSUME NEW a, NEW b, NEW c
  PROVE  /\ <<a>> \o <<b>> = <<a, b>>
         /\ <<a>> \o <<b, c>> = <<a, b, c>>
         /\ <<a, b>> \o <<c>> = <<a, b, c>>
<1> DEFINE S == {a, b, c}
<1>1. /\ <<a>> \in Seq(S) /\ <<b>> \in Seq(S) /\ <<c>> \in Seq(S)
      /\ <<a, b>> \in Seq(S) /\ <<b, c>> \in Seq(S) /\ <<a, b, c>> \in Seq(S)
  OBVIOUS
<1>3. /\ Len(<<a>>) = 1 /\ Len(<<c>>) = 1 /\ Len(<<b>>) = 1
      /\ Len(<<a, b>>) = 2 /\ Len(<<b, c>>) = 2 /\ Len(<<a, b, c>>) = 3
      /\ <<a>>[1] = a /\ <<b>>[1] = b /\ <<c>>[1] = c
      /\ <<a, b>>[1] = a /\ <<a, b>>[2] = b
      /\ <<b, c>>[1] = b /\ <<b, c>>[2] = c
      /\ <<a, b, c>>[1] = a /\ <<a, b, c>>[2] = b /\ <<a, b, c>>[3] = c
  OBVIOUS
<1>4. (\A i \in 1 .. 2 : i = 1 \/ i = 2) /\ (\A i \in 1 .. 3 : i = 1 \/ i = 2 \/ i = 3)
  OBVIOUS
<1>5. <<a>> \o <<b>> = <<a, b>>
  <2>1. \A i \in 1 .. 2 : <<a, b>>[i] = IF i <= 1 THEN <<a>>[i] ELSE <<b>>[i - 1]
    BY <1>3, <1>4
  <2>2. Len(<<a, b>>) = Len(<<a>>) + Len(<<b>>)
    BY <1>3
  <2>3. \A i \in 1 .. Len(<<a, b>>) :
          <<a, b>>[i] = IF i <= Len(<<a>>) THEN <<a>>[i] ELSE <<b>>[i - Len(<<a>>)]
    BY <2>1, <1>3
  <2> QED BY ONLY <1>1, <2>2, <2>3, ConcatIs, Zenon
<1>6. <<a>> \o <<b, c>> = <<a, b, c>>
  <2>1. \A i \in 1 .. 3 : <<a, b, c>>[i] = IF i <= 1 THEN <<a>>[i] ELSE <<b, c>>[i - 1]
    BY <1>3, <1>4
  <2>2. Len(<<a, b, c>>) = Len(<<a>>) + Len(<<b, c>>)
    BY <1>3
  <2>3. \A i \in 1 .. Len(<<a, b, c>>) :
          <<a, b, c>>[i] = IF i <= Len(<<a>>) THEN <<a>>[i] ELSE <<b, c>>[i - Len(<<a>>)]
    BY <2>1, <1>3
  <2> QED BY ONLY <1>1, <2>2, <2>3, ConcatIs, Zenon
<1>7. <<a, b>> \o <<c>> = <<a, b, c>>
  <2>1. \A i \in 1 .. 3 : <<a, b, c>>[i] = IF i <= 2 THEN <<a, b>>[i] ELSE <<c>>[i - 2]
    BY <1>3, <1>4
  <2>2. Len(<<a, b, c>>) = Len(<<a, b>>) + Len(<<c>>)
    BY <1>3
  <2>3. \A i \in 1 .. Len(<<a, b, c>>) :
          <<a, b, c>>[i] = IF i <= Len(<<a, b>>) THEN <<a, b>>[i] ELSE <<c>>[i - Len(<<a, b>>)]
    BY <2>1, <1>3
  <2> QED BY ONLY <1>1, <2>2, <2>3, ConcatIs, Zenon
<1> QED BY <1>5, <1>6, <1>7

\* A transcript that was cut short is repaired to its one step, answered.
LEMMA InterruptedIsRepaired ==
  ASSUME NEW t \in Interrupted
  PROVE  Sanitized(t) = <<Seed, Request(CallsOf(1, 2)), Results(CallsOf(1, 2))>>
<1> DEFINE q == Request(CallsOf(1, 2))
           p == Results(CallsOf(1, 2))
           s == [i \in DOMAIN t |-> Repaired(t, i)]
<1>1. CallsOf(1, 2) = {<<1, 1>>, <<1, 2>>} /\ CallsOf(1, 1) = {<<1, 1>>}
  BY DEF CallsOf
<1>2. CallsOf(1, 2) # {} /\ CallsOf(1, 1) # {} /\ CallsOf(1, 1) \cup CallsOf(1, 2) = CallsOf(1, 2)
  BY <1>1
<1>3. /\ Seed.role = "user" /\ Seed.calls = {}
      /\ q.role = "assistant" /\ q.calls = CallsOf(1, 2)
      /\ \A c : Results(c).role = "user" /\ Results(c).calls = c
      /\ \A c, d : [Results(c) EXCEPT !.calls = @ \cup d] = Results(c \cup d)
  BY DEF Seed, Request, Results, Turn
<1> HIDE DEF q
<1>4. CASE t = <<Seed, q>>
  <2>1. Len(t) = 2 /\ DOMAIN t = {1, 2} /\ t[1] = Seed /\ t[2] = q
    BY <1>4
  <2>2. Repaired(t, 1) = <<Seed>>
    BY <1>3, <2>1 DEF Repaired, Asks, Answers
  <2>3. Repaired(t, 2) = <<q, p>>
    BY <1>2, <1>3, <2>1 DEF Repaired, Asks, Answers
  <2>4. Len(s) = 2 /\ s[1] = <<Seed>> /\ s[2] = <<q, p>>
    BY <2>1, <2>2, <2>3
  <2> DEFINE g == <<<<Seed>>, <<Seed, q, p>>>>
  <2>5. <<Seed>> \o <<q, p>> = <<Seed, q, p>>
    BY SmallConcats
  <2> HIDE DEF s, p
  <2>6. Unfolds(g, s, 2)
    <3>1. g[1] = <<Seed>> /\ g[2] = <<Seed, q, p>>
      OBVIOUS
    <3>2. g[1] = s[1] /\ g[2] = g[1] \o s[2]
      BY <2>4, <2>5, <3>1
    <3> HIDE DEF g
    <3>3. ASSUME NEW i \in 1 .. 2 PROVE g[i] = IF i = 1 THEN s[i] ELSE g[i-1] \o s[i]
      <4>1. i = 1 \/ (i = 2 /\ i - 1 = 1)
        OBVIOUS
      <4> QED BY ONLY <3>2, <4>1
    <3> QED BY ONLY <3>3 DEF Unfolds
  <2>7. FlattenSeq(s) = g[2]
    <3> HIDE DEF g
    <3>1. 2 \in Nat \ {0} /\ Len(s) = 2
      BY <2>4
    <3> QED BY ONLY <3>1, <2>6, Flattened, Zenon
  <2> QED BY <2>7 DEF Sanitized, s, p, q
<1>5. CASE t = <<Seed, q, Results(CallsOf(1, 1))>>
  <2>1. /\ Len(t) = 3 /\ DOMAIN t = {1, 2, 3}
        /\ t[1] = Seed /\ t[2] = q /\ t[3] = Results(CallsOf(1, 1))
    BY <1>5
  <2>2. Repaired(t, 1) = <<Seed>>
    BY <1>3, <2>1 DEF Repaired, Asks, Answers
  <2>3. Repaired(t, 2) = <<q>>
    BY <1>2, <1>3, <2>1 DEF Repaired, Asks, Answers
  <2>4. Repaired(t, 3) = <<p>>
    <3>1. ~ Asks(t, 3) /\ Answers(t, 3)
      BY <1>2, <1>3, <2>1 DEF Asks, Answers
    <3>2. Repaired(t, 3) = <<[t[3] EXCEPT !.calls = @ \cup t[2].calls]>>
      BY <3>1 DEF Repaired
    <3>3. [t[3] EXCEPT !.calls = @ \cup t[2].calls] = Results(CallsOf(1, 1) \cup CallsOf(1, 2))
      BY <1>3, <2>1
    <3> QED BY <1>2, <3>2, <3>3
  <2>5. Len(s) = 3 /\ s[1] = <<Seed>> /\ s[2] = <<q>> /\ s[3] = <<p>>
    BY <2>1, <2>2, <2>3, <2>4
  <2> DEFINE g == <<<<Seed>>, <<Seed, q>>, <<Seed, q, p>>>>
  <2>6. <<Seed>> \o <<q>> = <<Seed, q>> /\ <<Seed, q>> \o <<p>> = <<Seed, q, p>>
    BY SmallConcats
  <2> HIDE DEF s, p
  <2>7. Unfolds(g, s, 3)
    <3>1. g[1] = <<Seed>> /\ g[2] = <<Seed, q>> /\ g[3] = <<Seed, q, p>>
      OBVIOUS
    <3>2. g[1] = s[1] /\ g[2] = g[1] \o s[2] /\ g[3] = g[2] \o s[3]
      BY <2>5, <2>6, <3>1
    <3> HIDE DEF g
    <3>3. ASSUME NEW i \in 1 .. 3 PROVE g[i] = IF i = 1 THEN s[i] ELSE g[i-1] \o s[i]
      <4>1. i = 1 \/ (i = 2 /\ i - 1 = 1) \/ (i = 3 /\ i - 1 = 2)
        OBVIOUS
      <4> QED BY ONLY <3>2, <4>1
    <3> QED BY ONLY <3>3 DEF Unfolds
  <2>8. FlattenSeq(s) = g[3]
    <3> HIDE DEF g
    <3>1. 3 \in Nat \ {0} /\ Len(s) = 3
      BY <2>5
    <3> QED BY ONLY <3>1, <2>7, Flattened, Zenon
  <2> QED BY <2>8 DEF Sanitized, s, p, q
<1> QED BY <1>4, <1>5 DEF Interrupted, q

\* A conversation of the same turns but for its notes, seen by the other parts.
LEMMA SameTurns ==
  ASSUME NEW t \in Seq(TurnRecords), NEW u \in Seq(TurnRecords), Len(u) = Len(t),
         \A i \in 1 .. Len(t) : /\ u[i].role = t[i].role
                                /\ u[i].calls = t[i].calls
                                /\ u[i].steps = t[i].steps,
         WellFormed(t), NEW k \in Nat, Steps(t, k)
  PROVE  WellFormed(u) /\ Steps(u, k)
<1>1. DOMAIN t = 1 .. Len(t) /\ DOMAIN u = 1 .. Len(t) /\ Len(t) \in Nat
  BY LenProperties
<1>2. WellFormed(u)
  <2> SUFFICES ASSUME NEW i \in 1 .. Len(t)
               PROVE  IF i % 2 = 1
                      THEN u[i].role = "user" /\ u[i].calls = (IF i = 1 THEN {} ELSE u[i-1].calls)
                      ELSE u[i].role = "assistant"
    BY <1>1 DEF WellFormed
  <2>1. i # 1 => i - 1 \in 1 .. Len(t)
    OBVIOUS
  <2> QED BY <1>1, <2>1 DEF WellFormed
<1>3. PICK r \in 0 .. k :
        /\ t[1].steps = 1 .. r
        /\ Len(t) = 2 * (k - r) + 1
        /\ \A i \in 1 .. k - r : StepsOf(t[2 * i]) = {r + i}
        /\ \A i \in 2 .. Len(t) : t[i].steps = {}
  BY DEF Steps
<1>4. 1 \in 1 .. Len(t) /\ \A i \in 1 .. k - r : 2 * i \in 1 .. Len(t)
  BY <1>3
<1>5. \A i \in 1 .. Len(t) : StepsOf(u[i]) = StepsOf(t[i])
  BY DEF StepsOf
<1>6. \A i \in 1 .. k - r : StepsOf(u[2 * i]) = {r + i}
  BY <1>3, <1>4, <1>5
<1>7. u[1].steps = 1 .. r /\ \A i \in 2 .. Len(u) : u[i].steps = {}
  BY <1>1, <1>3, <1>4
<1>8. Steps(u, k)
  BY <1>3, <1>6, <1>7 DEF Steps
<1> QED BY <1>2, <1>8

\* Notes go into the last turn, the user's; nothing else of the conversation changes.
LEMMA NotedIs ==
  ASSUME NEW t \in Seq(TurnRecords), WellFormed(t), NEW notes \in SUBSET (Feedback \cup Nat)
  PROVE  /\ Noted(t, notes) \in Seq(TurnRecords)
         /\ Len(Noted(t, notes)) = Len(t)
         /\ \A i \in 1 .. Len(t) :
              /\ Noted(t, notes)[i].role = t[i].role
              /\ Noted(t, notes)[i].calls = t[i].calls
              /\ Noted(t, notes)[i].steps = t[i].steps
              /\ Noted(t, notes)[i].notes = IF i = Len(t) THEN t[i].notes \cup notes
                                            ELSE t[i].notes
<1> DEFINE u == Noted(t, notes)
           n == Len(t)
           e == [t[n] EXCEPT !.notes = @ \cup notes]
<1>1. n \in Nat /\ DOMAIN t = 1 .. n /\ n % 2 = 1 /\ n \in 1 .. n
  BY LenProperties DEF WellFormed
<1>2. Last(t).role = "user"
  BY <1>1 DEF WellFormed, Last
<1>3. t[n] \in TurnRecords
  BY <1>1, ElementOfSeq
<1>4. e \in TurnRecords
  BY <1>3 DEF TurnRecords
<1>5. CASE notes = {}
  <2>1. u = t
    BY <1>5 DEF Noted
  <2> QED BY <1>5, <2>1
<1>6. CASE notes # {}
  <2>1. [t EXCEPT ![n].notes = @ \cup notes] = [t EXCEPT ![n] = e]
    BY <1>1
  <2>2. u = [t EXCEPT ![n] = e]
    BY <1>2, <1>6, <2>1 DEF Noted
  <2>3. /\ u \in Seq(TurnRecords) /\ Len(u) = n
        /\ \A i \in 1 .. n : u[i] = IF i = n THEN e ELSE t[i]
    <3> HIDE DEF u, e
    <3> QED BY <1>1, <1>4, <2>2, ExceptSeq
  <2>4. /\ e.role = t[n].role /\ e.calls = t[n].calls /\ e.steps = t[n].steps
        /\ e.notes = t[n].notes \cup notes
    BY <1>3 DEF TurnRecords
  <2>5. \A i \in 1 .. n : /\ u[i].role = t[i].role
                          /\ u[i].calls = t[i].calls
                          /\ u[i].steps = t[i].steps
                          /\ u[i].notes = IF i = n THEN t[i].notes \cup notes ELSE t[i].notes
    <3> HIDE DEF u, e
    <3> QED BY <2>3, <2>4
  <2> QED BY <2>3, <2>5
<1> QED BY <1>5, <1>6

LEMMA NotedKeeps ==
  ASSUME NEW t, NEW k \in Nat, NEW excused, NEW pending, NEW known,
         Good(t, k, excused, pending, known),
         NEW notes \in SUBSET (Feedback \cup Nat), NEW excused2, NEW pending2, NEW known2,
         excused \subseteq excused2, known \cup notes \subseteq known2,
         \A i \in DOMAIN t : /\ t[i].notes \cap notes \subseteq excused2
                             /\ t[i].notes \cap pending2 = {},
         notes \cap pending2 = {}
  PROVE  Good(Noted(t, notes), k, excused2, pending2, known2)
<1> DEFINE u == Noted(t, notes)
           n == Len(t)
<1>1. t \in Seq(TurnRecords) /\ WellFormed(t) /\ Steps(t, k) /\ Once(t, excused)
      /\ Told(t, pending, known)
  BY DEF Good
<1>2. n \in Nat /\ DOMAIN t = 1 .. n
  BY <1>1, LenProperties
<1>3. /\ u \in Seq(TurnRecords)
      /\ Len(u) = n
      /\ \A i \in 1 .. n : /\ u[i].role = t[i].role
                           /\ u[i].calls = t[i].calls
                           /\ u[i].steps = t[i].steps
                           /\ u[i].notes = IF i = n THEN t[i].notes \cup notes ELSE t[i].notes
  BY <1>1, NotedIs
<1> HIDE DEF u
<1>4. WellFormed(u) /\ Steps(u, k)
  <2>1. \A i \in 1 .. Len(t) : /\ u[i].role = t[i].role
                               /\ u[i].calls = t[i].calls
                               /\ u[i].steps = t[i].steps
    BY <1>3
  <2>2. Len(u) = Len(t)
    BY <1>3
  <2>3. /\ t \in Seq(TurnRecords) /\ u \in Seq(TurnRecords)
        /\ WellFormed(t) /\ k \in Nat /\ Steps(t, k)
    BY <1>1, <1>3
  <2> HIDE DEF n
  <2> QED BY ONLY <2>1, <2>2, <2>3, SameTurns
<1>5. DOMAIN u = 1 .. n
  BY <1>3, LenProperties
<1>6. Once(u, excused2)
  <2> SUFFICES ASSUME NEW i \in 1 .. n, NEW j \in 1 .. n, i # j
               PROVE  u[i].notes \cap u[j].notes \subseteq excused2
    BY <1>5 DEF Once
  <2>1. t[i].notes \cap t[j].notes \subseteq excused
    BY <1>1, <1>2 DEF Once
  <2> QED BY <1>2, <1>3, <2>1
<1>7. Told(u, pending2, known2)
  BY <1>1, <1>2, <1>3, <1>5 DEF Told
<1> QED BY <1>3, <1>4, <1>6, <1>7 DEF Good, u

\* A conversation that begins.
LEMMA SeedIsGood ==
  ASSUME NEW excused, NEW pending, NEW known
  PROVE  Good(<<Seed>>, 0, excused, pending, known)
<1>1. /\ Seed \in TurnRecords /\ Seed.role = "user" /\ Seed.calls = {} /\ Seed.steps = {}
      /\ Seed.notes = {}
  BY DEF Seed, Turn, TurnRecords
<1>2. /\ <<Seed>> \in Seq(TurnRecords) /\ Len(<<Seed>>) = 1
      /\ DOMAIN <<Seed>> = {1} /\ <<Seed>>[1] = Seed
  BY <1>1
<1> DEFINE t == <<Seed>>
<1>3. t \in Seq(TurnRecords) /\ Len(t) = 1 /\ DOMAIN t = {1} /\ t[1] = Seed
  BY <1>2
<1> HIDE DEF t
<1>4. WellFormed(t)
  BY <1>1, <1>3 DEF WellFormed
<1>5. Steps(t, 0)
  <2>1. t[1].steps = 1 .. 0 /\ Len(t) = 2 * (0 - 0) + 1
    BY <1>1, <1>3
  <2> QED BY <1>3, <2>1 DEF Steps
<1>6. Once(t, excused) /\ Told(t, pending, known)
  BY <1>1, <1>3 DEF Once, Told
<1> QED BY <1>3, <1>4, <1>5, <1>6 DEF Good, t

\* The turns of a further step.
LEMMA StepKeeps ==
  ASSUME NEW t, NEW n \in Nat, NEW excused, NEW pending, NEW known,
         Good(t, n, excused, pending, known), NEW k \in Nat \ {0}
  PROVE  Good(t \o <<Request(CallsOf(n + 1, k)), Results(CallsOf(n + 1, k))>>,
              n + 1, excused, pending, known)
<1> DEFINE q == Request(CallsOf(n + 1, k))
           p == Results(CallsOf(n + 1, k))
           u == t \o <<q, p>>
           m == Len(t)
<1>1. t \in Seq(TurnRecords) /\ WellFormed(t) /\ Steps(t, n) /\ Once(t, excused)
      /\ Told(t, pending, known)
  BY DEF Good
<1>2. m \in Nat /\ m % 2 = 1 /\ DOMAIN t = 1 .. m
  BY <1>1, LenProperties DEF WellFormed
<1>3. /\ q.role = "assistant" /\ q.calls = CallsOf(n + 1, k) /\ q.steps = {} /\ q.notes = {}
      /\ p.role = "user" /\ p.calls = CallsOf(n + 1, k) /\ p.steps = {} /\ p.notes = {}
  BY DEF Request, Results, Turn
<1>4. q \in TurnRecords /\ p \in TurnRecords
  BY MadeTurns
<1>5. StepsOf(q) = {n + 1}
  <2>1. {c[1] : c \in CallsOf(n + 1, k)} = {n + 1}
    <3>1. n + 1 \in Nat
      OBVIOUS
    <3> QED BY ONLY <3>1, k \in Nat \ {0}, CallsOfStep, Zenon
  <2> QED BY <1>3, <2>1 DEF StepsOf
<1> HIDE DEF q, p
<1>6. <<q, p>> \in Seq(TurnRecords) /\ Len(<<q, p>>) = 2 /\ <<q, p>>[1] = q /\ <<q, p>>[2] = p
  BY <1>4
<1>7. /\ u \in Seq(TurnRecords) /\ Len(u) = m + 2
      /\ \A i \in 1 .. m + 2 : u[i] = IF i <= m THEN t[i] ELSE <<q, p>>[i - m]
  BY <1>1, <1>6, ConcatProperties
<1>8. /\ \A i \in 1 .. m : u[i] = t[i]
      /\ u[m + 1] = q /\ u[m + 2] = p
  BY <1>2, <1>6, <1>7
<1>9. DOMAIN u = 1 .. m + 2
  BY <1>7, LenProperties
<1> HIDE DEF u
<1>10. WellFormed(u)
  <2>1. Len(u) % 2 = 1
    BY <1>2, <1>7
  <2>2. ASSUME NEW i \in 1 .. m + 2
        PROVE  IF i % 2 = 1
               THEN u[i].role = "user" /\ u[i].calls = (IF i = 1 THEN {} ELSE u[i-1].calls)
               ELSE u[i].role = "assistant"
    <3>1. CASE i <= m
      <4>1. i \in 1 .. m /\ (i # 1 => i - 1 \in 1 .. m)
        BY <1>2, <3>1
      <4>2. u[i] = t[i] /\ (i # 1 => u[i-1] = t[i-1])
        BY <1>8, <4>1
      <4> QED BY <1>1, <1>2, <4>1, <4>2 DEF WellFormed
    <3>2. CASE i = m + 1
      <4>1. i % 2 = 0
        BY <1>2, <3>2
      <4> QED BY <1>3, <1>8, <3>2, <4>1
    <3>3. CASE i = m + 2
      <4>1. i % 2 = 1 /\ i # 1 /\ i - 1 = m + 1
        BY <1>2, <3>3
      <4> QED BY <1>3, <1>8, <3>3, <4>1
    <3> QED BY <1>2, <3>1, <3>2, <3>3
  <2> QED BY <1>9, <2>1, <2>2 DEF WellFormed
<1>11. Steps(u, n + 1)
  <2>1. PICK r \in 0 .. n :
          /\ t[1].steps = 1 .. r
          /\ m = 2 * (n - r) + 1
          /\ \A i \in 1 .. n - r : StepsOf(t[2 * i]) = {r + i}
          /\ \A i \in 2 .. m : t[i].steps = {}
    BY <1>1 DEF Steps
  <2>2. r \in 0 .. n + 1 /\ Len(u) = 2 * ((n + 1) - r) + 1
    BY <1>7, <2>1
  <2>3. u[1].steps = 1 .. r
    BY <1>2, <1>8, <2>1
  <2>4. ASSUME NEW i \in 1 .. (n + 1) - r PROVE StepsOf(u[2 * i]) = {r + i}
    <3>1. CASE i = (n + 1) - r
      <4>1. 2 * i = m + 1 /\ r + i = n + 1
        BY <2>1, <3>1
      <4> QED BY <1>5, <1>8, <4>1
    <3>2. CASE i # (n + 1) - r
      <4>1. i \in 1 .. n - r /\ 2 * i \in 1 .. m
        BY <2>1, <3>2
      <4> QED BY <1>8, <2>1, <4>1
    <3> QED BY <3>1, <3>2
  <2>5. ASSUME NEW i \in 2 .. Len(u) PROVE u[i].steps = {}
    <3>1. i \in 2 .. m \/ i = m + 1 \/ i = m + 2
      BY <1>2, <1>7
    <3>2. i \in 2 .. m => i \in 1 .. m
      OBVIOUS
    <3> QED BY <1>3, <1>8, <2>1, <3>1, <3>2
  <2> QED BY <2>2, <2>3, <2>4, <2>5 DEF Steps
<1>12. \A i \in 1 .. m + 2 : u[i].notes = IF i <= m THEN t[i].notes ELSE {}
  <2> SUFFICES ASSUME NEW i \in 1 .. m + 2
               PROVE  u[i].notes = IF i <= m THEN t[i].notes ELSE {}
    OBVIOUS
  <2>1. CASE i \in 1 .. m
    BY <1>8, <2>1
  <2>2. CASE i = m + 1
    <3>1. u[i] = q /\ ~ (i <= m)
      BY <1>2, <1>8, <2>2
    <3> QED BY <1>3, <3>1
  <2>3. CASE i = m + 2
    <3>1. u[i] = p /\ ~ (i <= m)
      BY <1>2, <1>8, <2>3
    <3> QED BY <1>3, <3>1
  <2> QED BY <1>2, <2>1, <2>2, <2>3
<1>13. Once(u, excused)
  <2> SUFFICES ASSUME NEW i \in 1 .. m + 2, NEW j \in 1 .. m + 2, i # j
               PROVE  u[i].notes \cap u[j].notes \subseteq excused
    BY <1>9 DEF Once
  <2>1. i <= m /\ j <= m => t[i].notes \cap t[j].notes \subseteq excused
    BY <1>1, <1>2 DEF Once
  <2> QED BY <1>12, <2>1
<1>14. Told(u, pending, known)
  <2>1. \A i \in 1 .. m + 2 : i <= m => i \in DOMAIN t
    BY <1>2
  <2> QED BY <1>1, <1>9, <1>12, <2>1 DEF Told
<1> QED BY <1>7, <1>10, <1>11, <1>13, <1>14 DEF Good, u, q, p

\* What a transcript that was cut short is repaired to: one step behind it.
LEMMA RepairedIsGood ==
  ASSUME NEW excused, NEW pending, NEW known
  PROVE  Good(<<Seed, Request(CallsOf(1, 2)), Results(CallsOf(1, 2))>>, 1,
              excused, pending, known)
<1>1. Good(<<Seed>>, 0, excused, pending, known)
  BY SeedIsGood
<1>2. 0 \in Nat /\ 0 + 1 = 1 /\ 2 \in Nat \ {0}
  OBVIOUS
<1>3. Good(<<Seed>> \o <<Request(CallsOf(0 + 1, 2)), Results(CallsOf(0 + 1, 2))>>, 0 + 1,
           excused, pending, known)
  BY <1>1, <1>2, StepKeeps, Zenon
<1> QED BY <1>2, <1>3, SmallConcats

\* Max of a bounded set of naturals is what it is named for.
LEMMA MaxIs ==
  ASSUME NEW b \in Nat, NEW S, S \subseteq 1 .. b, S # {}
  PROVE  Max(S) \in S /\ \A y \in S : Max(S) >= y
<1> DEFINE T == {b - x : x \in S}
<1>1. T \subseteq Nat /\ T # {}
  <2>1. \A x \in S : b - x \in Nat
    <3> SUFFICES ASSUME NEW x \in S PROVE b - x \in Nat
      OBVIOUS
    <3>1. x \in 1 .. b
      OBVIOUS
    <3> QED BY <3>1
  <2> QED BY <2>1
<1>2. PICK m \in T : \A y \in T : m <= y
  <2> HIDE DEF T
  <2> QED BY <1>1, LeastNat
<1>3. PICK x \in S : m = b - x
  OBVIOUS
<1>4. \A y \in S : x >= y
  <2> SUFFICES ASSUME NEW y \in S PROVE x >= y
    OBVIOUS
  <2>1. b - y \in T
    OBVIOUS
  <2> HIDE DEF T
  <2>2. b - x <= b - y /\ x \in 1 .. b /\ y \in 1 .. b
    BY <1>2, <1>3, <2>1
  <2> QED BY <2>2
<1> HIDE DEF T
<1>5. \E z \in S : \A y \in S : z >= y
  BY <1>4
<1> QED BY ONLY <1>5 DEF Max

\* The cut: an assistant's turn follows it, and no more than Keep + 1 turns are left after
\* it, for of two neighbouring turns one is the assistant's.
LEMMA CutIsSafe ==
  ASSUME NEW t \in Seq(TurnRecords), WellFormed(t)
  PROVE  /\ SafeSplit(t) \in Nat
         /\ SafeSplit(t) > 1 => SafeSplit(t) \in 1 .. Len(t) - Keep /\ SafeSplit(t) % 2 = 1
         /\ Len(t) - Keep > 1 => SafeSplit(t) >= Len(t) - Keep - 1
<1> DEFINE n == Len(t)
           target == IF n - Keep > 1 THEN n - Keep ELSE 1
           cuts == {i \in 1 .. target : t[i + 1].role = "assistant"}
<1>1. n \in Nat /\ n % 2 = 1 /\ DOMAIN t = 1 .. n
  BY LenProperties DEF WellFormed
<1>2. Keep \in Nat \ {0}
  BY SettingsAssumption
<1>3. SafeSplit(t) = IF cuts = {} THEN 0 ELSE Max(cuts)
  BY DEF SafeSplit
<1>4. target \in Nat \ {0}
  <2>1. CASE n - Keep > 1
    <3>1. target = n - Keep
      BY <2>1
    <3> HIDE DEF target, n
    <3>2. n \in Nat /\ Keep \in Nat
      BY <1>1, <1>2
    <3> QED BY ONLY <2>1, <3>1, <3>2
  <2>2. CASE ~ (n - Keep > 1)
    <3>1. target = 1
      BY <2>2
    <3> HIDE DEF target
    <3> QED BY <3>1
  <2> QED BY <2>1, <2>2
<1>5. cuts # {} => Max(cuts) \in cuts /\ \A y \in cuts : Max(cuts) >= y
  <2>1. cuts \subseteq 1 .. target
    OBVIOUS
  <2> HIDE DEF cuts, target
  <2> QED BY <1>4, <2>1, MaxIs
<1>6. SafeSplit(t) \in Nat /\ (SafeSplit(t) > 1 => cuts # {} /\ SafeSplit(t) = Max(cuts))
  <2>1. cuts \subseteq Nat
    BY <1>4
  <2> HIDE DEF cuts
  <2>2. CASE cuts = {}
    <3>1. SafeSplit(t) = 0
      BY <1>3, <2>2
    <3> QED BY <3>1
  <2>3. CASE cuts # {}
    <3>1. SafeSplit(t) = Max(cuts)
      BY <1>3, <2>3
    <3> QED BY <1>5, <2>1, <2>3, <3>1
  <2> QED BY <2>2, <2>3
<1>7. ASSUME SafeSplit(t) > 1 PROVE SafeSplit(t) \in 1 .. n - Keep /\ SafeSplit(t) % 2 = 1
  <2>1. SafeSplit(t) \in cuts
    <3> HIDE DEF cuts
    <3> QED BY <1>5, <1>6, <1>7
  <2> DEFINE c == SafeSplit(t)
  <2>2. c \in 1 .. target /\ t[c + 1].role = "assistant"
    BY <2>1
  <2> HIDE DEF c
  <2>3. c > 1
    BY <1>7 DEF c
  <2>4. n - Keep > 1 /\ c \in 1 .. n - Keep
    BY <1>1, <1>2, <2>2, <2>3
  <2>5. c + 1 \in 1 .. n
    BY <1>1, <1>2, <2>4
  <2>6. (c + 1) % 2 # 1
    BY <1>1, <2>2, <2>5 DEF WellFormed
  <2>7. c % 2 = 1
    BY <2>4, <2>6
  <2> QED BY <2>4, <2>7 DEF c
<1>8. ASSUME n - Keep > 1 PROVE SafeSplit(t) >= n - Keep - 1
  <2>1. target = n - Keep /\ target > 1
    BY <1>8
  <2>2. PICK i \in {target - 1, target} : i + 1 \in 1 .. n /\ (i + 1) % 2 # 1 /\ i \in 1 .. target
    <3>1. /\ target - 1 \in 1 .. target /\ target \in 1 .. target
          /\ target - 1 + 1 \in 1 .. n /\ target + 1 \in 1 .. n
      <4> HIDE DEF target
      <4> QED BY <1>1, <1>2, <2>1
    <3>2. (target - 1 + 1) % 2 # 1 \/ (target + 1) % 2 # 1
      BY <1>4
    <3> HIDE DEF target
    <3> QED BY <3>1, <3>2
  <2>3. t[i + 1].role = "assistant"
    BY <1>1, <2>2 DEF WellFormed
  <2>4. i \in cuts
    BY <2>2, <2>3
  <2>5. SafeSplit(t) >= i
    <3> HIDE DEF cuts
    <3> QED BY <1>3, <1>5, <2>4
  <2>6. i >= target - 1 /\ i \in Nat
    <3> HIDE DEF target
    <3> QED BY <1>4, <2>2
  <2>7. i >= n - Keep - 1
    <3> HIDE DEF target
    <3> QED BY <2>1, <2>6
  <2> DEFINE c == SafeSplit(t)
  <2>8. c \in Nat /\ c >= i /\ n \in Nat /\ Keep \in Nat
    BY <1>1, <1>2, <1>6, <2>5
  <2>9. c >= n - Keep - 1
    <3> HIDE DEF c, n
    <3> QED BY ONLY <2>6, <2>7, <2>8
  <2> QED BY <2>9
<1> QED BY <1>6, <1>7, <1>8

\* A recap stands for the turns it replaces: the conversation is as good as before, and
\* short.
LEMMA CompactedKeeps ==
  ASSUME NEW t, NEW k \in Nat, NEW excused, NEW pending, NEW known,
         Good(t, k, excused, pending, known), SafeSplit(t) > 1
  PROVE  /\ Good(Compacted(t), k, excused, pending, known)
         /\ Len(Compacted(t)) <= Keep + 2
<1> DEFINE n == Len(t)
           s == SafeSplit(t)
           old == SubSeq(t, 1, s)
           tail == SubSeq(t, s + 1, n)
           u == Compacted(t)
<1>1. t \in Seq(TurnRecords) /\ WellFormed(t) /\ Steps(t, k) /\ Once(t, excused)
      /\ Told(t, pending, known)
  BY DEF Good
<1>2. n \in Nat /\ n % 2 = 1 /\ DOMAIN t = 1 .. n /\ Keep \in Nat \ {0}
  BY <1>1, LenProperties, SettingsAssumption DEF WellFormed
<1>3. s \in 1 .. n - Keep /\ s % 2 = 1 /\ s > 1 /\ s >= n - Keep - 1
  <2>1. s \in 1 .. n - Keep /\ s % 2 = 1
    BY <1>1, CutIsSafe
  <2>2. n - Keep > 1
    <3> HIDE DEF s, n
    <3> QED BY <1>2, <2>1, SafeSplit(t) > 1 DEF s
  <2> QED BY <1>1, <2>1, <2>2, CutIsSafe
<1> HIDE DEF s
<1>4. s \in 2 .. n /\ s + 1 \in 1 .. n
  BY <1>2, <1>3
<1>5. /\ old \in Seq(TurnRecords) /\ Len(old) = s /\ \A i \in 1 .. s : old[i] = t[i]
      /\ DOMAIN old = 1 .. s
  <2>1. \A i \in 1 .. s : t[i] \in TurnRecords
    BY <1>1, <1>4, ElementOfSeq
  <2>2. old \in Seq(TurnRecords) /\ Len(old) = s /\ \A i \in 1 .. s : old[i] = t[i]
    BY <1>4, <2>1, SubSeqProperties
  <2> QED BY <2>2, LenProperties
<1>6. /\ tail \in Seq(TurnRecords) /\ Len(tail) = n - s
      /\ \A i \in 1 .. n - s : tail[i] = t[s + i]
  <2>1. \A i \in s + 1 .. n : t[i] \in TurnRecords
    BY <1>1, <1>4, ElementOfSeq
  <2>2. /\ tail \in Seq(TurnRecords) /\ Len(tail) = n - s
        /\ \A i \in 1 .. n - (s + 1) + 1 : tail[i] = t[(s + 1) + i - 1]
    BY <1>2, <1>4, <2>1, SubSeqProperties
  <2> QED BY <1>2, <1>4, <2>2
<1> HIDE DEF old, tail
<1>7. /\ Recap(old).role = "user" /\ Recap(old).calls = {}
      /\ Recap(old).steps = UNION {StepsOf(t[i]) : i \in 1 .. s}
      /\ Recap(old).notes = UNION {t[i].notes : i \in 1 .. s}
  BY <1>5 DEF Recap, Turn
<1>8. Recap(old) \in TurnRecords
  <2>1. \A i \in 1 .. s : t[i].notes \subseteq Feedback \cup Nat /\ StepsOf(t[i]) \subseteq Nat
    <3> SUFFICES ASSUME NEW i \in 1 .. s
                 PROVE  t[i].notes \subseteq Feedback \cup Nat /\ StepsOf(t[i]) \subseteq Nat
      OBVIOUS
    <3>1. t[i] \in TurnRecords
      BY <1>1, <1>4, ElementOfSeq
    <3>2. \A c \in t[i].calls : c[1] \in Nat
      BY <3>1 DEF TurnRecords
    <3> QED BY <3>1, <3>2 DEF TurnRecords, StepsOf
  <2> QED BY <1>5, <2>1 DEF Recap, Turn, TurnRecords
<1>9. /\ u \in Seq(TurnRecords) /\ Len(u) = n - s + 1 /\ DOMAIN u = 1 .. n - s + 1
      /\ u[1] = Recap(old)
      /\ \A i \in 2 .. n - s + 1 : s + i - 1 \in 2 .. n /\ u[i] = t[s + i - 1]
  <2> DEFINE h == <<Recap(old)>>
  <2>1. h \in Seq(TurnRecords) /\ Len(h) = 1 /\ h[1] = Recap(old)
    BY <1>8
  <2>2. u = h \o tail
    BY DEF Compacted, s, old, tail
  <2> HIDE DEF h, u
  <2>3. /\ u \in Seq(TurnRecords) /\ Len(u) = 1 + (n - s)
        /\ \A i \in 1 .. 1 + (n - s) : u[i] = IF i <= 1 THEN h[i] ELSE tail[i - 1]
    <3>1. /\ h \o tail \in Seq(TurnRecords) /\ Len(h \o tail) = Len(h) + Len(tail)
          /\ \A i \in 1 .. Len(h) + Len(tail) :
               (h \o tail)[i] = IF i <= Len(h) THEN h[i] ELSE tail[i - Len(h)]
      BY ONLY <1>6, <2>1, ConcatProperties
    <3>2. Len(h) = 1 /\ Len(tail) = n - s
      BY <1>6, <2>1
    <3> HIDE DEF n
    <3> QED BY ONLY <2>2, <3>1, <3>2
  <2>4. u[1] = Recap(old) /\ Len(u) = n - s + 1
    BY <1>2, <1>4, <2>1, <2>3
  <2>5. ASSUME NEW i \in 2 .. n - s + 1 PROVE s + i - 1 \in 2 .. n /\ u[i] = t[s + i - 1]
    <3>1. i - 1 \in 1 .. n - s /\ i \in 1 .. 1 + (n - s) /\ ~ (i <= 1) /\ s + (i - 1) = s + i - 1
      BY <1>2, <1>4
    <3>2. u[i] = tail[i - 1]
      BY <2>3, <3>1
    <3>3. tail[i - 1] = t[s + (i - 1)]
      BY <1>6, <3>1
    <3> QED BY <1>2, <1>4, <3>1, <3>2, <3>3
  <2> QED BY <2>3, <2>4, <2>5, LenProperties
<1> HIDE DEF u, n
<1>10. WellFormed(u)
  <2>1. Len(u) % 2 = 1
    BY <1>2, <1>3, <1>9
  <2>2. ASSUME NEW i \in 1 .. n - s + 1
        PROVE  IF i % 2 = 1
               THEN u[i].role = "user" /\ u[i].calls = (IF i = 1 THEN {} ELSE u[i-1].calls)
               ELSE u[i].role = "assistant"
    <3>1. CASE i = 1
      BY <1>7, <1>9, <3>1
    <3>2. CASE i # 1
      <4> DEFINE j == s + i - 1
      <4>1. j \in 2 .. n /\ u[i] = t[j] /\ j \in DOMAIN t /\ j # 1
        BY <1>2, <1>9, <3>2
      <4>2. j % 2 = i % 2
        BY <1>3
      <4>3. i % 2 = 1 => i - 1 \in 2 .. n - s + 1 /\ s + (i - 1) - 1 = j - 1
        BY <1>2, <1>3, <3>2
      <4>4. i % 2 = 1 => u[i - 1] = t[j - 1]
        BY <1>9, <4>3
      <4> HIDE DEF j
      <4> QED BY <1>1, <3>2, <4>1, <4>2, <4>4 DEF WellFormed
    <3> QED BY <3>1, <3>2
  <2> QED BY <1>9, <2>1, <2>2 DEF WellFormed
<1>11. Steps(u, k)
  <2>1. PICK r \in 0 .. k :
          /\ t[1].steps = 1 .. r
          /\ n = 2 * (k - r) + 1
          /\ \A i \in 1 .. k - r : StepsOf(t[2 * i]) = {r + i}
          /\ \A i \in 2 .. n : t[i].steps = {}
    BY <1>1 DEF Steps, n
  <2>2. PICK d \in Nat : s = 2 * d + 1
    <3>1. (s - 1) \div 2 \in Nat /\ s = 2 * ((s - 1) \div 2) + 1
      BY <1>2, <1>3
    <3> QED BY <3>1
  <2>3. d <= k - r /\ r + d \in 0 .. k
    BY <1>2, <1>4, <2>1, <2>2
  <2>4. Recap(old).steps = 1 .. r + d
    <3>1. StepsOf(t[1]) = 1 .. r
      <4>1. t[1].calls = {}
        BY <1>1, <1>2 DEF WellFormed
      <4> QED BY <2>1, <4>1 DEF StepsOf
    <3>2. \A i \in 1 .. d : StepsOf(t[2 * i]) = {r + i}
      <4>1. \A i \in 1 .. d : i \in 1 .. k - r
        BY <2>3
      <4> QED BY <2>1, <4>1
    <3>3. ASSUME NEW i \in 1 .. d PROVE StepsOf(t[2 * i + 1]) \subseteq {r + i}
      <4>1. 2 * i + 1 \in 2 .. n /\ (2 * i + 1) % 2 = 1 /\ 2 * i + 1 # 1 /\ (2 * i + 1) - 1 = 2 * i
        BY <1>2, <1>4, <2>2
      <4>2. t[2 * i + 1].steps = {} /\ t[2 * i + 1].calls = t[2 * i].calls
        BY <1>1, <1>2, <2>1, <4>1 DEF WellFormed
      <4> QED BY <3>2, <4>2 DEF StepsOf
    <3>4. ASSUME NEW i \in 1 .. s
          PROVE  i = 1 \/ (\E j \in 1 .. d : i = 2 * j) \/ (\E j \in 1 .. d : i = 2 * j + 1)
      <4>1. i \div 2 \in Nat /\ (i = 2 * (i \div 2) \/ i = 2 * (i \div 2) + 1)
        BY <1>2, <1>4
      <4>2. i # 1 => i \div 2 \in 1 .. d
        BY <1>2, <1>4, <2>2, <4>1
      <4> QED BY <4>1, <4>2
    <3>5. ASSUME NEW i \in 1 .. s PROVE StepsOf(t[i]) \subseteq 1 .. r + d
      <4>1. CASE i = 1
        BY <2>2, <3>1, <4>1
      <4>2. ASSUME NEW j \in 1 .. d, i = 2 * j PROVE StepsOf(t[i]) \subseteq 1 .. r + d
        BY <3>2, <4>2
      <4>3. ASSUME NEW j \in 1 .. d, i = 2 * j + 1 PROVE StepsOf(t[i]) \subseteq 1 .. r + d
        BY <3>3, <4>3
      <4> QED BY <3>4, <4>1, <4>2, <4>3
    <3>6. ASSUME NEW c \in 1 .. r + d PROVE \E i \in 1 .. s : c \in StepsOf(t[i])
      <4>1. CASE c <= r
        BY <1>3, <1>4, <3>1, <4>1
      <4>2. CASE c > r
        <5>1. c - r \in 1 .. d /\ 2 * (c - r) \in 1 .. s /\ r + (c - r) = c
          BY <2>2, <4>2
        <5> QED BY <3>2, <5>1
      <4> QED BY <4>1, <4>2
    <3> QED BY <1>7, <3>5, <3>6
  <2>5. Len(u) = 2 * (k - (r + d)) + 1
    BY <1>9, <2>1, <2>2
  <2>6. ASSUME NEW i \in 1 .. k - (r + d) PROVE StepsOf(u[2 * i]) = {(r + d) + i}
    <3>1. 2 * i \in 2 .. n - s + 1 /\ s + 2 * i - 1 = 2 * (d + i) /\ d + i \in 1 .. k - r
      BY <2>1, <2>2, <2>3
    <3>2. u[2 * i] = t[2 * (d + i)]
      BY <1>9, <3>1
    <3>3. StepsOf(t[2 * (d + i)]) = {r + (d + i)}
      BY <2>1, <3>1
    <3> QED BY <3>2, <3>3
  <2>7. ASSUME NEW i \in 2 .. Len(u) PROVE u[i].steps = {}
    <3>1. i \in 2 .. n - s + 1
      BY <1>9
    <3>2. s + i - 1 \in 2 .. n /\ u[i] = t[s + i - 1]
      BY <1>9, <3>1
    <3> QED BY <2>1, <3>2
  <2> QED BY <1>9, <2>3, <2>4, <2>5, <2>6, <2>7 DEF Steps
\* What a turn of the shorter conversation tells, one of the turns it stands for told.
<1> DEFINE stands(i) == IF i = 1 THEN 1 .. s ELSE {s + i - 1}
<1>12. ASSUME NEW i \in DOMAIN u, NEW x \in u[i].notes
       PROVE  \E j \in stands(i) : j \in DOMAIN t /\ x \in t[j].notes
  <2>1. CASE i = 1
    BY <1>2, <1>4, <1>7, <1>9, <2>1
  <2>2. CASE i # 1
    <3>1. i \in 2 .. n - s + 1
      BY <1>2, <1>4, <1>9, <2>2
    <3>2. u[i] = t[s + i - 1] /\ s + i - 1 \in 2 .. n
      BY <1>9, <3>1
    <3>3. s + i - 1 \in DOMAIN t
      BY <1>2, <3>2
    <3> QED BY <2>2, <3>2, <3>3
  <2> QED BY <2>1, <2>2
<1>13. Once(u, excused)
  <2> SUFFICES ASSUME NEW i \in DOMAIN u, NEW j \in DOMAIN u, i # j,
                      NEW x \in u[i].notes \cap u[j].notes
               PROVE  x \in excused
    BY DEF Once
  <2>1. PICK a \in stands(i) : a \in DOMAIN t /\ x \in t[a].notes
    BY <1>12
  <2>2. PICK b \in stands(j) : b \in DOMAIN t /\ x \in t[b].notes
    BY <1>12
  <2>3. a # b
    BY <1>2, <1>4, <1>9, <2>1, <2>2
  <2> QED BY <1>1, <2>1, <2>2, <2>3 DEF Once
<1>14. Told(u, pending, known)
  <2> SUFFICES ASSUME NEW i \in DOMAIN u, NEW x \in u[i].notes
               PROVE  x \notin pending /\ x \in known
    BY DEF Told
  <2>1. PICK a \in stands(i) : a \in DOMAIN t /\ x \in t[a].notes
    BY <1>12
  <2> QED BY <1>1, <2>1 DEF Told
<1>15. Len(u) <= Keep + 2
  BY <1>2, <1>3, <1>9
<1> QED BY <1>9, <1>10, <1>11, <1>13, <1>14, <1>15 DEF Good, u

-----------------------------------------------------------------------------
(* The task.                                                                 *)

Marks ==
    /\ pc \in Stages
    /\ posts \in Nat /\ kept \in Nat
    /\ given \subseteq Feedback /\ input \subseteq given
    /\ watermark \in {None} \cup 1 .. posts
    /\ newest \in 0 .. posts
    /\ pc = "counting" => /\ newest + 1 .. posts \subseteq late
                          /\ newest >= watermark
                          /\ watermark # None => newest > 0

\* What a conversation may tell: the feedback that was given, and the messages up to the
\* watermark; others only if they came while the news was counted.
Known == given \cup {n \in 1 .. posts : n \in late \/ (watermark # None /\ n <= watermark)}

\* The conversation in memory has the checkpointed steps behind it, and the one whose
\* results are there.
Current ==
    IF pc \in {"queued", "done"} THEN messages = <<>>
    ELSE Good(messages, IF pc = "acted" THEN kept + 1 ELSE kept, late, input, Known)

\* So has the checkpoint, unless it was cut short before the task came here.
Checkpoint ==
    \/ saved = <<>> /\ kept = 0
    \/ saved \in Interrupted /\ kept = 1
    \/ Good(saved, kept, late, input, Known)

MemoryInv == Marks /\ Current /\ Checkpoint

LEMMA MemoryBegins == MemoryInit => MemoryInv
<1> SUFFICES ASSUME MemoryInit PROVE MemoryInv
  OBVIOUS
<1>1. Marks
  <2>1. /\ kept \in {0, 1} /\ input = {} /\ watermark = None /\ posts = 0 /\ pc = "queued"
        /\ newest = 0 /\ given = {}
    BY DEF MemoryInit
  <2>2. pc \in Stages
    BY <2>1 DEF Stages
  <2>3. posts \in Nat /\ kept \in Nat
    BY <2>1
  <2>4. given \subseteq Feedback /\ input \subseteq given
    BY <2>1
  <2>5. watermark \in {None} \cup 1 .. posts /\ newest \in 0 .. posts
    BY <2>1
  <2>6. pc # "counting"
    BY <2>1
  <2> QED BY <2>2, <2>3, <2>4, <2>5, <2>6 DEF Marks
<1>2. Current /\ Checkpoint
  BY DEF MemoryInit, Current, Checkpoint
<1> QED BY <1>1, <1>2 DEF MemoryInv

\* A good conversation stays good while more becomes known and nothing of it is left to
\* be told again.
LEMMA GoodStays ==
  ASSUME NEW t, NEW k, NEW excused, NEW pending, NEW known,
         Good(t, k, excused, pending, known),
         NEW excused2, NEW pending2, NEW known2,
         excused \subseteq excused2, known \subseteq known2,
         pending2 \cap known \subseteq pending
  PROVE  Good(t, k, excused2, pending2, known2)
<1>1. Once(t, excused2)
  BY DEF Good, Once
<1>2. Told(t, pending2, known2)
  BY DEF Good, Told
<1> QED BY <1>1, <1>2 DEF Good

LEMMA MarksKept ==
  ASSUME MemoryInv, [MemoryNext]_memoryVars
  PROVE  Marks'
<1> USE DEF MemoryInv, Marks, Stages, None, durable, history, Idle
<1>1. CASE Resume
  BY <1>1 DEF Resume
<1>2. CASE InjectNotes
  BY <1>2 DEF InjectNotes
<1>3. CASE Compact
  BY <1>3 DEF Compact
<1>4. CASE SaveRecap
  BY <1>4 DEF SaveRecap
<1>5. CASE KeepAll
  BY <1>5 DEF KeepAll, Long
<1>6. CASE Look
  BY <1>6 DEF Look
<1>7. CASE Nudge
  <2>1. /\ pc' = "asking" /\ newest' = 0 /\ watermark' = (IF newest > 0 THEN newest ELSE watermark)
        /\ UNCHANGED <<posts, kept, given, input>>
    BY <1>7 DEF Nudge
  <2>2. watermark' \in {None} \cup 1 .. posts
    BY <2>1
  <2> QED BY <2>1, <2>2
<1>8. ASSUME NEW k \in 1 .. MaxCalls, Step(k) PROVE Marks'
  <2>1. pc' = "acted" /\ UNCHANGED <<posts, kept, given, input, watermark, newest>>
    BY <1>8 DEF Step
  <2> QED BY <2>1
<1>9. CASE Save
  <2>1. /\ pc' = "boundary" /\ kept' = kept + 1
        /\ UNCHANGED <<posts, given, input, watermark, newest>>
    BY <1>9 DEF Save
  <2> QED BY <2>1
<1>10. ASSUME NEW notes \in SUBSET Feedback, Park(notes) \/ StartOver(notes) PROVE Marks'
  <2>1. /\ pc' = "queued" /\ kept' \in {0, kept} /\ newest' = 0
        /\ given' = given \cup notes /\ input' = input \cup notes
        /\ UNCHANGED <<posts, watermark>>
    BY <1>10 DEF Park, StartOver
  <2> QED BY <2>1
<1>11. CASE Report \/ GiveUp
  BY <1>11 DEF Report, GiveUp, End
<1>12. CASE Interrupt
  BY <1>12 DEF Interrupt
<1>13. CASE Post
  BY <1>13 DEF Post
<1>14. CASE UNCHANGED memoryVars
  BY <1>14 DEF memoryVars
<1> QED BY <1>1, <1>2, <1>3, <1>4, <1>5, <1>6, <1>7, <1>8, <1>9, <1>10, <1>11, <1>12, <1>13,
           <1>14 DEF MemoryNext

\* No step forgets what may have been told or leaves a note to be told again.
LEMMA KnowsMore ==
  ASSUME MemoryInv, [MemoryNext]_memoryVars
  PROVE  late \subseteq late' /\ Known \subseteq Known' /\ input' \cap Known \subseteq input
<1> USE DEF MemoryInv, Marks, Stages, None, durable, history, Idle
<1>1. CASE UNCHANGED <<late, given, posts, watermark>> /\ input' \subseteq input
  BY <1>1 DEF Known
<1>2. ASSUME NEW notes \in SUBSET Feedback, Park(notes) \/ StartOver(notes)
      PROVE  late \subseteq late' /\ Known \subseteq Known' /\ input' \cap Known \subseteq input
  <2>1. UNCHANGED <<late, posts, watermark>> /\ given' = given \cup notes
        /\ input' = input \cup notes /\ notes \cap given = {}
    BY <1>2 DEF Park, StartOver
  <2>2. notes \cap Known = {}
    BY <2>1, FeedbackAssumption DEF Known
  <2> QED BY <2>1, <2>2 DEF Known
<1>3. CASE Nudge
  <2>1. UNCHANGED <<late, given, posts, input>>
        /\ watermark' = (IF newest > 0 THEN newest ELSE watermark)
        /\ newest >= watermark /\ pc = "counting"
    BY <1>3 DEF Nudge
  <2>2. ASSUME NEW n \in 1 .. posts, watermark # None, n <= watermark
        PROVE  watermark' # None /\ n <= watermark'
    BY <2>1, <2>2
  <2> QED BY <2>1, <2>2 DEF Known
<1>4. CASE Post
  <2>1. UNCHANGED <<given, input, watermark>> /\ posts' = posts + 1 /\ late \subseteq late'
    BY <1>4 DEF Post
  <2> QED BY <2>1 DEF Known
<1>5. CASE InjectNotes
  BY <1>1, <1>5 DEF InjectNotes
<1>6. CASE Resume \/ Compact \/ SaveRecap \/ KeepAll \/ Look \/ Save \/ Report \/ GiveUp
           \/ Interrupt \/ UNCHANGED memoryVars
  <2>1. UNCHANGED <<late, given, posts, watermark, input>>
    BY <1>6 DEF Resume, Compact, SaveRecap, KeepAll, Look, Save, Report, GiveUp, End, Interrupt,
                memoryVars
  <2> QED BY <1>1, <2>1
<1>7. CASE \E k \in 1 .. MaxCalls : Step(k)
  <2>1. UNCHANGED <<late, given, posts, watermark, input>>
    BY <1>7 DEF Step
  <2> QED BY <1>1, <2>1
<1> QED BY <1>2, <1>3, <1>4, <1>5, <1>6, <1>7 DEF MemoryNext

\* Where a step leaves the conversation, or its checkpoint, and the steps behind it alone.
LEMMA Undisturbed ==
  ASSUME MemoryInv, [MemoryNext]_memoryVars
  PROVE  /\ \A t, k : Good(t, k, late, input, Known) => Good(t, k, late', input', Known')
         /\ UNCHANGED <<saved, kept>> => Checkpoint'
         /\ saved' = <<>> /\ kept' = 0 => Checkpoint'
<1>1. late \subseteq late' /\ Known \subseteq Known' /\ input' \cap Known \subseteq input
  BY KnowsMore
<1>2. ASSUME NEW t, NEW k, Good(t, k, late, input, Known)
      PROVE  Good(t, k, late', input', Known')
  <2> HIDE DEF Known
  <2> QED BY <1>1, <1>2, GoodStays, Zenon
<1>3. ASSUME UNCHANGED <<saved, kept>> PROVE Checkpoint'
  <2>1. saved' = saved /\ kept' = kept
    BY <1>3
  <2>2. Good(saved, kept, late, input, Known) => Good(saved', kept', late', input', Known')
    BY <1>2, <2>1
  <2>3. Interrupted' = Interrupted
    BY DEF Interrupted
  <2> QED BY <2>1, <2>2, <2>3 DEF MemoryInv, Checkpoint
<1>4. ASSUME saved' = <<>> /\ kept' = 0 PROVE Checkpoint'
  BY <1>4 DEF Checkpoint
<1> QED BY <1>2, <1>3, <1>4

LEMMA ResumeKeeps ==
  ASSUME MemoryInv, Resume
  PROVE  Current' /\ Checkpoint'
<1>1. [MemoryNext]_memoryVars
  BY DEF MemoryNext
<1>2. /\ UNCHANGED <<saved, kept, late, input>> /\ pc' = "resumed"
      /\ messages' = IF saved = <<>> THEN <<Seed>> ELSE Sanitized(saved)
  BY DEF Resume, durable, history
<1>3. Checkpoint'
  BY <1>1, <1>2, Undisturbed
<1>4. Good(messages', kept', late', input', Known')
  <2>1. CASE saved = <<>> /\ kept = 0
    <3>1. messages' = <<Seed>> /\ kept' = 0
      BY <1>2, <2>1
    <3>2. Good(<<Seed>>, 0, late', input', Known')
      BY SeedIsGood
    <3> QED BY <3>1, <3>2
  <2>2. CASE saved \in Interrupted /\ kept = 1
    <3>1. saved # <<>>
      BY <2>2 DEF Interrupted
    <3>2. messages' = <<Seed, Request(CallsOf(1, 2)), Results(CallsOf(1, 2))>> /\ kept' = 1
      BY <1>2, <2>2, <3>1, InterruptedIsRepaired
    <3>3. Good(<<Seed, Request(CallsOf(1, 2)), Results(CallsOf(1, 2))>>, 1, late', input', Known')
      BY RepairedIsGood
    <3> QED BY <3>2, <3>3
  <2>3. CASE Good(saved, kept, late, input, Known)
    <3>1. saved \in Seq(TurnRecords) /\ WellFormed(saved)
      BY <2>3 DEF Good
    <3>2. saved # <<>> /\ Sanitized(saved) = saved
      BY <3>1, CleanIsKept DEF WellFormed
    <3>3. messages' = saved /\ kept' = kept
      BY <1>2, <3>2
    <3>4. Good(saved, kept, late', input', Known')
      BY <1>1, <2>3, Undisturbed
    <3> QED BY <3>3, <3>4
  <2> QED BY <2>1, <2>2, <2>3 DEF MemoryInv, Checkpoint
<1> QED BY <1>2, <1>3, <1>4 DEF Current

LEMMA InjectKeeps ==
  ASSUME MemoryInv, InjectNotes
  PROVE  Current' /\ Checkpoint'
<1>1. [MemoryNext]_memoryVars
  BY DEF MemoryNext
<1>2. /\ UNCHANGED <<saved, kept>> /\ pc = "resumed" /\ pc' = "boundary"
      /\ messages' = Noted(messages, input) /\ input' = {}
      /\ UNCHANGED <<late, given, posts, watermark>>
  BY DEF InjectNotes, history
<1>3. Checkpoint'
  BY <1>1, <1>2, Undisturbed
<1>4. Good(messages, kept, late, input, Known) /\ kept \in Nat
  BY <1>2 DEF MemoryInv, Current, Marks
<1>5. input \in SUBSET (Feedback \cup Nat) /\ Known' = Known /\ input \subseteq Known
  BY <1>2 DEF MemoryInv, Marks, Known
<1>6. \A i \in DOMAIN messages : messages[i].notes \cap input = {}
  BY <1>4 DEF Good, Told
<1>7. /\ late \subseteq late' /\ Known \cup input \subseteq Known' /\ input \cap input' = {}
      /\ \A i \in DOMAIN messages : /\ messages[i].notes \cap input \subseteq late'
                                    /\ messages[i].notes \cap input' = {}
  BY <1>2, <1>5, <1>6
<1>8. Good(Noted(messages, input), kept, late', input', Known')
  <2> HIDE DEF Known
  <2> QED BY ONLY <1>4, <1>5, <1>7, NotedKeeps, Zenon
<1> QED BY <1>2, <1>3, <1>8 DEF Current

LEMMA CompactKeeps ==
  ASSUME MemoryInv, Compact
  PROVE  Current' /\ Checkpoint' /\ Len(messages') <= Keep + 2
<1>1. [MemoryNext]_memoryVars
  BY DEF MemoryNext
<1>2. /\ UNCHANGED <<saved, kept>> /\ pc = "boundary" /\ pc' = "recapped"
      /\ messages' = Compacted(messages) /\ SafeSplit(messages) > 1
  BY DEF Compact, durable, Long
<1>3. Checkpoint'
  BY <1>1, <1>2, Undisturbed
<1>4. Good(messages, kept, late, input, Known) /\ kept \in Nat
  BY <1>2 DEF MemoryInv, Current, Marks
<1>5. Good(Compacted(messages), kept, late, input, Known) /\ Len(Compacted(messages)) <= Keep + 2
  BY <1>2, <1>4, CompactedKeeps
<1>6. Good(Compacted(messages), kept, late', input', Known')
  BY <1>1, <1>5, Undisturbed
<1> QED BY <1>2, <1>3, <1>5, <1>6 DEF Current

LEMMA NudgeKeeps ==
  ASSUME MemoryInv, Nudge
  PROVE  Current' /\ Checkpoint' /\ Len(messages') = Len(messages)
<1> DEFINE news == watermark + 1 .. posts
<1>1. [MemoryNext]_memoryVars
  BY DEF MemoryNext
<1>2. /\ UNCHANGED <<saved, kept>> /\ pc = "counting" /\ pc' = "asking"
      /\ messages' = (IF watermark = None THEN messages ELSE Noted(messages, news))
      /\ watermark' = (IF newest > 0 THEN newest ELSE watermark)
      /\ UNCHANGED <<late, given, posts, input>>
  BY DEF Nudge, history
<1>3. Checkpoint'
  BY <1>1, <1>2, Undisturbed
<1>4. Good(messages, kept, late, input, Known) /\ kept \in Nat
  BY <1>2 DEF MemoryInv, Current, Marks
<1>5. Good(messages, kept, late', input', Known')
  BY <1>1, <1>4, Undisturbed
<1>6. ASSUME watermark # None
      PROVE  Good(Noted(messages, news), kept, late', input', Known')
             /\ Len(Noted(messages, news)) = Len(messages)
  <2>1. /\ watermark \in 1 .. posts /\ newest \in 1 .. posts /\ newest >= watermark
        /\ newest + 1 .. posts \subseteq late /\ posts \in Nat
        /\ given \subseteq Feedback /\ input \subseteq given
    BY <1>2, <1>6 DEF MemoryInv, Marks
  <2>2. news \in SUBSET (Feedback \cup Nat) /\ news \subseteq 1 .. posts
    BY <2>1
  <2>3. news \cap given = {} /\ news \cap input' = {}
    BY <1>2, <2>1, <2>2, FeedbackAssumption
  <2>4. late \subseteq late' /\ Known \subseteq Known'
    BY <1>1, KnowsMore
  <2>5. news \subseteq Known'
    <3> SUFFICES ASSUME NEW n \in news PROVE n \in Known'
      OBVIOUS
    <3>1. n \in 1 .. posts' /\ watermark' = newest /\ watermark' # None
      BY <1>2, <2>1, <2>2 DEF None
    <3>2. n \in late' \/ n <= newest
      BY <1>2, <2>1, <2>2
    <3> QED BY <3>1, <3>2 DEF Known
  <2>6. ASSUME NEW i \in DOMAIN messages
        PROVE  messages[i].notes \cap news \subseteq late' /\ messages[i].notes \cap input' = {}
    <3>1. messages[i].notes \subseteq Known /\ messages[i].notes \cap input = {}
      BY <1>4 DEF Good, Told
    <3>2. Known \cap news \subseteq late
      BY <2>1, <2>3 DEF Known
    <3> QED BY <1>2, <3>1, <3>2
  <2> HIDE DEF news, Known
  <2>7. /\ late \subseteq late' /\ Known \cup news \subseteq Known' /\ news \cap input' = {}
        /\ \A i \in DOMAIN messages : /\ messages[i].notes \cap news \subseteq late'
                                      /\ messages[i].notes \cap input' = {}
    BY <2>3, <2>4, <2>5, <2>6
  <2>8. news \in SUBSET (Feedback \cup Nat)
    BY <2>2
  <2>9. Good(Noted(messages, news), kept, late', input', Known')
    BY ONLY <1>4, <2>7, <2>8, NotedKeeps, Zenon
  <2>10. Len(Noted(messages, news)) = Len(messages)
    <3>1. messages \in Seq(TurnRecords) /\ WellFormed(messages)
      BY <1>4 DEF Good
    <3> QED BY <2>8, <3>1, NotedIs
  <2> QED BY <2>9, <2>10
<1>7. Good(messages', kept, late', input', Known') /\ Len(messages') = Len(messages)
  <2> HIDE DEF news
  <2> QED BY <1>2, <1>5, <1>6
<1> QED BY <1>2, <1>3, <1>7 DEF Current

LEMMA StepTaken ==
  ASSUME MemoryInv, NEW k \in 1 .. MaxCalls, Step(k)
  PROVE  Current' /\ Checkpoint'
<1>1. [MemoryNext]_memoryVars
  BY DEF MemoryNext
<1>2. /\ UNCHANGED <<saved, kept>> /\ pc = "asking" /\ pc' = "acted"
      /\ messages' = messages \o <<Request(CallsOf(kept + 1, k)), Results(CallsOf(kept + 1, k))>>
  BY DEF Step, durable
<1>3. Checkpoint'
  BY <1>1, <1>2, Undisturbed
<1>4. Good(messages, kept, late, input, Known) /\ kept \in Nat
  BY <1>2 DEF MemoryInv, Current, Marks
<1>5. Good(messages, kept, late', input', Known')
  BY <1>1, <1>4, Undisturbed
<1>6. k \in Nat \ {0}
  BY LimitsAssumption
<1>7. Good(messages', kept + 1, late', input', Known')
  BY <1>2, <1>4, <1>5, <1>6, StepKeeps
<1> QED BY <1>2, <1>3, <1>7 DEF Current

\* What the task saves is the conversation it holds.
LEMMA SaveKeeps ==
  ASSUME MemoryInv, Save \/ SaveRecap
  PROVE  Current' /\ Checkpoint'
<1>1. [MemoryNext]_memoryVars
  BY DEF MemoryNext
<1>2. /\ saved' = messages /\ messages' = messages
      /\ pc \notin {"queued", "done"} /\ pc' \notin {"queued", "done", "acted"}
      /\ kept' = IF pc = "acted" THEN kept + 1 ELSE kept
  BY DEF Save, SaveRecap
<1>3. Good(messages, kept', late, input, Known)
  BY <1>2 DEF MemoryInv, Current
<1>4. Good(messages, kept', late', input', Known')
  BY <1>1, <1>3, Undisturbed
<1> QED BY <1>2, <1>4 DEF Current, Checkpoint

\* The task goes on with the conversation it has.
LEMMA GoesOn ==
  ASSUME MemoryInv, [MemoryNext]_memoryVars, KeepAll \/ Look \/ Post \/ UNCHANGED memoryVars
  PROVE  Current' /\ Checkpoint'
<1>1. /\ UNCHANGED <<saved, kept, messages>>
      /\ pc' \in {"queued", "done"} <=> pc \in {"queued", "done"}
      /\ pc' = "acted" <=> pc = "acted"
  BY DEF KeepAll, Look, Post, memoryVars, durable
<1>2. Checkpoint'
  BY <1>1, Undisturbed
<1>3. pc \in {"queued", "done"} => messages' = <<>>
  BY <1>1 DEF MemoryInv, Current
<1>4. pc \notin {"queued", "done"} =>
        Good(messages', IF pc' = "acted" THEN kept' + 1 ELSE kept', late', input', Known')
  BY <1>1, Undisturbed DEF MemoryInv, Current
<1> QED BY <1>1, <1>2, <1>3, <1>4 DEF Current

\* It is not running any more.
LEMMA Stops ==
  ASSUME MemoryInv,
         \/ Report \/ GiveUp \/ Interrupt
         \/ \E notes \in SUBSET Feedback : Park(notes) \/ StartOver(notes)
  PROVE  Current' /\ Checkpoint'
<1>1. [MemoryNext]_memoryVars
  BY DEF MemoryNext
<1>2. /\ messages' = <<>> /\ pc' \in {"queued", "done"}
      /\ UNCHANGED <<saved, kept>> \/ (saved' = <<>> /\ kept' = 0)
  BY DEF Report, GiveUp, Interrupt, Park, StartOver, End, Idle, durable
<1> QED BY <1>1, <1>2, Undisturbed DEF Current

LEMMA MemoryKept == MemoryInv /\ [MemoryNext]_memoryVars => MemoryInv'
<1> SUFFICES ASSUME MemoryInv, [MemoryNext]_memoryVars PROVE MemoryInv'
  OBVIOUS
<1>1. Marks'
  BY MarksKept
<1>2. CASE Resume
  BY <1>1, <1>2, ResumeKeeps DEF MemoryInv
<1>3. CASE InjectNotes
  BY <1>1, <1>3, InjectKeeps DEF MemoryInv
<1>4. CASE Compact
  BY <1>1, <1>4, CompactKeeps DEF MemoryInv
<1>5. CASE Nudge
  BY <1>1, <1>5, NudgeKeeps DEF MemoryInv
<1>6. ASSUME NEW k \in 1 .. MaxCalls, Step(k) PROVE MemoryInv'
  BY <1>1, <1>6, StepTaken DEF MemoryInv
<1>7. CASE Save \/ SaveRecap
  BY <1>1, <1>7, SaveKeeps DEF MemoryInv
<1>8. CASE KeepAll \/ Look \/ Post \/ UNCHANGED memoryVars
  BY <1>1, <1>8, GoesOn DEF MemoryInv
<1>9. CASE Report \/ GiveUp \/ Interrupt
           \/ \E notes \in SUBSET Feedback : Park(notes) \/ StartOver(notes)
  BY <1>1, <1>9, Stops DEF MemoryInv
<1> QED BY <1>2, <1>3, <1>4, <1>5, <1>6, <1>7, <1>8, <1>9 DEF MemoryNext

THEOREM MemoryInvariant == MemorySpec => []MemoryInv
BY MemoryBegins, MemoryKept, PTL DEF MemorySpec

\* Whatever the task is told, however often it is recapped, stopped and resumed, the
\* provider is never sent a history it refuses.
THEOREM TheProviderAccepts == MemorySpec => []ProviderAccepts
<1>1. MemoryInv => ProviderAccepts
  BY DEF MemoryInv, Current, Good, ProviderAccepts
<1> QED BY <1>1, MemoryInvariant, PTL

\* What the loop saves is always a valid resume point.
THEOREM CheckpointsAreClean == MemorySpec => []CheckpointIsClean
<1>1. MemoryInv => CheckpointIsClean
  <2> SUFFICES ASSUME MemoryInv, saved \notin Interrupted \cup {<<>>}
               PROVE  WellFormed(saved) /\ Sanitized(saved) = saved
    BY DEF CheckpointIsClean
  <2>1. saved \in Seq(TurnRecords) /\ WellFormed(saved)
    BY DEF MemoryInv, Checkpoint, Good
  <2> QED BY <2>1, CleanIsKept
<1> QED BY <1>1, MemoryInvariant, PTL

\* The conversation accounts for every checkpointed step once and in order.
THEOREM StepsAreRemembered == MemorySpec => []Remembers
<1>1. MemoryInv => Remembers
  <2> SUFFICES ASSUME MemoryInv, pc \in {"boundary", "nudging", "counting", "asking"}
               PROVE  LET recapped == Cardinality(messages[1].steps)
                      IN  /\ messages[1].steps = 1 .. recapped
                          /\ Len(messages) = 2 * (kept - recapped) + 1
                          /\ \A i \in 1 .. kept - recapped :
                               StepsOf(messages[2 * i]) = {recapped + i}
    BY DEF Remembers
  <2>1. Steps(messages, kept) /\ kept \in Nat
    BY DEF MemoryInv, Current, Good, Marks
  <2>2. PICK r \in 0 .. kept :
          /\ messages[1].steps = 1 .. r
          /\ Len(messages) = 2 * (kept - r) + 1
          /\ \A i \in 1 .. kept - r : StepsOf(messages[2 * i]) = {r + i}
    BY <2>1 DEF Steps
  <2>3. Cardinality(1 .. r) = r
    BY <2>1, <2>2, FS_Interval
  <2> QED BY <2>2, <2>3
<1> QED BY <1>1, MemoryInvariant, PTL

\* No note is told twice but the news of a message that came between the two reads.
THEOREM NotesAreToldOnce == MemorySpec => []NotedOnce
<1>1. MemoryInv => NotedOnce
  <2> SUFFICES ASSUME MemoryInv PROVE NotedOnce
    OBVIOUS
  <2>1. CASE pc \in {"queued", "done"}
    <3>1. DOMAIN messages = {}
      BY <2>1 DEF MemoryInv, Current
    <3> QED BY <3>1 DEF NotedOnce
  <2>2. CASE pc \notin {"queued", "done"}
    BY <2>2 DEF MemoryInv, Current, Good, Once, NotedOnce
  <2> QED BY <2>1, <2>2
<1> QED BY <1>1, MemoryInvariant, PTL

-----------------------------------------------------------------------------
(* The size of the conversation.                                             *)

\* The settings leave a recapped conversation, one turn longer than the tail at the
\* worst, below the trigger: 8 and 24 do, and nothing in config.py checks others.
SettingsFit == Keep + 2 <= Trigger

\* The conversation is short from where the round decides to recap it until the step.
Short ==
    /\ pc \in {"queued", "resumed", "boundary", "recapped"} => ~ refused
    /\ pc \in {"recapped", "nudging", "counting", "asking"} /\ ~ refused =>
         Len(messages) <= Trigger

LEMMA ShortBegins == MemoryInit => Short
BY DEF MemoryInit, Short

LEMMA ShortKept ==
  ASSUME SettingsFit
  PROVE  MemoryInv /\ Short /\ [MemoryNext]_memoryVars => Short'
<1> SUFFICES ASSUME MemoryInv, Short, [MemoryNext]_memoryVars PROVE Short'
  OBVIOUS
<1>1. CASE Resume
  <2>1. pc = "queued" /\ pc' = "resumed" /\ refused' = refused
    BY <1>1 DEF Resume
  <2> QED BY <2>1 DEF Short
<1>2. CASE InjectNotes
  BY <1>2 DEF InjectNotes, Short
<1>3. CASE Compact
  <2>1. pc = "boundary" /\ pc' = "recapped" /\ refused' = refused
    BY <1>3 DEF Compact
  <2>2. Len(messages') <= Keep + 2
    BY <1>3, CompactKeeps
  <2>3. messages' \in Seq(TurnRecords)
    BY <1>3, <2>1, CompactKeeps DEF Current, Good
  <2>4. Len(messages') \in Nat /\ Keep \in Nat /\ Trigger \in Nat
    BY <2>3, LenProperties, SettingsAssumption
  <2>5. Len(messages') <= Trigger
    BY <2>2, <2>4 DEF SettingsFit
  <2> QED BY <2>1, <2>5 DEF Short
<1>4. CASE SaveRecap
  BY <1>4 DEF SaveRecap, Short
<1>5. CASE KeepAll
  <2>1. pc = "boundary" /\ pc' = "nudging" /\ messages' = messages /\ (refused' <=> Long)
    BY <1>5 DEF KeepAll
  <2>2. messages \in Seq(TurnRecords) /\ WellFormed(messages)
    BY <2>1 DEF MemoryInv, Current, Good
  <2>3. Len(messages) \in Nat /\ Keep \in Nat /\ Trigger \in Nat
    BY <2>2, LenProperties, SettingsAssumption
  <2>4. ASSUME Len(messages) > Trigger PROVE SafeSplit(messages) > 1
    <3>1. Len(messages) - Keep > 1 /\ Len(messages) - Keep - 1 > 1
      BY <2>3, <2>4 DEF SettingsFit
    <3>2. SafeSplit(messages) \in Nat /\ SafeSplit(messages) >= Len(messages) - Keep - 1
      BY <2>2, <3>1, CutIsSafe
    <3> QED BY <2>3, <3>1, <3>2
  <2>5. Long \/ Len(messages) <= Trigger
    BY <2>3, <2>4 DEF Long
  <2> QED BY <2>1, <2>5 DEF Short
<1>6. CASE Look
  BY <1>6 DEF Look, durable, Short
<1>7. CASE Nudge
  <2>1. pc = "counting" /\ pc' = "asking" /\ refused' = refused
    BY <1>7 DEF Nudge
  <2>2. Len(messages') = Len(messages)
    BY <1>7, NudgeKeeps
  <2> QED BY <2>1, <2>2 DEF Short
<1>8. ASSUME NEW k \in 1 .. MaxCalls, Step(k) PROVE Short'
  <2>1. pc' = "acted"
    BY <1>8 DEF Step
  <2> QED BY <2>1 DEF Short
<1>9. CASE Save
  <2>1. pc' = "boundary" /\ refused' = FALSE
    BY <1>9 DEF Save
  <2> QED BY <2>1 DEF Short
<1>10. CASE \/ Report \/ GiveUp \/ Interrupt
            \/ \E notes \in SUBSET Feedback : Park(notes) \/ StartOver(notes)
  <2>1. pc' \in {"queued", "done"} /\ refused' = FALSE
    BY <1>10 DEF Report, GiveUp, Interrupt, Park, StartOver, End, Idle
  <2> QED BY <2>1 DEF Short
<1>11. CASE Post \/ UNCHANGED memoryVars
  <2>1. UNCHANGED <<pc, refused, messages>>
    BY <1>11 DEF Post, memoryVars
  <2> QED BY <2>1 DEF Short
<1> QED BY <1>1, <1>2, <1>3, <1>4, <1>5, <1>6, <1>7, <1>8, <1>9, <1>10, <1>11 DEF MemoryNext

\* With settings that fit, the provider is sent no more turns than the trigger's number
\* unless the budget refused the summary of this very round.
THEOREM TheConversationFits == SettingsFit => (MemorySpec => []FitsWindow)
<1> SUFFICES ASSUME SettingsFit PROVE MemorySpec => []FitsWindow
  OBVIOUS
<1>1. MemoryInv /\ Short /\ [MemoryNext]_memoryVars => Short'
  BY ShortKept
<1>2. Short => FitsWindow
  BY DEF Short, FitsWindow
<1> QED BY <1>1, <1>2, ShortBegins, MemoryInvariant, PTL DEF MemorySpec
=============================================================================
