----------------------------- MODULE Oversight ------------------------------
(***************************************************************************)
(* Delegated work under review (services/tasks.py, tools/audit.py, the native  *)
(* loop's finish, jobs/scheduled's reaper): a result the CEO delegated is held  *)
(* in "auditing" while a review task of the CEO decides on it; a failure is     *)
(* held the same way while one decides on a retry.                            *)
(*                                                                         *)
(* A review is a task of its own, so it may wait, fail or outlive what it      *)
(* reviewed.  How a job reaches a worker is TaskDispatch's subject; here a      *)
(* review's job is never lost, and a target's is the point.                    *)
(*                                                                         *)
(* A verdict reads and writes its target's row in one step, and holds the row's  *)
(* lock until it commits.  A verdict of another review that reads the row while    *)
(* it is locked is taken to come after the commit.  The cron's read and write are   *)
(* two steps, and its write looks at nothing.                                   *)
(***************************************************************************)
EXTENDS Integers

CONSTANTS
    Tasks,         \* delegated tasks
    Reviews,       \* bound: reviews of one task that may be alive at a time
    NoReview,
    MaxRounds,     \* max_audit_rounds
    MaxRetries,    \* max_task_retries
    LoopRepeats,   \* max_loop_signature_repeats
    MaxCount,      \* bound: reopens of a task, and reviews with one signature, are
                   \* counted so far; the code counts on, and compares with the caps
    MaxJobs,       \* bound: jobs of one task in the queue
    ReviewScenarios      \* the sets of ReviewEvents that may happen together

ReviewEvents ==
    {"early_job",    \* a worker takes a job before its transaction is committed
     "slow_review",  \* a review goes on after its verdict, while the task is redone
     "wrong_tool",   \* a review calls audit_task on a failure
     "review_fails", \* a review raises, or a breaker blocks it
     "review_waits", \* a review parks on the founder
     "no_ceo"}       \* the CEO agent is not active

ASSUME ReviewsAssumption == NoReview \notin Reviews
ASSUME CapsAssumption == {MaxRounds, MaxRetries, LoopRepeats, MaxJobs} \subseteq Nat
ASSUME CountAssumption == MaxCount \in Nat /\ MaxCount > MaxRounds /\ MaxCount > LoopRepeats
ASSUME ReviewEventsAssumption == ReviewScenarios \subseteq SUBSET ReviewEvents

VARIABLES
    status,    \* status[t]: the task row
    jobs,      \* jobs[t]: run_task jobs of t in the queue
    runs,      \* runs[t]: an execution of t is at work
    rounds,    \* rounds[t]: audit_rounds
    retries,   \* retries[t]: retry_count
    marked,    \* marked[t]: input carries failure_review
    result,    \* result[t]: what its last execution came to
    review,    \* review[t][r]: the review task in slot r
    kind,      \* kind[t][r]: what it was created for (audit_target_outcome)
    verdict,   \* verdict[t][r]: its tool call whose transaction is open
    turn,      \* turn[t][r]: the count its loop signature carries
    made,      \* made[t][k][n]: reviews of t with signature <<k, n>>
    current,   \* current[t]: the slot of the review of the last result
    stranded,  \* the tasks the cron has read in auditing, and is about to fail
    befalls    \* what may happen in this behaviour: one of ReviewScenarios

counts == <<rounds, retries>>
reviews == <<review, kind, verdict, turn, made, current>>
rest == <<stranded, befalls>>
reviewVars == <<status, jobs, runs, rounds, retries, marked, result,
          review, kind, verdict, turn, made, current, stranded, befalls>>

Statuses == {"queued", "running", "auditing", "done", "failed"}
Ended == {"done", "failed"}
Kinds == {"audit", "failure"}
Turns == 0 .. (MaxRounds + MaxRetries)

Working(t, r) == review[t][r] \in {"running", "resumed"} /\ verdict[t][r] = "none"
FreeSlot(t, r) == review[t][r] = "free"
Deciding(t) == \E r \in Reviews : verdict[t][r] # "none"
SetStatus(t, s) == status' = [status EXCEPT ![t] = s]
SetReview(t, r, s) == review' = [review EXCEPT ![t][r] = s]
OneMore(n) == IF n < MaxCount THEN n + 1 ELSE n

ReviewInit ==
    /\ status = [t \in Tasks |-> "queued"]
    /\ jobs = [t \in Tasks |-> 1]
    /\ runs = [t \in Tasks |-> FALSE]
    /\ rounds = [t \in Tasks |-> 0]
    /\ retries = [t \in Tasks |-> 0]
    /\ marked = [t \in Tasks |-> FALSE]
    /\ result = [t \in Tasks |-> "none"]
    /\ review = [t \in Tasks |-> [r \in Reviews |-> "free"]]
    /\ kind = [t \in Tasks |-> [r \in Reviews |-> "audit"]]
    /\ verdict = [t \in Tasks |-> [r \in Reviews |-> "none"]]
    /\ turn = [t \in Tasks |-> [r \in Reviews |-> 0]]
    /\ made = [t \in Tasks |-> [k \in Kinds |-> [n \in Turns |-> 0]]]
    /\ current = [t \in Tasks |-> NoReview]
    /\ stranded = {}
    /\ befalls \in ReviewScenarios

-----------------------------------------------------------------------------
(* The delegated task.                                                       *)

\* A worker takes a job: the gate of run_task dispatches a queued task and skips
\* any other.  The verdict of an open transaction is not visible to it.
Take(t) ==
    /\ Deciding(t) => "early_job" \in befalls
    /\ jobs[t] > 0
    /\ jobs' = [jobs EXCEPT ![t] = @ - 1]
    /\ IF status[t] = "queued"
       THEN SetStatus(t, "running") /\ runs' = [runs EXCEPT ![t] = TRUE]
       ELSE UNCHANGED <<status, runs>>
    /\ UNCHANGED <<counts, marked, result, reviews, rest>>

\* The task parks in auditing, and a review of it is created and enqueued; its loop
\* signature names the task and n.
Hold(t, k, n) ==
    /\ "slow_review" \notin befalls => \A r \in Reviews : FreeSlot(t, r)
    /\ SetStatus(t, "auditing")
    /\ \E r \in Reviews :
         /\ FreeSlot(t, r)
         /\ SetReview(t, r, "queued")
         /\ kind' = [kind EXCEPT ![t][r] = k]
         /\ turn' = [turn EXCEPT ![t][r] = n]
         /\ current' = [current EXCEPT ![t] = r]
    /\ made' = [made EXCEPT ![t][k][n] = OneMore(@)]
    /\ UNCHANGED verdict

\* The execution ends.
Ends(t) == runs[t] /\ runs' = [runs EXCEPT ![t] = FALSE]

\* The task finishes: its result is audited while it has rounds left.  Nobody looks
\* whether its row still says running.
Submit(t) ==
    /\ Ends(t)
    /\ result' = [result EXCEPT ![t] = "success"]
    /\ \/ rounds[t] < MaxRounds /\ Hold(t, "audit", rounds[t])
       \/ /\ rounds[t] >= MaxRounds \/ "no_ceo" \in befalls
          /\ SetStatus(t, "done")
          /\ UNCHANGED reviews
    /\ UNCHANGED <<jobs, counts, marked, rest>>

\* The task raises: its failure is reviewed while it has retries left, if its row still
\* says running.
Fail(t) ==
    /\ Ends(t)
    /\ \/ /\ status[t] = "running"
          /\ retries[t] < MaxRetries
          /\ result' = [result EXCEPT ![t] = "failure"]
          /\ Hold(t, "failure", retries[t])
          /\ marked' = [marked EXCEPT ![t] = TRUE]
       \/ /\ status[t] = "running"
          /\ retries[t] >= MaxRetries \/ "no_ceo" \in befalls
          /\ result' = [result EXCEPT ![t] = "failure"]
          /\ SetStatus(t, "failed")
          /\ UNCHANGED <<marked, reviews>>
       \/ /\ status[t] # "running"
          /\ UNCHANGED <<status, marked, result, reviews>>
    /\ UNCHANGED <<jobs, counts, rest>>

-----------------------------------------------------------------------------
(* A review.                                                                *)

\* Mutated: no breaker counts the reviews.
StartReview_Unbroken(t, r) ==
    /\ review[t][r] = "queued"
    /\ SetReview(t, r, "running")
    /\ UNCHANGED <<status, jobs, runs, counts, marked, result, kind, verdict, turn, made,
                   current, rest>>

\* run_task of the review: the loop breaker blocks it when its signature has come
\* too often, and its target stays as it is.
StartReview(t, r) ==
    /\ review[t][r] = "queued"
    /\ SetReview(t, r, IF made[t][kind[t][r]][turn[t][r]] > LoopRepeats
                       THEN "free" ELSE "running")
    /\ UNCHANGED <<status, jobs, runs, counts, marked, result, kind, verdict, turn, made,
                   current, rest>>

\* The goal of a review names one tool; both tools are open to it.
Calls(t, r, k) == kind[t][r] = k \/ "wrong_tool" \in befalls

\* audit_task acts on what is in auditing, whatever it is there for.
Auditable(t, r) ==
    /\ Working(t, r) /\ Calls(t, r, "audit")
    /\ status[t] = "auditing" /\ ~ Deciding(t)

\* retry_task acts on what is in auditing after a failure.
Retriable(t, r) ==
    /\ Working(t, r) /\ Calls(t, r, "failure")
    /\ status[t] = "auditing" /\ marked[t] /\ ~ Deciding(t)

\* audit_task "approve".
Approve(t, r) ==
    /\ Auditable(t, r)
    /\ SetStatus(t, "done")
    /\ UNCHANGED <<jobs, runs, counts, marked, result, reviews, rest>>

\* A verdict that puts the task back is flushed, and its job enqueued ...
PutBack(t, r, v) ==
    /\ jobs[t] < MaxJobs
    /\ verdict' = [verdict EXCEPT ![t][r] = v]
    /\ jobs' = [jobs EXCEPT ![t] = @ + 1]
    /\ UNCHANGED <<status, runs, counts, marked, result, review, kind, turn, made, current, rest>>

\* audit_task "reopen".
Reopen(t, r) == Auditable(t, r) /\ PutBack(t, r, "reopen")

\* retry_task "retry".
Retry(t, r) ==
    /\ Retriable(t, r)
    /\ retries[t] < MaxRetries
    /\ PutBack(t, r, "retry")

\* retry_task "abandon", or a retry past the cap.
Abandon(t, r) ==
    /\ Retriable(t, r)
    /\ SetStatus(t, "failed")
    /\ marked' = [marked EXCEPT ![t] = FALSE]
    /\ UNCHANGED <<jobs, runs, counts, result, reviews, rest>>

\* ... before the tool call's transaction is committed.
CommitVerdict(t, r) ==
    /\ verdict[t][r] # "none"
    /\ SetStatus(t, "queued")
    /\ IF verdict[t][r] = "reopen"
       THEN /\ rounds' = [rounds EXCEPT ![t] = OneMore(@)]
            /\ UNCHANGED <<retries, marked>>
       ELSE /\ retries' = [retries EXCEPT ![t] = @ + 1]
            /\ marked' = [marked EXCEPT ![t] = FALSE]
            /\ UNCHANGED rounds
    /\ verdict' = [verdict EXCEPT ![t][r] = "none"]
    /\ UNCHANGED <<jobs, runs, result, review, kind, turn, made, current, rest>>

\* The review finishes.  A target still in auditing is settled: a result is
\* accepted, a failure stands.
FinishReview(t, r) ==
    /\ Working(t, r)
    /\ SetReview(t, r, "free")
    /\ IF status[t] = "auditing"
       THEN SetStatus(t, IF kind[t][r] = "failure" THEN "failed" ELSE "done")
       ELSE UNCHANGED status
    /\ UNCHANGED <<jobs, runs, counts, marked, result, kind, verdict, turn, made, current, rest>>

\* Mutated: a review that is blocked or raises settles its target as one that
\* finishes does.
FailReview_Settles(t, r) ==
    /\ "review_fails" \in befalls
    /\ Working(t, r) \/ review[t][r] = "queued"
    /\ SetReview(t, r, "free")
    /\ IF status[t] = "auditing"
       THEN SetStatus(t, IF kind[t][r] = "failure" THEN "failed" ELSE "done")
       ELSE UNCHANGED status
    /\ UNCHANGED <<jobs, runs, counts, marked, result, kind, verdict, turn, made, current, rest>>

\* The review raises, or another breaker or the pause of its agent blocks it: its
\* target stays as it is.
FailReview(t, r) ==
    /\ "review_fails" \in befalls
    /\ Working(t, r) \/ review[t][r] = "queued"
    /\ SetReview(t, r, "free")
    /\ UNCHANGED <<status, jobs, runs, counts, marked, result, kind, verdict, turn, made,
                   current, rest>>

\* The review parks on the founder (bound: once), who answers in his own time.
ParkReview(t, r) ==
    /\ "review_waits" \in befalls
    /\ review[t][r] = "running" /\ Working(t, r)
    /\ SetReview(t, r, "waiting")
    /\ UNCHANGED <<status, jobs, runs, counts, marked, result, kind, verdict, turn, made,
                   current, rest>>

ResumeReview(t, r) ==
    /\ review[t][r] = "waiting"
    /\ SetReview(t, r, "resumed")
    /\ UNCHANGED <<status, jobs, runs, counts, marked, result, kind, verdict, turn, made,
                   current, rest>>

-----------------------------------------------------------------------------

\* The cron lists the tasks that have been in auditing for the grace period, whether or
\* not a review of them is left ...
Strand(t) ==
    /\ status[t] = "auditing"
    /\ stranded' = stranded \cup {t}
    /\ UNCHANGED <<status, jobs, runs, counts, marked, result, reviews, befalls>>

\* ... and fails them, whatever has become of them, when their rows are not locked.
Reap(t) ==
    /\ t \in stranded /\ ~ Deciding(t)
    /\ SetStatus(t, "failed")
    /\ stranded' = stranded \ {t}
    /\ UNCHANGED <<jobs, runs, counts, marked, result, reviews, befalls>>

RunReview(t, r) ==
    \/ StartReview(t, r)
    \/ Approve(t, r) \/ Reopen(t, r)
    \/ Retry(t, r) \/ Abandon(t, r)
    \/ CommitVerdict(t, r)
    \/ FinishReview(t, r) \/ FailReview(t, r) \/ ParkReview(t, r)

ReviewNext ==
    \E t \in Tasks :
      \/ Take(t) \/ Submit(t) \/ Fail(t) \/ Strand(t) \/ Reap(t)
      \/ \E r \in Reviews : RunReview(t, r) \/ ResumeReview(t, r)

ReviewSpec == ReviewInit /\ [][ReviewNext]_reviewVars

\* The worker takes jobs and runs what it took, the step cap ends every review that
\* gets to work however it spends its steps, and the cron runs.  Nothing forces the
\* founder.
FairReviewSpec ==
    /\ ReviewSpec
    /\ \A t \in Tasks :
         /\ WF_reviewVars(Take(t)) /\ WF_reviewVars(Submit(t) \/ Fail(t))
         /\ WF_reviewVars(Strand(t)) /\ WF_reviewVars(Reap(t))
         /\ \A r \in Reviews :
              WF_reviewVars(RunReview(t, r)) /\ SF_reviewVars(FinishReview(t, r))

-----------------------------------------------------------------------------
(* Properties.                                                              *)

\* The variables stay within their types.
ReviewTypeOK ==
    /\ status \in [Tasks -> Statuses]
    /\ jobs \in [Tasks -> Nat]
    /\ runs \in [Tasks -> BOOLEAN]
    /\ rounds \in [Tasks -> Nat]
    /\ retries \in [Tasks -> Nat]
    /\ marked \in [Tasks -> BOOLEAN]
    /\ result \in [Tasks -> {"none", "success", "failure"}]
    /\ review \in [Tasks -> [Reviews -> {"free", "queued", "running", "waiting", "resumed"}]]
    /\ kind \in [Tasks -> [Reviews -> Kinds]]
    /\ verdict \in [Tasks -> [Reviews -> {"none", "reopen", "retry"}]]
    /\ turn \in [Tasks -> [Reviews -> Turns]]
    /\ made \in [Tasks -> [Kinds -> [Turns -> Nat]]]
    /\ current \in [Tasks -> Reviews \cup {NoReview}]
    /\ stranded \subseteq Tasks
    /\ befalls \in ReviewScenarios

\* A review ends with its verdict or before it, and uses the tool its goal names.
ToTheGoal == befalls \cap {"slow_review", "wrong_tool"} = {}

\* What is accepted is a success, and the review created for it is at work
\* (begin_auditing, audit_task).
AcceptedByItsReview ==
    [][ToTheGoal =>
         \A t \in Tasks :
           status[t] = "auditing" /\ status'[t] = "done" =>
             result[t] = "success" /\ Working(t, current[t])]_reviewVars

\* A result is redone no more than max_audit_rounds times and a failure retried no more
\* than max_task_retries, though the commit of a verdict counts without looking at a cap.
RedosAreCapped ==
    ToTheGoal => \A t \in Tasks : rounds[t] <= MaxRounds /\ retries[t] <= MaxRetries

\* Every delegated task ends: audits and retries are bounded, and one left in
\* auditing by a review that failed is settled all the same.
DelegatedEnds ==
    "early_job" \notin befalls => \A t \in Tasks : <>(status[t] \in Ended)
=============================================================================
