---------------------------- MODULE TaskDispatch ----------------------------
(***************************************************************************)
(* How a task is run: the ephemeral job queue, the worker that executes jobs  *)
(* (runtime/orchestrator.run_task around the native loop), the two ways a task*)
(* parks (a founder decision, a chat reply), the handlers that resume it      *)
(* (services/decisions, services/chat, jobs/scheduled) and the recovery at     *)
(* worker startup (jobs/recovery).                                           *)
(*                                                                         *)
(* A job only names its task.  It is enqueued after the commit that made the  *)
(* task queued, by the process that committed, so there is a window between    *)
(* the two.  A transaction of the executing task is one action where it writes what *)
(* it writes whatever it has read, and two where it reads first.  The handlers that *)
(* resume or reap a parked task read their question, then the task, and write both   *)
(* at their commit without looking again; between those steps others come.          *)
(***************************************************************************)
EXTENDS Integers, FiniteSets

CONSTANTS
    Tasks,
    Workers,       \* the worker's concurrent job slots (worker_max_jobs)
    NoTask,        \* what a free slot executes
    Decisions,     \* decision requests a task may raise in its life
    Conversing,    \* the tasks whose agents send messages that wait for a reply
    Handlers,      \* transactions that resume or reap tasks at the same time
    MaxJobs,       \* bound: jobs of one task in the queue, and waiting to be sent
    MaxRepeats,    \* bound: Repeating events in one behaviour
    Scenarios      \* the sets of Events that may happen together

Events ==
    {"worker_crash",  \* the worker dies, is started again, and its jobs redelivered
     "api_crash",     \* the API process dies between a commit and its enqueue
     "enqueue_fails", \* Redis refuses a job, or the enqueue is cancelled
     "stale_click",   \* a decision that is resolved already is resolved again
     "overlap",       \* two transactions that resume or reap one task are open at once
     "post_fails",    \* an agent's post is rolled back after it has woken the waiting task
     "tool_spawn",    \* a task is created from inside a tool's transaction
     "quiet_ask"}     \* a tool parks on a decision and leaves its task running

\* A job is delivered again, or a task resumed again, while it moves on.
Repeating == {"worker_crash", "stale_click", "overlap", "post_fails"}

ASSUME TasksAssumption == NoTask \notin Tasks
ASSUME WorkersAssumption == IsFiniteSet(Workers)
ASSUME ConversingAssumption == Conversing \subseteq Tasks
ASSUME BoundsAssumption == {MaxJobs, MaxRepeats} \subseteq Nat
ASSUME EventsAssumption == Scenarios \subseteq SUBSET Events

VARIABLES
    status,    \* status[t]: the task row; "absent" before it is created,
               \* "inserted" while the transaction creating it is open
    queue,     \* queue[t]: run_task jobs of t in Redis
    owed,      \* owed[p][t]: resumes of t that process p has committed and not enqueued
    lost,      \* history: the tasks a job of which came to nothing, since they were
               \* last taken up or a worker started
    job,       \* job[w]: the task slot w executes
    at,        \* at[w]: where its execution stands
    decision,  \* decision[t][d]: a DecisionRequest of t
    wait,      \* wait[t]: the task's last ChatWait
    tx,        \* tx[h]: the transaction of a handler
    criticised,\* criticised[t]: the critic has had its round (critic_max_rounds = 1)
    up,        \* the worker process is running
    repeats,   \* the Repeating events so far
    happens    \* what may happen in this behaviour: one of Scenarios

jobs == <<queue, owed, lost>>
slots == <<job, at>>
asks == <<decision, wait>>
life == <<up, repeats, happens>>
vars == <<status, queue, owed, lost, job, at, decision, wait, tx, criticised, up,
          repeats, happens>>

Statuses ==
    {"absent", "inserted", "queued", "running", "waiting_approval",
     "done", "failed", "blocked", "needs_continuation"}
Final == {"done", "failed", "blocked", "needs_continuation"}
Ready == {"queued", "waiting_approval"}     \* what the gate of run_task accepts
Parked == {"waiting_approval", "running"}   \* what a resume handler accepts
Processes == {"api", "worker"}

Stages ==
    {"free",
     "started",    \* dispatched: the task is running, the backend has not looked
                   \* for a pending reply-wait yet
     "reparking",  \* it has seen one, and is about to park the task again
     "loop",       \* in the think-act loop
     "requeueing", \* the critic's re-queue is committed, its enqueue is due
     "failing"}    \* run_task's handler has read the task running, and will fail it

DecisionStates == {"none", "pending", "approved", "rejected", "used"}
WaitStates == {"none", "pending", "satisfied"}

\* Transactions: a founder resolves a decision or posts, an agent posts, a cron gives up
\* on a wait or on a task.
Kinds == {"decide", "post", "tell", "expire", "reap"}
By(does) == IF does \in {"decide", "post"} THEN "api" ELSE "worker"

\* Where it stands, its task, the decisions it will resolve, and whether the wait row
\* it will write is still the task's last.
NoTx == [at |-> "idle", does |-> "decide", task |-> NoTask, about |-> {}, row |-> FALSE]
TxStages ==
    {"idle",
     "begun",      \* it has read its question (to reap: the list of parked tasks)
     "undecided",  \* to reap: it has found no decision either
     "found",      \* it has read the task parked, and will write its status
     "passed",     \* it has read the task elsewhere, and will leave it alone
     "sent"}       \* an agent's post has enqueued the task, before its commit

Idle(w) == at[w] = "free" /\ up
In(w, stage) == at[w] = stage /\ up
Enter(w, t, stage) ==
    /\ job' = [job EXCEPT ![w] = t]
    /\ at' = [at EXCEPT ![w] = stage]
Leave(w) == Enter(w, NoTask, "free")
Stage(w, stage) == Enter(w, job[w], stage)
SetStatus(t, s) == status' = [status EXCEPT ![t] = s]
Holds(t, state) == \E d \in Decisions : decision[t][d] = state

\* A post that has enqueued t holds its row lock until it commits.
Told(t) == \E h \in Handlers : tx[h].task = t /\ tx[h].at = "sent"

\* These Repeating events happen in one step, or none.
Repeat(events) ==
    IF events = {}
    THEN UNCHANGED repeats
    ELSE /\ events \subseteq happens
         /\ repeats < MaxRepeats
         /\ repeats' = repeats + 1

Init ==
    /\ status = [t \in Tasks |-> "absent"]
    /\ queue = [t \in Tasks |-> 0]
    /\ owed = [p \in Processes |-> [t \in Tasks |-> 0]]
    /\ lost = {}
    /\ job = [w \in Workers |-> NoTask]
    /\ at = [w \in Workers |-> "free"]
    /\ decision = [t \in Tasks |-> [d \in Decisions |-> "none"]]
    /\ wait = [t \in Tasks |-> "none"]
    /\ tx = [h \in Handlers |-> NoTx]
    /\ criticised = [t \in Tasks |-> FALSE]
    /\ up = TRUE
    /\ repeats = 0
    /\ happens \in Scenarios

-----------------------------------------------------------------------------
(* Creation and the queue.                                                   *)

\* The API creates a task, commits, and then enqueues it (Send).
Create(t) ==
    /\ status[t] = "absent"
    /\ SetStatus(t, "queued")
    /\ owed' = [owed EXCEPT !["api"][t] = @ + 1]
    /\ UNCHANGED <<queue, lost, slots, asks, tx, criticised, life>>

\* _spawn_child, inside a tool's transaction: the row is flushed, not committed,
\* and its job enqueued.
Spawn(t) ==
    /\ "tool_spawn" \in happens
    /\ up
    /\ status[t] = "absent"
    /\ SetStatus(t, "inserted")
    /\ queue' = [queue EXCEPT ![t] = @ + 1]
    /\ UNCHANGED <<owed, lost, slots, asks, tx, criticised, life>>

\* The tool call's transaction is committed at the end of _handle_call.
CommitSpawn(t) ==
    /\ status[t] = "inserted"
    /\ SetStatus(t, "queued")
    /\ UNCHANGED <<jobs, slots, asks, tx, criticised, life>>

\* A process enqueues a task it has committed a resume (or a creation) of.
Send(p, t) ==
    /\ p = "worker" => up
    /\ owed[p][t] > 0
    /\ queue[t] < MaxJobs
    /\ queue' = [queue EXCEPT ![t] = @ + 1]
    /\ owed' = [owed EXCEPT ![p][t] = @ - 1]
    /\ UNCHANGED <<status, lost, slots, asks, tx, criticised, life>>

\* The enqueue fails, or its process is cancelled there: nobody sends the job again.
SendFails(p, t) ==
    /\ "enqueue_fails" \in happens
    /\ p = "worker" => up
    /\ owed[p][t] > 0
    /\ owed' = [owed EXCEPT ![p][t] = @ - 1]
    /\ lost' = lost \cup {t}
    /\ UNCHANGED <<status, queue, slots, asks, tx, criticised, life>>

-----------------------------------------------------------------------------
(* run_task: the gate.                                                      *)

Take(w, t) ==
    /\ Idle(w)
    /\ queue[t] > 0
    /\ queue' = [queue EXCEPT ![t] = @ - 1]
    /\ UNCHANGED <<owed, asks, tx, criticised, life>>

\* The task is missing, or its status is not one to run.  A transaction that enqueued
\* the task and has not committed yet will queue it in vain.
Skip(w, t) ==
    /\ Take(w, t)
    /\ status[t] \notin Ready
    /\ lost' = IF status[t] = "inserted" \/ Told(t) THEN lost \cup {t} ELSE lost
    /\ UNCHANGED <<status, slots>>

\* The status is read again under the row lock.
Claim(w, t) ==
    /\ Take(w, t)
    /\ status[t] \in Ready
    /\ ~ Told(t)
    /\ lost' = lost \ {t}

\* A circuit breaker is tripped, or the agent is paused.
Block(w, t) ==
    /\ Claim(w, t)
    /\ SetStatus(t, "blocked")
    /\ UNCHANGED slots

\* The task is flipped to running, committed, and handed to the native backend.
Dispatch(w, t) ==
    /\ Claim(w, t)
    /\ SetStatus(t, "running")
    /\ Enter(w, t, "started")

-----------------------------------------------------------------------------
(* The native loop.                                                         *)

\* _still_waiting_for_reply looks for a pending wait ...
LookForWait(w) ==
    /\ In(w, "started")
    /\ Stage(w, IF wait[job[w]] = "pending" THEN "reparking" ELSE "loop")
    /\ UNCHANGED <<status, jobs, asks, tx, criticised, life>>

\* ... and parks the task again when it saw one.
Repark(w) ==
    /\ In(w, "reparking")
    /\ SetStatus(job[w], "waiting_approval")
    /\ Leave(w)
    /\ UNCHANGED <<jobs, asks, tx, criticised, life>>

\* A gated action, or one over budget, for which there is a verdict the task has
\* not used: the grant is consumed (an approved action goes through, a declined
\* one is reported to the agent) and the loop goes on.
UseVerdict(w) ==
    /\ In(w, "loop")
    /\ \E d \in Decisions :
         /\ decision[job[w]][d] \in {"approved", "rejected"}
         /\ decision' = [decision EXCEPT ![job[w]][d] = "used"]
    /\ UNCHANGED <<status, jobs, slots, wait, tx, criticised, life>>

\* Mutated: the decision is raised and the task parked, and the loop goes on.
Ask_LoopGoesOn(w) ==
    /\ In(w, "loop")
    /\ ~ Holds(job[w], "approved")
    /\ \E d \in Decisions :
         /\ decision[job[w]][d] = "none"
         /\ decision' = [decision EXCEPT ![job[w]][d] = "pending"]
    /\ SetStatus(job[w], "waiting_approval")
    /\ UNCHANGED <<jobs, slots, wait, tx, criticised, life>>

\* One with no verdict: a decision is raised and the task parked on it, in the
\* same transaction.
Ask(w) ==
    /\ In(w, "loop")
    /\ ~ Holds(job[w], "approved")
    /\ \E d \in Decisions :
         /\ decision[job[w]][d] = "none"
         /\ decision' = [decision EXCEPT ![job[w]][d] = "pending"]
    /\ SetStatus(job[w], "waiting_approval")
    /\ Leave(w)
    /\ UNCHANGED <<jobs, wait, tx, criticised, life>>

\* connect_domain asks the founder for the nameservers and ends the loop as one that
\* parks does, but does not touch the task's status.
AskUnparked(w) ==
    /\ "quiet_ask" \in happens
    /\ In(w, "loop")
    /\ ~ Holds(job[w], "approved")
    /\ \E d \in Decisions :
         /\ decision[job[w]][d] = "none"
         /\ decision' = [decision EXCEPT ![job[w]][d] = "pending"]
    /\ Leave(w)
    /\ UNCHANGED <<status, jobs, wait, tx, criticised, life>>

\* Mutated: the task is parked without recording what it waits for.
Converse_NoWait(w) ==
    /\ In(w, "loop")
    /\ job[w] \in Conversing
    /\ SetStatus(job[w], "waiting_approval")
    /\ Leave(w)
    /\ UNCHANGED <<jobs, asks, tx, criticised, life>>

\* A message that waits for its reply.  One that has come is delivered and the loop goes
\* on; with one still outstanding the task will be parked as it was; else it is parked
\* on a new row, which no handler has read.
Converse(w) ==
    LET t == job[w]
    IN /\ In(w, "loop")
       /\ t \in Conversing
       /\ \/ /\ wait[t] = "satisfied"
             /\ wait' = [wait EXCEPT ![t] = "none"]
             /\ UNCHANGED <<status, slots, tx>>
          \/ /\ wait[t] = "pending"
             /\ Stage(w, "reparking")
             /\ UNCHANGED <<status, wait, tx>>
          \/ /\ wait[t] = "none"
             /\ wait' = [wait EXCEPT ![t] = "pending"]
             /\ tx' = [h \in Handlers |->
                         IF tx[h].task = t THEN [tx[h] EXCEPT !.row = FALSE] ELSE tx[h]]
             /\ SetStatus(t, "waiting_approval")
             /\ Leave(w)
       /\ UNCHANGED <<jobs, decision, criticised, life>>

\* The result is accepted, or the step cap ends the loop: _finish sets the
\* status whatever it is.
Finish(w) ==
    /\ In(w, "loop")
    /\ \E s \in {"done", "needs_continuation"} : SetStatus(job[w], s)
    /\ Leave(w)
    /\ UNCHANGED <<jobs, asks, tx, criticised, life>>

\* The critic wants a rewrite: the task is queued again ...
Criticise(w) ==
    /\ In(w, "loop")
    /\ ~ criticised[job[w]]
    /\ criticised' = [criticised EXCEPT ![job[w]] = TRUE]
    /\ SetStatus(job[w], "queued")
    /\ Stage(w, "requeueing")
    /\ UNCHANGED <<jobs, asks, tx, life>>

\* Mutated: the critic's re-queue forgets to enqueue the task.
Requeue_NotSent(w) ==
    /\ In(w, "requeueing")
    /\ Leave(w)
    /\ UNCHANGED <<status, jobs, asks, tx, criticised, life>>

\* ... and enqueued after the commit.
Requeue(w) ==
    /\ In(w, "requeueing")
    /\ queue[job[w]] < MaxJobs
    /\ queue' = [queue EXCEPT ![job[w]] = @ + 1]
    /\ Leave(w)
    /\ UNCHANGED <<status, owed, lost, asks, tx, criticised, life>>

\* The backend raises, or arq cancels the job at its timeout, be it at the enqueue of
\* the critic's re-queue: run_task's handler will fail a task that it reads running.
Raise(w) ==
    /\ at[w] \in {"started", "reparking", "loop", "requeueing"} /\ up
    /\ at[w] = "requeueing" => "enqueue_fails" \in happens
    /\ lost' = IF at[w] = "requeueing" THEN lost \cup {job[w]} ELSE lost
    /\ IF status[job[w]] = "running" THEN Stage(w, "failing") ELSE Leave(w)
    /\ UNCHANGED <<status, queue, owed, asks, tx, criticised, life>>

Fail(w) ==
    /\ In(w, "failing")
    /\ SetStatus(job[w], "failed")
    /\ Leave(w)
    /\ UNCHANGED <<jobs, asks, tx, criticised, life>>

-----------------------------------------------------------------------------
(* The handlers that resume or reap a parked task.                           *)

Begin(h, does, t, about, row) ==
    /\ tx[h].at = "idle"
    /\ By(does) = "worker" => up
    /\ Repeat(  (IF \E g \in Handlers : tx[g].task = t THEN {"overlap"} ELSE {})
           \cup (IF \E d \in about : decision[t][d] # "pending"
                 THEN {"stale_click"} ELSE {}))
    /\ tx' = [tx EXCEPT ![h] = [at |-> "begun", does |-> does, task |-> t,
                                about |-> about, row |-> row]]
    /\ UNCHANGED <<status, jobs, slots, asks, criticised, up, happens>>

\* approve and reject, which do not look whether the decision is pending (the page
\* offers those that are), and try_resolve_from_reply, which looks for one that is and
\* then has the founder's reply classified.
ReadDecision(h, t, d) ==
    /\ decision[t][d] # "none"
    /\ Begin(h, "decide", t, {d}, FALSE)

\* post_message, of the founder or of an agent, and the cron that times waits out look
\* for pending waits.
ReadWait(h, t, does) ==
    /\ does \in {"post", "tell", "expire"}
    /\ wait[t] = "pending"
    /\ Begin(h, does, t, {}, TRUE)

\* The other cron lists the parked tasks.
ReadParked(h, t) ==
    /\ status[t] = "waiting_approval"
    /\ Begin(h, "reap", t, {}, FALSE)

Goes(h, stage) == tx' = [tx EXCEPT ![h].at = stage]
End(h) == tx' = [tx EXCEPT ![h] = NoTx]

\* Then the task is read.
ReadTask(h) ==
    /\ tx[h].at = "begun"
    /\ tx[h].does # "reap"
    /\ Goes(h, IF status[tx[h].task] \in Parked THEN "found" ELSE "passed")
    /\ UNCHANGED <<status, jobs, slots, asks, criticised, life>>

\* The reaper leaves a task alone that ever raised a decision ...
ReadDecisions(h) ==
    /\ tx[h].at = "begun"
    /\ tx[h].does = "reap"
    /\ IF \A d \in Decisions : decision[tx[h].task][d] = "none"
       THEN Goes(h, "undecided") ELSE End(h)
    /\ UNCHANGED <<status, jobs, slots, asks, criticised, life>>

\* Mutated: a wait that was answered counts as something to wait for.
ReadWaits_Any(h) ==
    /\ tx[h].at = "undecided"
    /\ IF wait[tx[h].task] = "none" THEN Goes(h, "found") ELSE End(h)
    /\ UNCHANGED <<status, jobs, slots, asks, criticised, life>>

\* ... or one that waits for a reply.
ReadWaits(h) ==
    /\ tx[h].at = "undecided"
    /\ IF wait[tx[h].task] = "pending" THEN End(h) ELSE Goes(h, "found")
    /\ UNCHANGED <<status, jobs, slots, asks, criticised, life>>

\* An agent's post enqueues the tasks it wakes inside its transaction.
Tell(h) ==
    LET t == tx[h].task
    IN /\ tx[h].at = "found"
       /\ tx[h].does = "tell"
       /\ queue[t] < MaxJobs
       /\ queue' = [queue EXCEPT ![t] = @ + 1]
       /\ Goes(h, "sent")
       /\ UNCHANGED <<status, owed, lost, slots, asks, criticised, life>>

\* The writes, whatever has become of the rows: the decision takes the verdict, the
\* wait is satisfied or expired, the task is queued and its job will be sent, or it is
\* failed.  (The raise of the limit an approval may carry is in CostMeter.)
Commit(h) ==
    LET x == tx[h]
        t == x.task
    IN /\ \/ /\ x.at = "passed"
             /\ UNCHANGED <<status, owed>>
          \/ /\ x.at = "found"
             /\ x.does = "reap"
             /\ SetStatus(t, "failed")
             /\ UNCHANGED owed
          \/ /\ x.at = "sent"
             /\ SetStatus(t, "queued")
             /\ UNCHANGED owed
          \/ /\ x.at = "found"
             /\ x.does \in {"decide", "post", "expire"}
             /\ owed[By(x.does)][t] < MaxJobs
             /\ SetStatus(t, "queued")
             /\ owed' = [owed EXCEPT ![By(x.does)][t] = @ + 1]
       /\ \E verdict \in {"approved", "rejected"} :
            decision' = [decision EXCEPT ![t] = [d \in Decisions |->
                           IF d \in x.about /\ @[d] # "used" THEN verdict ELSE @[d]]]
       /\ wait' = [wait EXCEPT ![t] =
                     IF ~ x.row THEN @
                     ELSE IF x.does = "expire" THEN "none" ELSE "satisfied"]
       /\ End(h)
       /\ UNCHANGED <<queue, lost, slots, criticised, life>>

\* The reply was unclear, or the request or the tool call fails and is rolled back.
Abandon(h) ==
    /\ tx[h].at # "idle"
    /\ tx[h].does \in {"decide", "post", "tell"}
    /\ Repeat(IF tx[h].at = "sent" THEN {"post_fails"} ELSE {})
    /\ End(h)
    /\ UNCHANGED <<status, jobs, slots, asks, criticised, up, happens>>

-----------------------------------------------------------------------------
(* Crashes, and the recovery at startup.                                     *)

\* The transactions a process had open are rolled back with it.
TxOf(p) == {h \in Handlers : tx[h].at # "idle" /\ By(tx[h].does) = p}
Dies(p) ==
    /\ owed' = [owed EXCEPT ![p] = [t \in Tasks |-> 0]]
    /\ tx' = [h \in Handlers |-> IF h \in TxOf(p) THEN NoTx ELSE tx[h]]

\* The API dies with what it had committed and not enqueued.
CrashApi ==
    /\ "api_crash" \in happens
    /\ Dies("api")
    /\ lost' = lost \cup {t \in Tasks : owed["api"][t] > 0}
    /\ UNCHANGED <<status, queue, slots, asks, criticised, life>>

Executing(t) == {w \in Workers : job[w] = t}

\* The worker dies.  The queue redelivers a job whose execution did not end.
CrashWorker ==
    /\ Repeat({"worker_crash"})
    /\ up
    /\ Dies("worker")
    /\ up' = FALSE
    /\ queue' = [t \in Tasks |-> queue[t] + Cardinality(Executing(t))]
    /\ job' = [w \in Workers |-> NoTask]
    /\ at' = [w \in Workers |-> "free"]
    /\ status' = [t \in Tasks |-> IF status[t] = "inserted" THEN "absent" ELSE status[t]]
    /\ UNCHANGED <<lost, asks, criticised, happens>>

\* Mutated: recovery enqueues what is queued and leaves the orphans running.
StartWorker_OrphansLeft ==
    /\ ~ up
    /\ up' = TRUE
    /\ lost' = {}
    /\ queue' = [t \in Tasks |-> IF status[t] = "queued" THEN queue[t] + 1 ELSE queue[t]]
    /\ UNCHANGED <<status, owed, slots, asks, tx, criticised, repeats, happens>>

\* Mutated: recovery enqueues the orphans and not what was queued already.
StartWorker_OrphansOnly ==
    /\ ~ up
    /\ up' = TRUE
    /\ lost' = {}
    /\ status' = [t \in Tasks |-> IF status[t] = "running" THEN "queued" ELSE status[t]]
    /\ queue' = [t \in Tasks |->
                   IF status[t] = "running" THEN queue[t] + 1 ELSE queue[t]]
    /\ UNCHANGED <<owed, slots, asks, tx, criticised, repeats, happens>>

\* recover_pending_work, before the worker takes jobs: what was running is
\* queued again, and everything queued is enqueued, whatever the queue holds.
StartWorker ==
    /\ ~ up
    /\ up' = TRUE
    /\ lost' = {}
    /\ status' = [t \in Tasks |-> IF status[t] = "running" THEN "queued" ELSE status[t]]
    /\ queue' = [t \in Tasks |->
                   IF status'[t] = "queued" THEN queue[t] + 1 ELSE queue[t]]
    /\ UNCHANGED <<owed, slots, asks, tx, criticised, repeats, happens>>

-----------------------------------------------------------------------------

Execute(w) ==
    \/ LookForWait(w) \/ Repark(w) \/ Requeue(w)
    \/ UseVerdict(w) \/ Ask(w) \/ AskUnparked(w) \/ Converse(w)
    \/ Finish(w) \/ Criticise(w) \/ Raise(w) \/ Fail(w)

TakeJob(t) == \E w \in Workers : Skip(w, t) \/ Block(w, t) \/ Dispatch(w, t)

Handle(h) ==
    \/ ReadTask(h) \/ ReadDecisions(h) \/ ReadWaits(h)
    \/ Tell(h) \/ Commit(h) \/ Abandon(h)

\* The cron's look at a task: has it a stale wait, is it parked for nothing?
Expiry(t) == \E h \in Handlers : ReadWait(h, t, "expire")
Reaping(t) == \E h \in Handlers : ReadParked(h, t)

Next ==
    \/ \E t \in Tasks :
         \/ Create(t) \/ Spawn(t) \/ CommitSpawn(t)
         \/ TakeJob(t)
         \/ Expiry(t) \/ Reaping(t)
         \/ \E p \in Processes : Send(p, t) \/ SendFails(p, t)
         \/ \E h \in Handlers :
              \/ ReadWait(h, t, "post") \/ ReadWait(h, t, "tell")
              \/ \E d \in Decisions : ReadDecision(h, t, d)
    \/ \E w \in Workers : Execute(w)
    \/ \E h \in Handlers : Handle(h)
    \/ CrashApi \/ CrashWorker \/ StartWorker

Spec == Init /\ [][Next]_vars

\* Running processes go on: the worker executes and takes jobs, both processes
\* enqueue what they have committed, transactions end, the crons come round to every
\* task (strongly: that no handler is free is the bound's doing), and the platform
\* restarts a worker that died.  Nothing forces the founder.
FairSpec ==
    /\ Spec
    /\ WF_vars(StartWorker)
    /\ \A w \in Workers : WF_vars(Execute(w))
    /\ \A h \in Handlers : WF_vars(Handle(h))
    /\ \A t \in Tasks :
         /\ WF_vars(TakeJob(t))
         /\ WF_vars(CommitSpawn(t))
         /\ SF_vars(Expiry(t)) /\ SF_vars(Reaping(t))
         /\ \A p \in Processes : WF_vars(Send(p, t))

-----------------------------------------------------------------------------
(* Properties.                                                              *)

\* The variables stay within their types; executions and their tasks agree.
TypeOK ==
    /\ status \in [Tasks -> Statuses]
    /\ queue \in [Tasks -> Nat]
    /\ owed \in [Processes -> [Tasks -> Nat]]
    /\ lost \subseteq Tasks
    /\ job \in [Workers -> Tasks \cup {NoTask}]
    /\ at \in [Workers -> Stages]
    /\ \A w \in Workers : job[w] = NoTask <=> at[w] = "free"
    /\ decision \in [Tasks -> [Decisions -> DecisionStates]]
    /\ wait \in [Tasks -> WaitStates]
    /\ tx \in [Handlers -> [at : TxStages, does : Kinds, task : Tasks \cup {NoTask},
                            about : SUBSET Decisions, row : BOOLEAN]]
    /\ \A h \in Handlers : tx[h].task = NoTask <=> tx[h].at = "idle"
    /\ criticised \in [Tasks -> BOOLEAN]
    /\ up \in BOOLEAN
    /\ repeats \in Nat
    /\ happens \subseteq Events

\* The behaviour is free of these events.
Without(events) == happens \cap events = {}

\* Executions whose backend is at work on the task.
Running(t) == {w \in Workers : job[w] = t /\ at[w] # "requeueing"}

\* No two executions work on one task: recover_pending_work, which runs every task again
\* whatever the queue holds, leaves that to the status gate of run_task.
SingleRunner == \A t \in Tasks : \A v, w \in Running(t) : v = w

\* Where nothing is repeated they do not: run_task's status gate, the resume handlers
\* that accept a running task, and their jobs all have to agree on it.  Where something
\* is, the gate, which accepts a parked task, is not enough.
OneRunner == Without(Repeating) => SingleRunner

\* A queued task has a job, or someone who is about to enqueue one, unless the job was
\* lost: to an API process that died, a refused or cancelled enqueue, or a job that was
\* there before the commit it belongs to.  Whatever is repeated, nothing else loses one,
\* and no loss outlives a start of the worker.
QueuedIsCarried ==
    up => \A t \in Tasks \ lost :
            status[t] = "queued" =>
              \/ queue[t] > 0
              \/ \E p \in Processes : owed[p][t] > 0
              \/ \E w \in Workers : job[w] = t /\ at[w] = "requeueing"

\* While the worker is up, a task that is running is run by some execution, whatever
\* crashes and is repeated: the gate skips it, so nobody else would ever pick it up.
RunningIsRun ==
    Without({"quiet_ask"}) /\ up
      => \A t \in Tasks : status[t] = "running" => Running(t) # {}

\* A parked task has something to resume it: a question that is open, or a job
\* already on its way.
ParkedHasQuestion ==
    Without(Repeating) => \A t \in Tasks :
      status[t] = "waiting_approval" =>
        \/ Holds(t, "pending") \/ wait[t] = "pending"
        \/ queue[t] > 0 \/ \E p \in Processes : owed[p][t] > 0

EndedStays == \A t \in Tasks : status[t] \in Final => status'[t] = status[t]

\* A task that has ended stays as it ended (run_task's gate, the resume handlers).
FinalIsFinal == [][Without(Repeating) => EndedStays]_vars

\* The task rows as everybody else sees them: the open transaction of a tool is not
\* committed; and the tasks the slots have: a slot that is about to enqueue the critic's
\* re-queue has let go of its task.
rows == [t \in Tasks |-> IF status[t] = "inserted" THEN "absent" ELSE status[t]]
hands == [w \in Workers |-> IF at[w] = "requeueing" THEN NoTask ELSE job[w]]

\* Jobs, resumes, questions and reply waits, when none is repeated, hand every task to
\* one slot at a time, from its creation to its end: each step is a step of Claims.
C == INSTANCE Claims WITH
       status <- rows, work <- hands,
       Closings <- Final \cup {"waiting_approval", "queued"},
       Refusals <- {"blocked"}
ServesClaims ==
    (Without(Repeating) => C!Init) /\ [][Without(Repeating) => [C!Next]_(C!claimVars)]_vars

\* The job of t came to nothing, and no worker has started since.
Stranded(t) == up /\ t \in lost

\* A queued task is taken up, whatever crashes and is repeated, unless its job is lost
\* while the worker runs; what was lost before a start of the worker is taken up too.
QueuedRuns ==
    \A t \in Tasks :
      status[t] = "queued" /\ ~ Stranded(t) ~> status[t] # "queued" \/ Stranded(t)

\* No task that never raised a decision stays parked for good, however often it was
\* resumed at once: one that was parked again after its reply came in has no question
\* left, and the crons end it (_still_waiting_for_reply, reap_orphaned_approvals).
ParkedMovesOn ==
    \A t \in Tasks :
      /\ status[t] = "waiting_approval"
      /\ \A d \in Decisions : decision[t][d] = "none"
      ~> status[t] # "waiting_approval" \/ \E d \in Decisions : decision[t][d] # "none"
=============================================================================
