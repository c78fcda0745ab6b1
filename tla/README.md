# GalaxiaOS (ABOS): a TLA+ model of the agent runtime

A founder states a mission and a budget; the backend (FastAPI API process, one `arq`
worker process, Postgres, Redis) generates a company of AI agents and keeps it working:
tasks are queued, dispatched to an agent loop, parked when they need the founder, audited,
and, when the last one of a run ends, followed by the next business cycle. All of this is
state in Postgres rows, changed by short transactions of concurrent coroutines in two
processes, with LLM calls, tool calls and founders in between. That is what is modelled
here: not the prompts, but who changes which row when, and what holds whatever the order.

Paths below are relative to `backend/app/` unless they start with another directory.

* [1. Inventory](#1-inventory)
* [2. Modules](#2-modules)
* [3. Runs, bounds and fairness](#3-runs-bounds-and-fairness)
* [4. What the runs show, and under which conditions](#4-what-the-runs-show-and-under-which-conditions)
* [5. Theorems](#5-theorems)
* [6. Not modelled](#6-not-modelled)
* [7. Plan](#7-plan)

## 1. Inventory

### The processes

| process | runs | dies with |
|---|---|---|
| API (`api/*`, `main.py`) | founder requests, decisions, chat, pull workers' calls, the copilot's metered LLM calls | what it committed and had not yet enqueued; calls in flight |
| worker (`runtime/worker.py`) | `run_task` jobs, `worker_max_jobs` = 10 at once; the crons of `jobs/scheduled.py`; `jobs/recovery.py` at startup | its executions (arq redelivers their jobs); rows stay as they were |
| Postgres | every row below | - |
| Redis (`runtime/queue.py`) | jobs that only name a task; ephemeral, no job id, so duplicates are never collapsed | the queue |

### The core components

| component (source) | state it keeps | operations | what makes it hard | what makes it correct |
|---|---|---|---|---|
| Cost meter and budget (`runtime/cost_meter.py`, `services/budget.py`) | the company's `limit / spent / reserved_cents`, an agent's cap, the ledger `spend_entries` | reserve, commit, release, reclaim at startup, raise of a limit or a slice | the action runs with no transaction open, between two locked ones; cancellation in an `await` of a COMMIT; two processes | reservations cover what is in flight; spent + in flight within the limit; a refused call ends somewhere |
| Task dispatch (`runtime/orchestrator.py`, `runtime/queue.py`, `services/decisions.py`, `services/chat.py`, `jobs/recovery.py`, `jobs/scheduled.py`) | a task's status, jobs, executing slots, decision requests, reply waits | create, enqueue, take, park, resume, criticise, finish, reap, recover | enqueue is after the commit; at-least-once delivery; resumes from a click, a chat reply and a cron; restarts | one execution per task; nothing stranded in queued, running or parked; an ended task stays ended |
| Delegated work and its reviews (`tools/audit.py`, `services/tasks.py`) | a task held in `auditing`, its review task, `audit_rounds`, `retry_count`, the failure marker in `input` | hold, approve, reopen, retry, abandon, settle, reap | the review is a task of its own: it may wait, fail, or outlive its target's state | the review's outcome is the work's outcome; the loops end |
| Pull workers (`services/business_function.py`, `api/bf_mcp.py`, `api/human_worker.py`) | an initiative's status and `lease_expires_at` | look, claim, report, ask, lapse, reclaim | workers outside the system; the lease does not say whose it is | one worker per initiative; an initiative is never lost |
| Run cycle (`_maybe_continue_cycle`, `services/runs.py`, the crons) | `agent_runs`, active tasks of each | count, claim, retrospective, close, next cycle, cron, founder's button, recovery | several finishers count at once; three others look whether the company is idle without a lock | one live cycle; closed runs are quiet; a finished run is wound down |
| Working memory of a task (`runtime/transcript.py`, `native.py`) | `tasks.transcript`, notes in `tasks.input`, `tasks.chat_seen_at`, the conversation in memory | seed, resume, repair, recap, note, checkpoint | interruption between any two of them; notes and checkpoints are saved at different times | what a provider is sent is well-formed; every saved step is accounted for once; no note twice |
| Conversations of agents (`services/chat.py`, `tools/chat.py`, `jobs/scheduled.py`) | messages and budget of a channel, `escalation_pending`, `chat_waits`, review tasks | post, wait, escalate, rule, reap | a transaction that spans a model call; two agents that escalate, or wait for each other, at once | a post frees who waited; a pause can be lifted; nobody is parked for good |
| Demand backlog (`services/feature_requests.py`, `services/promoter.py`, `integrations/issues.py`) | entries with a denormalised count, vote rows, the tracker's issues | ask, vote, promote, reconcile, deliver, by cron or by the Platform agent | the tracker is outside the transaction: lost answers, lag, crashes | demand not overstated; one open issue per title; everyone told once |
| Platform-funded compute (`services/billing.py`, `services/billing_stripe.py`, `api/stripe_webhooks.py`) | the founder's account, append-only charges, what Stripe has counted | grant, settle, report usage, upgrade | a running sum written back without a lock; a report without an idempotency key | the account claims no more than was charged; Stripe counts nothing twice; the free tier ends |
| Approval gate and checkpointed loop (`runtime/backends/native.py`, `services/governance.py`, `tools/base.py`, `services/external_messages.py`) | the transcript checkpoint, decisions and their `consumed` mark, the index of outgoing messages | think, gate, ask, consume, effect, commit, checkpoint | effects are not transactional; a park or a crash in mid-step forgets the step | nothing leaves without an approval of its own; nothing is redone; declines are remembered |

### How they interact

```
        founder ── clicks, messages ──► API ──── commit ────► Postgres ◄──── pull workers
                                         │ enqueue                ▲            (lease)
                                         ▼                        │
   crons ─► worker ◄── jobs ── Redis ◄───┘        run_task: gate ─► native loop ─► finish
                │                                       │              │  │          │
                │ recovery at startup            (TaskDispatch)  CostMeter ApprovalGate
                └─ reapers, reclaim                                              │
                                  Oversight (a delegated result is held) ◄───────┤
                                  RunCycle  (the last task of a run ended) ◄─────┘
   beside each step of the loop: Transcript (what is sent and saved), ChatRooms (posts, waits),
   ManagedBilling (who pays for the call), Backlog (a bug report, a capability request)
```

* The loop calls the cost meter before each LLM call and each paid tool; `BudgetExceeded` either
  extends the agent's slice or parks the task on a spend decision.
* The gate parks the task on a decision; `resolve_decision` queues it and the API enqueues it.
* Finishing a delegated task holds it and creates the review, which is dispatched like any
  other task; finishing any task may wind its run down.
* Recovery treats everything `running` as orphaned, pull workers' claims included.
* `send_chat_message` parks the task on a reply; the next post there, a ruling or the cron queues it again.
* The commit of a platform-funded call settles the company's budget and the founder's account in one transaction.

The list of components, with those that are not modelled and why, is `components` in
`PROJECT.json`; the hazards the properties are for, each at its line, are `hazards` there.

## 2. Modules

| module | models | composed with |
|---|---|---|
| `LedgerSums` | sum of the amounts on hold, as a recursive function | used by the two below |
| `Escrow` | what the budget promises: place, settle, drop a hold; raise the limit | abstract specification |
| `CostMeter` | cost meter + budget + the loop's reaction to a refusal | implements `Escrow` (`RefinesEscrow`) |
| `Claims` | what is promised of a task and of who executes it: offer, take, give back, forget, take back, resume | abstract specification |
| `TaskDispatch` | orchestrator, queue, decisions, waits, recovery | implements `Claims` when nothing is repeated (`ServesClaims`) |
| `Oversight` | reviews of delegated work | - |
| `PullWorker` | initiatives under a lease | implements `Claims` in time (`ServesClaims`) |
| `RunCycle` | runs of a company | - |
| `ApprovalGate` | one task's tool calls, gate, index and checkpoint | - |
| `Transcript` | one task's conversation, its checkpoint, recap and notes | - |
| `ChatRooms` | conversations of agents, their waits and escalations | - |
| `Backlog` | the demand backlog, its crons and the issue tracker | - |
| `ManagedBilling` | a founder's account of compute the platform pays for | - |
| `MC*` | constants and symmetry for TLC | extends its module |
| `*Proofs` | lemmas and theorems | extends its module and TLAPS; `CostMeterProofs` has those of `LedgerSums`; `RunProofs` those of `RunCycle`, `Oversight` and `Transcript`, a run, the reviews in it and the memory of a task, which for that have names of their own for what other modules call `Init`, `Next`, `Spec` and `vars` |

Common conventions. One action is one database transaction, or one step between two of them
that other coroutines can observe; a row lock held to the end of a transaction makes it atomic,
a read in an earlier statement than the write that uses it gets an action of its own (`saw`,
`reading`, `extending`, `counting` hold what was read). The name of an action is the function it
models where there is one. Mutated forms of a definition stand above it and are used by no specification.

What the environment may do beyond the ordinary is a set of named events. In `CostMeter` (`Faults`) it is a
constant; elsewhere it is the variable `happens` (in `Oversight`, `befalls`), fixed by `Init` to one member of the constant
`Scenarios`, so that one run covers several environments and a property can say which it needs (`Transcript` and `ManagedBilling` have
one environment, with everything in it). A property is weakened by an event only
when the code really does not have it under that event; section 4 names the code line for each.

The modules meet at rows: what one of them does with a task another changes is an action of an environment there
(`TaskDispatch` criticises and reaps, `Oversight` only sees a review end). They are not run together: each property
needs the interleavings of one component, and the product of two is far beyond what TLC can visit.

### CostMeter

A *slot* is a place from which billable calls are made one after another; `pc[c]` walks through
`cost_meter._reserve`: `reserving` (the transaction of `budget.reserve`), `held` (the action runs),
`releasing` (the shielded `finally`). `limit, spent, reserved` are the row of `budgets`; `booked[a]` is
the sum `agent_spent` computes from `spend_entries`; `cap[a]` is `monthly_budget_cents`. `hold` is not in
the program: it is what the calls in flight will take back. `refused`, `extending`, `parked` are the native
loop's handling of `BudgetExceeded` (`_extend_agent_budget`, `_park_for_budget`, the tool-call branch of
`_handle_call`); the other callers give up (`GivesUp`). `Crash` drops the calls of a process, `Start("worker")` is `reclaim_stale_reservations`.
`release_reservation` and `commit_spend` clamp `reserved_cents` at zero: `Monus`.

### TaskDispatch

`status[t]` is the task row, `queue[t]` counts its jobs, `owed[p][t]` counts resumes process `p` has committed and
not enqueued: the window between `db.commit()` and `enqueue_task`. `job[w], at[w]` are the executing slots:
`started` (flipped to running; `_still_waiting_for_reply` not done), `reparking`, `loop`, `requeueing` (the critic's
re-queue committed, enqueue due), `failing` (the handler of `run_task` has read the row). `Skip`, `Block`, `Dispatch` are the gate of `run_task`,
under `SELECT ... FOR UPDATE` (`Claim`).

`tx[h]` is an open transaction that resumes or reaps a parked task. There are five kinds: a decision is resolved by a click or by a classified reply
(`decide`), the founder or an agent posts (`post`, `tell`), the cron times a wait out (`expire`) or fails a task that is parked for nothing (`reap`).
Each reads its question (`ReadDecision`, `ReadWait`, `ReadParked`), then, in a statement of its own, the task (`ReadTask`; the reaper instead looks for a
decision and a wait, `ReadDecisions`, `ReadWaits`), and writes all it has to write with no condition at its commit (`Commit`): a row
that was `waiting_approval` **or** `running` when it was read becomes `queued`, whatever it is by then. Between the statements every other
action may come, another transaction about the same task included (`overlap`). `row` tells whether the wait that was read is still the task's last. An agent's
post enqueues what it wakes before its commit (`Tell`), under the row's lock (`Told`). `Abandon` is the rollback.

`Send` may fail (`SendFails`), and so may the critic's enqueue: `Raise` covers that stage too, and finds the row queued, which the handler leaves alone.
`lost` is the history of tasks whose job came to nothing. `CrashWorker` redelivers the jobs that were executing (arq); `StartWorker` is
`recover_pending_work`. The grace windows of the two crons are left out: a task or wait may be stale at once, which only adds behaviours.
`rows` and `hands` map this to `Claims`: the rows as committed (a tool's open insert is not there yet), and what each slot has
(one that is about to enqueue a re-queue has nothing any more).

### Oversight

One delegated task `t` and the review tasks of the CEO that are alive for it (`review[t][r]`). `Hold` is the park
in `auditing` with a review created for the result (`kind` "audit") or for a failure (`kind` "failure", `marked`).
`verdict` is the window in which a tool's transaction has flushed and enqueued, and not committed (`PutBack`,
`CommitVerdict`). What a verdict reads and what it flushes is one step: of two reviews that decide on one task the second is taken to read
after the first has committed. `runs[t]` is an execution at work. The cron lists what is in auditing (`Strand`, no review is looked at) and later fails it, whatever
it has become (`Reap`), once no verdict holds its row. `rounds` and `made` count on past the caps, as in the code, up to `MaxCount`. `made` counts reviews with one loop signature: the breaker that ends a task whose reviews keep
failing. `current` is a history variable: the review made for the latest result.

### PullWorker

`lease[t]` names the worker whose claim set `lease_expires_at` (the row only has the time); `lapsed` are leases in the
past. `work[w]` is what an outside worker believes it holds; nothing in the program clears it. `Look`/`Claim` are
separate calls, `Claim` a conditional `UPDATE`. `Claims` sees the rows and the hands as they are, and neither leases, nor offers, nor
decisions.

### RunCycle

`active[r]` counts the tasks that `_maybe_continue_cycle` counts. `Finish` is the end of `run_task`; `Count` the count
without a lock; `ClaimNothing`, `OpenRetro`, `CloseRun` the transaction under the run's lock, with the checks
repeated. `FindIdle`/`Start` are the two statements of the cron, of `start_cycle` and of recovery.

### ApprovalGate

A step is the sequence of tool calls of one model answer. `Script[n]` is what a model that answers the same history
alike answers next; events `strays` and `batches` let it answer otherwise. `open`/`effected` split a call's transaction at
the external effect. `consumed` is `payload.consumed`, `row`/`logged` the message index, `saved` the checkpoint of
`_save_transcript`. `RecentlyRejected` looks through the newest `Recall` declined messages of the company (20 in the code); `newer[d]` counts those
of other tasks among them (`DeclineOther`), which go to other targets: each call here has its channel and recipient to itself. History variables (`sent`, `approved`, `declined`) record what really happened. `Priced` tools are metered; those that
leave the company (`External`) are not (`PricedAssumption`; even `run_ad_campaign` charges nothing, `tools/marketing.py:315`), so no message waits on
a budget decision.

### Transcript

A turn is a role, the ids of its tool calls or results, the steps it recaps and the notes it tells; texts are left
out. `Sanitized`, `SafeSplit`, `Compacted` are the pure functions of `runtime/transcript.py` and
`_safe_compaction_split`. `pc` walks through one round of the loop: `_maybe_compact` (`Compact`, then `SaveRecap`, or `KeepAll`),
`_maybe_nudge_chat` (`Look` and `Nudge`: it reads the channels twice), the provider's call, `_save_transcript`. A task starts from nothing or
from a checkpoint that was cut short (`Interrupted`), which the loop itself never writes. `kept`, `given`, `late` are history.

### ChatRooms

`send[p]` is the open transaction of an author: begun (`_guard_against_loop` has passed, kind `post` or `escalate`), looked (the waits
it will satisfy are read), committed by `Post`, `Escalate` or `Rule`. The gap between is the answer of a model when the founder
posts (`api/chat.py`). `Settle` writes the waits and wakes the tasks; a wait that replaces another is a row no open transaction has read.
A task is one of running, parked, queued, failed: `TaskDispatch` has the rest. `Reap` and `ReapOrphan` are the two crons.

### Backlog

`AskRead`/`AskCommit` are the two halves of `record_request`; `born` orders the rows; `job[j]` is the open transaction of a cron or of the
Platform agent's tool with its staged writes, which lock their rows (`Locked`) until `Commit`. `Firsts` is `ORDER BY ... LIMIT n`; `Advance` goes
on with the next entry of the batch. `issues` is the tracker (external): what is
filed there stays when the transaction dies. `SearchMisses`, `ReplyLost`, `TrackerFails`, `PollFails` are its failures.

### ManagedBilling

One founder's row of `platform_billing_accounts` and its `platform_charges`. A slot is a task granted the platform's key; `call[s]` what its
settlement has read. `Read` locks the budget row of its company only; `Write` flushes, waiting for whoever holds the account; `Report` is the
usage record; `Commit` writes back the sum that was read. `counted` is Stripe's; `undone` (history) what it counted for settlements that rolled back.

## 3. Runs, bounds and fairness

Passing runs (distinct states; each finishes within two minutes with two workers):

| run | states | instance | question |
|---|---|---|---|
| `meter_crash` | 142,942 | a capped thinking agent, an uncapped tool-calling one, a compaction; worker crash | does the ledger cover what is in flight, and is it the escrow? |
| `meter_shared` | 57,852 | two slots of one agent and one of the API; overruns, lowered limit | is nothing stranded, and does a refusal resolve? |
| `dispatch_runs` | 73,292 | 1 task, 2 slots, 1 decision, 2 transactions at once; API crashes, failed enqueues, and quiet asks with tool spawns, or one Repeating event | one execution; nothing stranded parked, queued or running |
| `oversight_reviews` | 227,386 | 1 task, 2 reviews alive; four scenarios | is a result accepted by its own review, and does every task end? |
| `pull_initiatives` | 145,430 | 2 initiatives, 2 workers; three scenarios | is a claim safe, and an initiative never lost? |
| `cycle_winds` | 448,136 | 3 runs at a time, 2 slots; five scenarios | one cycle, wound down by itself |
| `gate_approvals` | 199,942 | 4 calls of 3 tools, a script of 4 steps; seven scenarios | nothing out without approval, nothing twice |
| `transcript_memory` | 668,872 | 5 steps of up to 2 calls, trigger 6, tail 3, 4 rounds an execution; 2 interruptions, 2 posts, 1 feedback | is what is sent and saved sound, complete, and told once? |
| `chat_rooms` | 284,878 | 2 agents, CEO and founder in 1 conversation, budget 1; three scenarios | are waiters freed, pauses lifted, and is nobody parked for good? |
| `backlog_loop` | 179,181 | 2 entries of one title, 3 calls of 2 voters, 2 crons and a tool; three scenarios | is demand honest, filed once, and announced once? |
| `billing_account` | 488,058 | 3 tasks of 1 or 2 companies, costs 1 and 2, allowance 3, one midnight | is the account never overstated, and does the free tier end? |

`viol_redone_step` must find a violation (section 4).

Why these bounds are enough to meet the interesting cases, and what they cut:

* `CostMeter`: estimates 1 and 2 cents against limits of 2 to 4: a call fits exactly, fits with the other one in
  flight, is refused by the company or by the agent, and settles at 0, below, at and (overrun) above its estimate.
  `MaxLimit` stops approvals. Three slots: each race named in `hazards` is between two calls.
  The theorems hold for any number.
* `TaskDispatch`: two slots (two executions of one task are possible), two jobs of one task at a time (`MaxJobs`), two transactions at once
  (`Handlers`: any two of the five kinds can cross), and one *Repeating* event in a behaviour (`MaxRepeats`): a worker crash, a click on a resolved
  decision, a second transaction that begins while one about the task is open, or a post rolled back after its wake-up. A second overlap is a third transaction, or a
  pair after a pair. The other events (crashes of the API, failed enqueues, early jobs, quiet asks) are not counted. One task is enough: no action reads the row, the
  jobs or the questions of another, tasks only compete for slots, and the theorems hold for any number. `MaxJobs` guards every enqueue; a handler
  at the bound waits, it never drops.
* `Oversight`: two rounds, two retries, two repeats of a signature, each counted to three (`MaxCount`, one past the caps, so that a count beyond a cap
  would show). The configured values are 2, 3 and 3.
* `PullWorker`: two workers see the same offer; one death, one restart, two decisions per initiative.
* `RunCycle`: three runs: the one winding down, the next, and one that somebody else stacks. `Spare` keeps a free
  run for the next cycle, and a run that is done is used again, so there is no bound on the number of cycles.
* `ApprovalGate`: three decisions, one interruption, a call takes effect three times at most; a recall of two messages and two declined ones
  of other tasks, enough to push a decline out of it. The first call of the script is
  made twice, so that a second approval of the same call has to be told from a replay of the first.
* `Transcript`: trigger and tail are small enough that a task is recapped again with its recap as the first turn, within one
  execution and after a resume. The configured values (24 messages, 12 steps an execution) have the same order: only a
  task that was resumed is ever recapped.
* `ChatRooms`: a budget of one message lets both agents escalate at once, from one reading; four messages (`MaxMessages`) hold a post of
  each author and a ruling. The waits of different conversations only meet in a task, which one conversation and two
  agents that wait for each other exercise; the theorems cover any number of both.
* `Backlog`: two keys of one title are what the tracker's search confuses; two calls of one voter and one of another are what loses
  and doubles votes; two upsets let the retry after a failure fail too.
* `ManagedBilling`: two of three slots in one company and the third in another give the ordered and the unordered pair;
  charges up to 5 pass an allowance of 3. The theorems hold for any amounts.

Deadlock is checked in `meter_*`, `cycle_winds` and `billing_account`. In the others the system may really stop: every task, or the one task,
has ended or waits for a founder who never answers, nobody posts, or every entry is delivered.

Fairness, and why the code justifies it:

* a process that is up goes on with the coroutine it runs, the platform restarts a worker that died, the queue delivers:
  weak fairness of `CallStep`, `Execute`, `TakeJob`, `Send`, `CommitSpawn`, `StartWorker`, `WindDown`, `Think`, `Act`, `RunReview`, and of
  `Commits` (a transaction that began ends), `Resume`, `CeoSteps`, `AskCommit`, `Proceeds`;
* crons run: weak fairness of `Reap`, `ReleaseExpired`, `Reaper`, and of the two ticks in `Proceeds`; strong fairness of `Expiry` and `Reaping` in `TaskDispatch`, for the bound on
  transactions at once may stop a cron there that nothing stops in the code; transactions end (`Handle`); time passes: `Lapse`;
* the step cap ends a review whatever it does in its steps: strong fairness of `FinishReview` (a review can be between
  `FinishReview`'s states infinitely often otherwise, with its tool calls);
* a pull worker's agent returns on its cadence: weak fairness of `Look`, `Claim`, `Close`. This is an assumption on the
  outside; `Die` may still happen;
* no founder is ever forced: nothing about a click, a post, `Resolve`, `Approve`. Conclusions about parked work are
  therefore "ends or waits for the founder". Likewise nobody is forced to post, to ask, to close an issue or to act by hand.
  `Transcript` and `ManagedBilling` have no liveness property and no fairness.

## 4. What the runs show, and under which conditions

`F` marks what a run of its own demonstrates and `findings` quotes. The other conditions are the reason for an event's
name in a property: without the condition TLC finds the behaviour described.

### Money
* Reservations always cover what is in flight, the company can always pay (`LedgerCoversInFlight`, `Solvent`), the
  meter is an escrow (`RefinesEscrow`). Conditions:
  * *one process makes the metered calls*: the worker's startup zeroes reservations that the API's calls still hold (`services/budget.py:223`, which
    says "nothing in flight");
  * *no acknowledgement is lost*: a cancellation in the COMMIT of `commit_spend` leaves `committed["done"]` false, and the
    reservation is released again, out of someone else's (`runtime/cost_meter.py:58`);
  * *no overrun, no lowered limit* for `Solvent` (both are permitted by design).
* `ReservedIsInFlight`: nothing stays reserved that no call will take back.
* `RefusalResolves`: the think loop's retries after an extension never go on for ever, even when two tasks extend from the same
  reading (`native.py:737`).
* Seen, not a property: two calls of one agent in flight at once overspend its slice, which `reserve` compares with booked
  entries only (`services/budget.py:112-116`); a tool call refused by its *agent's* slice raises the *company's* limit when approved and is
  refused again (`native.py:949`); the headroom of an overdrawn company ignores the overdraft (`native.py:751`).

### Dispatch
* `ParkedHasQuestion` and the refinement `ServesClaims` (nothing but its slot moves a task while it runs; a task is taken only when
  it is queued and nobody has it, so that it has one runner at most, `OneRunner`) hold with tools that spawn or ask quietly, an API that crashes and
  enqueues that fail. They do not hold where something is *Repeating*:
  * a worker crash: the gate accepts `waiting_approval` (`orchestrator.py:259`), so a spare job, of recovery or redelivery, starts a
    task that is parked, and its resume starts it again (TLC finds `SingleRunner` violated with no other event); `jobs/recovery.py:20-23` and `queue.py:23-24` rely on the gate alone;
  * a decision resolved again: approve and reject do not look whether it is pending (`api/decisions.py:120`), and a resume re-queues a task that runs. A reply is
    classified by an LLM between reading and resolving a decision (`services/decisions.py:381`): a click in between overlaps it;
  * two transactions about one task at once: two posts in one conversation, or a post beside the reply timeout, find one wait (`chat.py:402`,
    `scheduled.py:159`) and both queue the task and send a job. The second of them may re-queue it while it runs, and the execution that one
    starts may be parked again by `_still_waiting_for_reply` (`native.py:491`) with its question answered. These are the orphans of `ReapOrphan` in `ChatRooms`;
  * a post that is rolled back after it has enqueued the tasks it woke (`tools/chat.py:400`): they run without a reply.
* What remains of it whatever is repeated: `RunningIsRun` (no task is left running by nobody, but for the quiet ask of `connect_domain`, which stops the loop with the
  task `running`, `tools/marketing.py:276`) and `ParkedMovesOn`: a task that never raised a decision is never parked for good, for the two crons end each
  wait and each orphan. One that did raise a decision the reaper leaves alone (`scheduled.py:56-60`), and it may be parked for good.
* `QueuedIsCarried` and `QueuedRuns` hold through all of this, for every job but those that come to nothing in one of these ways, and a start of the worker makes good
  what came to nothing before it:
  * the API dies between commit and enqueue;
  * an enqueue is refused by Redis, or cancelled: of a resume (`SendFails`), or of the critic's re-queue (`native.py:1124`), where the handler of `run_task` acts on
    running rows only (`orchestrator.py:366`) and leaves the task queued;
  * `_spawn_child` enqueues before its row is committed (`tools/core.py:563`): a fast worker drops the job as "missing". An agent's post does the same to the tasks it
    wakes; there the job is dropped only when the row was `running` as committed, for else the gate waits for the row's lock.
* Seen, not a property: the handler of `run_task` reads the row and then fails it (`Fail`), so that it fails the task of another execution that has taken it in between.
  The rollback of a tool's spawn leaves a job without a row, which is skipped; it is not modelled.

### Reviews
* `AcceptedByItsReview` (what is accepted is a success, by the review made for it) holds for reviews that end with their verdict and use the
  tool of their goal (`ToTheGoal`). A review
  that goes on (`native.py:1157`) settles a *later* result; `audit_task` accepts failures (`tools/audit.py:115`).
* `DelegatedEnds` needs that a job is not taken before the tool's commit (`tools/audit.py:147`): otherwise it is
  skipped and the task stays queued.
* Seen, not a property: the reaper looks for no review (`jobs/scheduled.py:105`), although `scheduled.py:95-96` says that "a legitimate audit is never raced". A review that waits for the founder past the grace window has its target failed
  under it; so has one that is still queued, or at work: the window of 30 minutes is the job timeout of the worker (`worker.py`). The model does
  not tell how long a task has been in auditing, so every one may be listed. No property says whom the reaper spares; it is what makes `DelegatedEnds` true
  of reviews that are lost or wait.

### Pull workers
* `OfferedEnds` holds whatever dies or is late, unless one decision is answered for ever.
* `ClaimIsKept` and the refinement `ServesClaims` (an initiative is taken only when nobody has it: `OneWorker`) need workers that
  report within their lease: a late report overwrites another worker's claim or result (`services/business_function.py:361`). Even in time, a
  restart of GalaxiaOS's own worker re-queues a live claim as if it were a crashed push task (`jobs/recovery.py:63-71`), and a decision
  resolved a second time re-queues the initiative under its next holder.
* A `needs_decision` report parks the initiative with a message and no decision (`business_function.py:388`); the reaper
  then fails it. The theorem `ParkedIsResolvable` excludes that report.

### Cycles
* `ClosedIsQuiet` holds whoever opens runs. `OneCycle` holds while only finishers do (`OnlyContinues`): the cron, the
  button and recovery each look and open in separate statements (`jobs/scheduled.py:563-566`), and two of them, or one and a finisher, stack
  two cycles. A founder's message opens a run that winds down into a cycle of its own as well (`orchestrator.py:557`).
* `WindsDown` needs that the last task ends by `run_task`'s return: blocked, raised, reaped and pulled ones wind nothing down
  (`orchestrator.py:265`), nor does a worker that is restarted in between; the cron opens the next cycle then.

### Approvals
* `EveryGatedCallApproved`: a gated call goes out at most as often as *it* was approved, while the task keeps to its
  script. A grant is matched by the tool's name alone (`tools/base.py:61`), so another call may use it, a second call of a
  batch may, and so may what is left over when an overdrawn call's rollback restores its grant (`native.py:948`).
* `NotRedone` holds for steps of one call. **F** (`viol_redone_step`, property `DoneOnce`): a step whose second call parks is not checkpointed, and its
  first call is made again (`native.py:428`).
* `IndexComplete` needs that the commit after an effect succeeds (`native.py:1016`).
* `DeclineRemembered` needs an answer within the cooldown, which counts from the decision's creation (`external_messages.py:143`), and holds until
  as many messages as the gate recalls, put to the founder later, are declined (`PushedOut`; `.limit(20)`, `external_messages.py:146`): then he is asked again
  within the cooldown, which TLC reaches when the exception is taken out.
* `ApprovalIsUsed`: an approved call is made, through interruptions and late answers.

### Memory
* `ProviderAccepts`, `CheckpointIsClean`, `Remembers` hold without condition: through recaps of recaps, checkpoints cut short
  anywhere, and refused summaries, no tool result loses its call, and every checkpointed step is in the recap or in the history, once
  and in order.
* `NotedOnce` excepts the messages that arrive between the two reads of `_maybe_nudge_chat` (`native.py:675`): they are told and the
  watermark stays behind them, so they are told again (`models/run.py:76-77` says "exactly once"). The converse is seen, not stated: a message
  whose transaction commits after the look with an older timestamp is never told, and feedback taken out of `task.input`
  (`native.py:1221`) is lost when its step parks.
* `FitsWindow`: a summary the budget refuses leaves that round's history long, and only that round's.
* Seen, not modelled: the tools a task has loaded are read off its transcript (`native.py:138-145`), so a task that is resumed after a
  recap has forgotten those loaded before it. With the defaults (12 steps an execution, trigger 24) only a resumed task is recapped.

### Conversations
* `PausedIsReviewed`: whenever two agents reach the limit together and a ruling overlaps them, a review that can lift the pause
  is left; not if a review ends without a ruling (`ceo_quits`): nothing else lifts a pause.
* `LaterPostsWake`: a post wakes who waited when it began. Who begins to wait while it is open is not woken by it, and
  waits for the next post or the timeout.
* `RunsAgain`: two agents that wait for one another, a closed conversation, a paused one: the two reapers free everyone.

### Backlog
* `HonestDemand`: lost updates of the vote count only ever lower it, and never to nothing.
* `OneOpenIssue` needs a tracker whose search sees what was just filed and no promotion by the Platform agent's hand: the search is
  the only guard against a second issue when a tick's transaction dies after filing.
* `AllAreTold`: votes that are being cast while the entry is marked delivered are counted in. `ToldOnce` fails by hand: a
  promotion from an older reading takes a delivered entry back and it is announced again.
* `DemandIsFiled`: outages and crashes only delay.

### Billing
* `NeverOverstated`, `CountedOnce` hold whatever overlaps, collides or rolls back. The account may *under*state: two companies of one
  founder settle under different budget rows and one of the two sums is lost (`models/billing.py:43` calls it monotonic; it is not).
  Hence `FreeTierEnds` (and `BooksAgree`, a theorem) speak of founders whose tasks are all of one company (`Sole`).
* Seen, not a property: two first charges of a founder collide on the unique account row, and the loser's settlement of a call that
  was already paid is rolled back; a charge is marked billed although its usage report failed.

Every property has a mutant in `PROJECT.json`: a plausible slip in one definition that its run catches.

## 5. Theorems

Proved with TLAPS for every value of the constants (named assumptions in each module; finiteness is assumed
only where a cardinality is taken: job slots, backlog keys). Every inductive invariant was checked with TLC before it was proved. Module, invariant and
why it is needed:

* `CostMeterProofs`. First the sum of the holds: `SumOf` is the recursive function; its defining equation is derived without an induction over an
  operator parameter, by comparing total functions up to the least argument where they differ (`LeastNat`, `TotalsExist`). `SumUpdate`,
  `SumMonotone`, `SumZero` are what the meter needs.
  * `TypeCorrect`, with `SlotOK`: a slot is at the stages its kind allows.
  * `LedgerCovers`: `CoverInv` adds that a worker that is down holds nothing, without which startup's reclaim would break it.
  * `SolventAlways` adds `Solvent`; each step either places a hold that fits the free part or does not raise spent + held (`CommitmentStep`).
  * `NothingIsStranded`: `reserved_cents` *equals* what is held while no process dies. `ExactInv` needs `AllUp`, because the reclaim
    zeroes what the API holds, and equality rather than an upper bound, so that the clamp at zero never takes effect. It needs no single
    process: API and worker may both call.
  * `MeterIsEscrow`: the refinement. Every initial state is one of `Escrow`'s and every step is a step of `Escrow` or a stutter. `EscrowInv` is
    `CoverInv` and `Estimated` (a call that is being made was estimated): the cover is what makes the clamps of the code agree with the
    plain subtractions of the escrow.
* `TaskDispatchProofs`: `RunningTasksAreRun` (needs only that no tool asks quietly: whatever crashes and overlaps);
  `GateAdmitsOne`, `EndedStaysEnded` (tasks that never park, every enqueue arriving; invariant `RunnerInv`: whoever is at work has its task `running`, which
  the gate refuses).
  * `QueuedTasksAreCarried` holds under every event, from `CarryInv`: a task outside `lost` that is queued has a carrier, and one that an open transaction has enqueued has
    its job until that transaction commits; the second part is why the commit of an agent's post strands nobody.
  * `OneRunnerUndisturbed`, `EndedStaysUndisturbed`, `ParkedTasksAsk` for tasks that do park, where nothing is Repeating. Their invariant is `Calm`: each
    task is *carried* by at most one of a job, an owed enqueue, or a slot (`Carried`), is parked on exactly one question (`Asked`), and at most one transaction is about it,
    whose question is that one and still open, the task being parked or left running by nobody (`Sound`). A task with two carriers is how two executions come about, so
    uniqueness, not existence, is what has to be inductive; and as a transaction writes without looking again, what it has read has to stay true until its commit.
  * `DispatchServesClaims` is the refinement, from `Calm` too: a job is taken of a queued task that no slot has (`TakenIsOffered`), what ends is the
    slot's own running task (`EndGivesBack`), and what a commit resumes or reaps is had by nobody (`CommitOffers`).
* `PullWorkerProofs`: `TypeCorrect`, `RunningLeased` unconditionally (`LeaseInv`), and in time `OneWorkerInTime`, `TerminalIsFinal`, `ClaimsAreKept`, `ParkedIsResolvable`
  from `ClaimInv`: what a worker holds runs under its own unexpired lease (`Held`), and a decision that is pending is the only one (`Parking`).
  `PullServesClaims` is the refinement: it also needs that who was shown an initiative has nothing in hand (`Idle`).
* `RunProofs`, of `RunCycle`: `TypeCorrect`, `ClosedRunsAreQuiet` (`CycleInv`: a run that is not open has nothing active; a slot that winds down has a run), and
  `OneCycleAtATime`: a single open run and no one looking (`OneRun`).
* `RunProofs`, of `Oversight`: `AcceptedOnItsReview`, from `WorkInv`: what a task in auditing awaits is
  the review of its last result (`KindInv`), and while reviews end with their verdict the last one made is the only one alive (`AliveInv`).
  Neither holds of `Hold` alone: a review outlives its target's state, and it is the pair that says it cannot meet another result.
  `RunsInv` relates the executions to the rows, which the cron may have failed under them.
  `RedosStayCapped` (`RedosAreCapped`: reopens and retries keep to their caps) needs `CapsInv`: what is held has a redo left, which for
  a result is checked only where it is held and for a failure in an earlier step than the one that counts, and a verdict that is open is the only one on its task. `rounds` counts past the cap if it comes to that.
* `RunProofs`, of `Transcript`: all of its properties, from `MemoryInv`. The conversation in memory and the checkpoint are both `Good` with the
  steps behind them: well formed; `Steps`, the first ones in the recap and each other one in the request and results at its place; `Once`, no note
  twice; `Told`, nothing told that is unknown or still pending. The checkpoint has to satisfy all of it, for a task comes back from it with the
  `input` and watermark of *now*; `Marks` relates the two reads of the channels (what came between them is `late`).
  * `Flattened`: a function that meets the equation of `FlattenSeq` is the one it computes, by infinite descent (`NoDescent`) and not by an induction over
    an operator parameter. With it `CleanIsKept` (sanitising leaves a well-formed conversation alone) and `InterruptedIsRepaired`.
  * `CutIsSafe`: before the cut stands a whole number of steps and after it at most `Keep + 1` turns, of two neighbours one being the assistant's;
    hence `CompactedKeeps`. `NotedKeeps` and `StepKeeps` are the same for a note and a step.
  * `TheProviderAccepts`, `CheckpointsAreClean`, `StepsAreRemembered`, `NotesAreToldOnce` need only `FeedbackAssumption`: feedback is not a
    number, for numbers stand for the channels' messages.
  * `TheConversationFits` is stated for settings with `Keep + 2 <= Trigger` (`SettingsFit`), from `Short`. The code's are 8 and 24
    (`config.py:228-229`), but nothing there checks others, and TLC finds `FitsWindow` violated for a trigger of `Keep + 1`.
* `ApprovalGateProofs`: `TypeCorrect` with `PendingInv` (one decision is waited for at a time; a gated call runs on a grant of its tool).
  * `DeclineIsRemembered`, from `DeclineInv`: a message is refused at the gate alone, and a decline that stands has its rejected decision among the recent ones;
    if it is not pushed out, that decision is among the newest `Recall` (`NewerIsNat`: their number is one), and the gate finds it.
  * `StepsAreNotRedone` (tasks that keep to steps of one call), from `SteadyInv`: what is open is the call of the first unsaved step
    (`StepInv`), and a call has gone out at most as often as the steps reached so far name it (`MadeInv`); counting the step under way from the moment
    its effect is out is what makes the bound inductive.
  * `GatedCallsAreApproved`, from `GrantInv`: only one decision is live, and it is about the call that is due; hence the match by
    tool name picks the right one. An approval that no call has used yet counts against `approved`.
  * `IndexIsComplete`, from `RowInv`: a parked row is the only one and is about the call that is due, so that `finalize` moves its own row;
    logged and sent rows, and the effect in flight, add up to what was sent.
* `ManagedBillingProofs`: `TypeCorrect`; `NeverMore`, from what each open settlement has read being no more than what is charged; `BooksAlwaysAgree` and
  `FreeTierAlwaysEnds` when all tasks are of one company, whose budget row orders the settlements; `NeverCountedTwice`: at most
  one settlement has an unfinished report.
* `ChatRoomsProofs`: `TypeCorrect`; `PausesAreReviewed`, from `PauseInv`: a ruling in flight that began before the pause, and so will
  not lift it, is never the only review left; `PostsWake`, from `WakeInv`: once a post has looked, whoever was there is among those it
  satisfies, or no longer waits.
* `BacklogProofs`
  * `DemandIsHonest`, from `ReadsOK`: the count a vote in progress has read, plus one, is at most the number of voters with its own.
  * `RequestersAreTold`, from `TellInv`: a delivery that is staged has read exactly the requesters the entry has *now*. It holds because the
    staged write locks the row, and a vote needs it (`BatchInv`, `RowsInv` are the types of what is staged).
  * `NobodyIsToldTwice`, from `CronsInv` and `NoticesInv`: an entry stays as the cron that has it in hand found it, for the other cron takes up
    entries of another status; a notice stands for a delivery, which is final. Not so by hand.
  * `TitlesAreFiledOnce`, from `TitlesInv`: between its search and its filing the promoter's title has no open issue. What the tracker holds survives a dying
    transaction, so the invariant speaks of the tracker and never of the entries' own issue numbers.

The assumptions of a theorem that speak of `Faults` or `happens` are the conditions of section 4, not conveniences.

Only model-checked:

* liveness (`RefusalResolves`, `QueuedRuns`, `ParkedMovesOn`, `DelegatedEnds`, `OfferedEnds`, `WindsDown`, `ApprovalIsUsed`, `RunsAgain`, `DemandIsFiled`): fairness is stated
  with ENABLED, which the prover does not handle.

Every invariant and every action property of the runs is the statement of a theorem, under the conditions section 4 names.

## 6. Not modelled

The models stand for the code that decides *when* and *whether* something happens: about a tenth of the implementation's lines.
Most of the rest is prompts, tool schemas and descriptions, configuration, request and response types, endpoints that read or write one row, clients of
external services, and the frontend: there is no state in it that other steps race for, and a model would restate it line by line.
In particular:

* *Prompts, model choice, parsing of answers, skills, memory search, CRM, sites, domains, e-mail set-up*: no shared state, or none in this
  repository. Policy matching (`services/governance.py`) is the constants `Gated` and `Denied`.
* *The critic and investor panel*: a second model's verdict; the re-queue it causes is in `TaskDispatch`.
* *Onboarding and launch* (`services/onboarding.py`): a sequence of calls of one founder before the first run. Read closely, it has little to promise.
  Overlapping generations are ordered by the mission's and company's rows; overlapping `set_functions` duplicate function agents;
  `provision_fleet` keys agents by role, so of several `custom` agents only the last is wired under the CEO (`onboarding.py:424-455`); a
  refinement edits a company that was launched while its model answered; and the launch by HTTP does not look at the
  company's status, which the one by `api/founder_mcp.py:1044` does.
* *The team's pool* (`tools/team.py:492-506`): hire, resume and set-budget check it and write without a lock, while
  `_extend_agent_budget` and the founder's own resume do not consult it. It is a soft allocation by design, so that no invariant of it is true of the
  code; the hard limits are the company's, which is `CostMeter`.
* *Notes merged into `task.input`*: two writers in different sessions can lose one another's note (`services/decisions.py:165`). Only
  those the loop tells are in `Transcript`.
* Further races known and not modelled: `PATCH /budget` overwrites the limit without the row's lock (`api/budget.py:39`; in the model it adds
  or subtracts in one step, so the loss of an approval's increase made meanwhile is not shown);
  a pull worker's `request_budget` clears a spend without reserving it (`business_function.py:421`); two dispatches of the same
  initiative pass the duplicate check together (`tools/core.py:518`).

What `commit_spend`'s transaction also writes for the platform (`_record_platform_spend`) is not in `CostMeter` but in `ManagedBilling`, which in turn
takes the company's reservation for granted.

## 7. Plan

Written, most important behaviour first: `CostMeter` with `Escrow`, `TaskDispatch` and `PullWorker` with `Claims`, `RunCycle`, `Oversight`, `ApprovalGate`, then
`Transcript`, `ChatRooms`, `Backlog`, `ManagedBilling`. What is left, in order:

1. `ChatRooms` composed with `TaskDispatch`: a post's wake-up against a decision's resume of the same task.
2. The team's pool, should the code come to guard it.
