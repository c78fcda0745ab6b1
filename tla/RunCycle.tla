------------------------------ MODULE RunCycle ------------------------------
(***************************************************************************)
(* How a company is kept going (the end of runtime/orchestrator.run_task,     *)
(* jobs/scheduled's crons, services/runs, jobs/recovery): when the last task  *)
(* of a run ends, its worker winds the run down - a retrospective first, then  *)
(* the next business cycle - while crons, the founder and a restart start      *)
(* cycles of their own when they find the company idle.                       *)
(*                                                                         *)
(* A run's tasks are counted here; how each of them runs is TaskDispatch's     *)
(* subject.                                                                  *)
(***************************************************************************)
EXTENDS Integers

CONSTANTS
    Runs,        \* runs that may be alive or winding down at a time; one that is
                 \* done is used again for another
    NoRun,
    Slots,       \* the worker's job slots
    MaxTasks,    \* bound: active tasks of one run
    Scenarios    \* the sets of Events that may happen together

\* Who looks whether the company is idle.
Lookers ==
    {"cron",      \* run_business_cycle, improve_functions: in the worker
     "advance"}   \* the founder's button, services/runs.start_cycle: in the API

Events == Lookers \cup
    {"silent_end",  \* a task ends outside run_task's normal return
     "founder_dm",  \* the founder's message to an idle agent starts a run
     "restart",     \* the worker process is started again
     "unhealthy"}   \* the company is paused, over budget or its breaker trips

ASSUME RunsAssumption == NoRun \notin Runs
ASSUME BoundsAssumption == MaxTasks \in Nat \ {0}
ASSUME EventsAssumption == Scenarios \subseteq SUBSET Events

VARIABLES
    run,      \* run[r]: the AgentRun row; "none" for one not created yet
    trigger,  \* trigger[r]: its RunTrigger
    active,   \* active[r]: its tasks that are queued, running, parked or audited
    worked,   \* worked[r]: a functional agent has completed a task in it
    retro,    \* retro[r]: retrospectives created in it
    at,       \* at[w]: where slot w stands in _maybe_continue_cycle
    of,       \* of[w]: the run it winds down
    saw,      \* those that have found the company idle, and will start a cycle
    healthy,  \* _can_continue
    happens   \* what may happen in this behaviour: one of Scenarios

tables == <<run, trigger, active, worked, retro>>
slots == <<at, of>>
vars == <<run, trigger, active, worked, retro, at, of, saw, healthy, happens>>

Triggers == {"onboarding", "scheduled", "founder_command"}

Free(r) == run[r] # "running" /\ \A w \in Slots : of[w] # r

\* Bound: whoever opens a run beside a live one leaves another to wind down into.
Spare(r) == Free(r) /\ \E s \in Runs \ {r} : Free(s)
Busy == \E r \in Runs : active[r] > 0
Cycling(r) == active[r] > 0 /\ trigger[r] # "founder_command"
Leave(w) ==
    /\ at' = [at EXCEPT ![w] = "idle"]
    /\ of' = [of EXCEPT ![w] = NoRun]

\* The tables once the runs of closed are done and run r is created with its first
\* task.
Opens(r, why, closed) ==
    /\ run' = [s \in Runs |-> IF s = r THEN "running"
                              ELSE IF s \in closed THEN "done" ELSE run[s]]
    /\ trigger' = [trigger EXCEPT ![r] = why]
    /\ active' = [active EXCEPT ![r] = 1]
    /\ worked' = [worked EXCEPT ![r] = FALSE]
    /\ retro' = [retro EXCEPT ![r] = 0]

\* The launch run.
Init ==
    /\ \E r \in Runs :
         /\ run = [s \in Runs |-> IF s = r THEN "running" ELSE "none"]
         /\ active = [s \in Runs |-> IF s = r THEN 1 ELSE 0]
    /\ trigger = [r \in Runs |-> "onboarding"]
    /\ worked = [r \in Runs |-> FALSE]
    /\ retro = [r \in Runs |-> 0]
    /\ at = [w \in Slots |-> "idle"]
    /\ of = [w \in Slots |-> NoRun]
    /\ saw = {}
    /\ healthy = TRUE
    /\ happens \in Scenarios

-----------------------------------------------------------------------------
(* The tasks of a run.                                                      *)

\* A task at work dispatches another.
Dispatch(r) ==
    /\ active[r] \in 1 .. MaxTasks - 1
    /\ active' = [active EXCEPT ![r] = @ + 1]
    /\ UNCHANGED <<run, trigger, worked, retro, slots, saw, healthy, happens>>

\* A task ends, by its backend's return: its slot looks whether it was the last.
Finish(w, r) ==
    /\ at[w] = "idle"
    /\ active[r] > 0
    /\ active' = [active EXCEPT ![r] = @ - 1]
    /\ worked' \in {worked, [worked EXCEPT ![r] = TRUE]}
    /\ at' = [at EXCEPT ![w] = "counting"]
    /\ of' = [of EXCEPT ![w] = r]
    /\ UNCHANGED <<run, trigger, retro, saw, healthy, happens>>

\* A task ends otherwise: a breaker or the pause of its agent blocks it, its
\* backend raises, a cron reaps it, or a person or connected agent reports it.
EndSilently(r) ==
    /\ "silent_end" \in happens
    /\ active[r] > 0
    /\ active' = [active EXCEPT ![r] = @ - 1]
    /\ worked' \in {worked, [worked EXCEPT ![r] = TRUE]}
    /\ UNCHANGED <<run, trigger, retro, slots, saw, healthy, happens>>

-----------------------------------------------------------------------------
(* _maybe_continue_cycle.                                                    *)

\* Mutated: the count comes before the commit of the finishing task, and sees it.
Count_BeforeCommit(w) ==
    /\ at[w] = "counting"
    /\ IF active[of[w]] + 1 > 0 THEN Leave(w)
       ELSE at' = [at EXCEPT ![w] = "claiming"] /\ UNCHANGED of
    /\ UNCHANGED <<tables, saw, healthy, happens>>

\* The count without the run's lock: anything active, and the run is not over.
Count(w) ==
    /\ at[w] = "counting"
    /\ IF active[of[w]] > 0 THEN Leave(w)
       ELSE at' = [at EXCEPT ![w] = "claiming"] /\ UNCHANGED of
    /\ UNCHANGED <<tables, saw, healthy, happens>>

\* Mutated: what was counted before the lock is trusted.
StillOver_Unlocked(r) == run[r] = "running"

\* Mutated: a run that another finisher has wound down is wound down again.
StillOver_Unclaimed(r) == active[r] = 0

\* What is checked again under the run's lock.
StillOver(r) == run[r] = "running" /\ active[r] = 0

\* _should_run_retrospective: a business cycle in which a functional agent worked
\* ends with one.
WantsRetro(r) == trigger[r] = "scheduled" /\ worked[r] /\ retro[r] = 0

\* The run was wound down, or came to life, in between.
ClaimNothing(w) ==
    /\ at[w] = "claiming"
    /\ ~ StillOver(of[w])
    /\ Leave(w)
    /\ UNCHANGED <<tables, saw, healthy, happens>>

\* The run stays open for the CEO's retrospective task.
OpenRetro(w) ==
    /\ at[w] = "claiming"
    /\ StillOver(of[w]) /\ WantsRetro(of[w])
    /\ retro' = [retro EXCEPT ![of[w]] = @ + 1]
    /\ active' = [active EXCEPT ![of[w]] = 1]
    /\ Leave(w)
    /\ UNCHANGED <<run, trigger, worked, saw, healthy, happens>>

\* The run is closed and, if the company is healthy, the next cycle created, in the
\* one transaction.
CloseRun(w) ==
    /\ at[w] = "claiming"
    /\ StillOver(of[w]) /\ ~ WantsRetro(of[w])
    /\ IF healthy
       THEN \E r \in Runs \ {of[w]} : Free(r) /\ Opens(r, "scheduled", {of[w]})
       ELSE /\ run' = [run EXCEPT ![of[w]] = "done"]
            /\ UNCHANGED <<trigger, active, worked, retro>>
    /\ Leave(w)
    /\ UNCHANGED <<saw, healthy, happens>>

-----------------------------------------------------------------------------
(* The others that start a run.                                              *)

\* has_active_tasks, read without a lock.  Only the founder's button asks for the
\* company's health too.
FindIdle(s) ==
    /\ s \in happens \ saw
    /\ ~ Busy
    /\ s = "advance" => healthy
    /\ saw' = saw \cup {s}
    /\ UNCHANGED <<tables, slots, healthy, happens>>

\* create_scheduled_run.
Start(s) ==
    /\ s \in saw
    /\ \E r \in Runs : Spare(r) /\ Opens(r, "scheduled", {})
    /\ saw' = saw \ {s}
    /\ UNCHANGED <<slots, healthy, happens>>

\* The worker is started again: what its slots and crons were about to do is gone, and
\* recover_pending_work looks whether the company is idle and healthy.
Restart ==
    /\ "restart" \in happens
    /\ at' = [w \in Slots |-> "idle"]
    /\ of' = [w \in Slots |-> NoRun]
    /\ saw' = (saw \cap {"advance"}) \cup (IF ~ Busy /\ healthy THEN {"recovery"} ELSE {})
    /\ UNCHANGED <<tables, healthy, happens>>

\* spawn_dm_handler_task: unless one is open, a run of its own for the message.
FounderDm ==
    /\ "founder_dm" \in happens
    /\ \A r \in Runs : ~ (trigger[r] = "founder_command" /\ active[r] > 0)
    /\ \E r \in Runs : Spare(r) /\ Opens(r, "founder_command", {})
    /\ UNCHANGED <<slots, saw, healthy, happens>>

\* The company's health changes.
TurnHealth ==
    /\ "unhealthy" \in happens
    /\ healthy' = ~ healthy
    /\ UNCHANGED <<tables, slots, saw, happens>>

WindDown(w) == Count(w) \/ ClaimNothing(w) \/ OpenRetro(w) \/ CloseRun(w)

Next ==
    \/ \E r \in Runs :
         \/ Dispatch(r) \/ EndSilently(r)
         \/ \E w \in Slots : Finish(w, r)
    \/ \E w \in Slots : WindDown(w)
    \/ \E s \in Lookers : FindIdle(s)
    \/ \E s \in Lookers \cup {"recovery"} : Start(s)
    \/ FounderDm
    \/ Restart
    \/ TurnHealth

Spec == Init /\ [][Next]_vars

\* The worker winds down what it has finished; nothing else is forced.
FairSpec == Spec /\ \A w \in Slots : WF_vars(WindDown(w))

-----------------------------------------------------------------------------
(* Properties.                                                              *)

\* The variables stay within their types, and a run has one retrospective at most.
TypeOK ==
    /\ run \in [Runs -> {"none", "running", "done"}]
    /\ trigger \in [Runs -> Triggers]
    /\ active \in [Runs -> 0 .. MaxTasks]
    /\ worked \in [Runs -> BOOLEAN]
    /\ retro \in [Runs -> {0, 1}]
    /\ at \in [Slots -> {"idle", "counting", "claiming"}]
    /\ of \in [Slots -> Runs \cup {NoRun}]
    /\ saw \subseteq Lookers \cup {"recovery"}
    /\ healthy \in BOOLEAN
    /\ happens \in Scenarios

\* A run that is closed has nothing left to do, however its finishers interleave
\* (_maybe_continue_cycle, "close the run").
ClosedIsQuiet == \A r \in Runs : run[r] = "done" => active[r] = 0

\* At most one run has a live launch or business cycle ...
LiveCyclesAgree == \A r, s \in Runs : Cycling(r) /\ Cycling(s) => r = s

\* ... while only the winding down opens runs: however its finishers race, one of
\* them opens the next cycle (_maybe_continue_cycle) ...
OnlyContinues == happens \subseteq {"silent_end", "unhealthy"}
OneCycle == OnlyContinues => LiveCyclesAgree

\* A run that is over is wound down by the worker itself, without waiting for a cron
\* ("Keep the org alive", run_task), unless its last task ended in silence or the
\* worker was restarted between.
WindsDown ==
    happens \cap {"silent_end", "restart"} = {} =>
      \A r \in Runs :
        run[r] = "running" /\ active[r] = 0 ~> run[r] = "done" \/ active[r] > 0
=============================================================================
