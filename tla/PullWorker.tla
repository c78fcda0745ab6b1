----------------------------- MODULE PullWorker -----------------------------
(***************************************************************************)
(* Work that GalaxiaOS offers and somebody else pulls (services/             *)
(* business_function.py): a function staffed by people or connected agents is  *)
(* never dispatched.  Its workers look for the next initiative, claim it under  *)
(* a lease and report its result; a cron offers again what a claim has let      *)
(* lapse.                                                                    *)
(*                                                                         *)
(* The row knows only when its lease ends, never whose it is, and the surface  *)
(* acts on the initiative a caller names.  A worker whose claim was taken back  *)
(* is not told.                                                              *)
(***************************************************************************)
EXTENDS Integers, FiniteSets

CONSTANTS
    Tasks,         \* the function's initiatives, numbered in order of creation
    Workers,       \* the workers that staff it
    NoTask,
    NoWorker,
    MaxAsks,       \* bound: decisions raised for one initiative
    MaxDeaths,     \* bound: workers that die
    MaxRestarts,   \* bound: restarts of GalaxiaOS's own worker process
    Scenarios      \* the sets of Events that may happen together

Events ==
    {"worker_dies",    \* a worker forgets what it claimed
     "slow_worker",    \* a lease lapses while its worker is at work
     "needs_decision", \* a worker reports that the founder must decide
     "stale_click",    \* a decision that is resolved already is resolved again
     "restart"}        \* recover_pending_work runs

ASSUME TasksAssumption == Tasks \subseteq Int /\ NoTask \notin Tasks
ASSUME WorkersAssumption == NoWorker \notin Workers
ASSUME BoundsAssumption == {MaxAsks, MaxDeaths, MaxRestarts} \subseteq Nat
ASSUME EventsAssumption == Scenarios \subseteq SUBSET Events

VARIABLES
    status,    \* status[t]: the task row
    lease,     \* lease[t]: the worker whose claim set lease_expires_at; NoWorker
               \* when it is NULL
    lapsed,    \* the initiatives whose lease_expires_at is past
    asked,     \* asked[t]: the decisions ever raised for t
    open,      \* open[t]: those still pending
    offer,     \* offer[w]: what w was shown last
    work,      \* work[w]: what w is working on
    deaths,    \* workers that died so far
    restarts,  \* restarts so far
    happens    \* what may happen in this behaviour: one of Scenarios

rows == <<status, lease, lapsed>>
asks == <<asked, open>>
hands == <<offer, work>>
life == <<deaths, restarts, happens>>
vars == <<status, lease, lapsed, asked, open, offer, work, deaths, restarts, happens>>

Ended == {"done", "failed", "blocked"}
Statuses == {"queued", "running", "waiting_approval"} \cup Ended

SetStatus(t, s) == status' = [status EXCEPT ![t] = s]
LetGo(w) ==
    /\ work' = [work EXCEPT ![w] = NoTask]
    /\ UNCHANGED offer

\* Every call that ends a claim clears the lease.
EndClaim(t) ==
    /\ lease' = [lease EXCEPT ![t] = NoWorker]
    /\ lapsed' = lapsed \ {t}

Init ==
    /\ status = [t \in Tasks |-> "queued"]
    /\ lease = [t \in Tasks |-> NoWorker]
    /\ lapsed = {}
    /\ asked = [t \in Tasks |-> 0]
    /\ open = [t \in Tasks |-> 0]
    /\ offer = [w \in Workers |-> NoTask]
    /\ work = [w \in Workers |-> NoTask]
    /\ deaths = 0
    /\ restarts = 0
    /\ happens \in Scenarios

-----------------------------------------------------------------------------
(* A worker.                                                                *)

\* get_next_initiative: what is running comes first, and is somebody's already; a
\* worker takes up the oldest queued one only when nothing runs.
Look(w, t) ==
    /\ work[w] = NoTask
    /\ status[t] = "queued"
    /\ \A u \in Tasks : status[u] # "running" /\ (status[u] = "queued" => t <= u)
    /\ offer' = [offer EXCEPT ![w] = t]
    /\ UNCHANGED <<rows, asks, work, life>>

\* Mutated: the claim trusts what the worker was shown.
Claim_Unconditional(w) ==
    /\ offer[w] # NoTask
    /\ offer' = [offer EXCEPT ![w] = NoTask]
    /\ SetStatus(offer[w], "running")
    /\ lease' = [lease EXCEPT ![offer[w]] = w]
    /\ lapsed' = lapsed \ {offer[w]}
    /\ work' = [work EXCEPT ![w] = offer[w]]
    /\ UNCHANGED <<asks, life>>

\* claim_initiative: an UPDATE that matches the initiative only while it is queued.
Claim(w) ==
    /\ offer[w] # NoTask
    /\ offer' = [offer EXCEPT ![w] = NoTask]
    /\ IF status[offer[w]] = "queued"
       THEN /\ SetStatus(offer[w], "running")
            /\ lease' = [lease EXCEPT ![offer[w]] = w]
            /\ lapsed' = lapsed \ {offer[w]}
            /\ work' = [work EXCEPT ![w] = offer[w]]
       ELSE UNCHANGED <<rows, work>>
    /\ UNCHANGED <<asks, life>>

\* report_result with a terminal outcome.
Report(w, outcome) ==
    /\ work[w] # NoTask
    /\ SetStatus(work[w], outcome)
    /\ EndClaim(work[w])
    /\ LetGo(w)
    /\ UNCHANGED <<asks, life>>

\* report_result "needs_decision": the initiative parks, and the founder gets a
\* message, not a decision.
ReportNeedsDecision(w) ==
    /\ "needs_decision" \in happens
    /\ work[w] # NoTask
    /\ SetStatus(work[w], "waiting_approval")
    /\ EndClaim(work[w])
    /\ LetGo(w)
    /\ UNCHANGED <<asks, life>>

\* A decision is raised for the initiative, which parks on it.
Raise(w) ==
    /\ work[w] # NoTask
    /\ asked[work[w]] < MaxAsks
    /\ asked' = [asked EXCEPT ![work[w]] = @ + 1]
    /\ open' = [open EXCEPT ![work[w]] = @ + 1]
    /\ SetStatus(work[w], "waiting_approval")
    /\ EndClaim(work[w])
    /\ LetGo(w)
    /\ UNCHANGED life

RequestDecision(w) == Raise(w)

\* request_budget past what is left.  Within it the spend is cleared and nothing
\* changes.
RequestBudget(w) == Raise(w)

\* The worker dies.  It comes back with nothing in hand.
Die(w) ==
    /\ "worker_dies" \in happens
    /\ deaths < MaxDeaths
    /\ deaths' = deaths + 1
    /\ offer' = [offer EXCEPT ![w] = NoTask]
    /\ work' = [work EXCEPT ![w] = NoTask]
    /\ UNCHANGED <<rows, asks, restarts, happens>>

-----------------------------------------------------------------------------
(* GalaxiaOS.                                                               *)

\* Time passes the lease.
Lapse(t) ==
    /\ lease[t] # NoWorker /\ t \notin lapsed
    /\ "slow_worker" \in happens \/ work[lease[t]] # t
    /\ lapsed' = lapsed \cup {t}
    /\ UNCHANGED <<status, lease, asks, hands, life>>

\* Mutated: any leased initiative is offered again, its lease run out or not.
ReleaseExpired_Ageless(t) ==
    /\ status[t] = "running"
    /\ lease[t] # NoWorker
    /\ SetStatus(t, "queued")
    /\ EndClaim(t)
    /\ UNCHANGED <<asks, hands, life>>

\* Mutated: the lease is cleared, and the initiative not offered.
ReleaseExpired_NotOffered(t) ==
    /\ status[t] = "running"
    /\ lease[t] # NoWorker /\ t \in lapsed
    /\ EndClaim(t)
    /\ UNCHANGED <<status, asks, hands, life>>

\* reclaim_expired_initiatives, on its cron.
ReleaseExpired(t) ==
    /\ status[t] = "running"
    /\ lease[t] # NoWorker /\ t \in lapsed
    /\ SetStatus(t, "queued")
    /\ EndClaim(t)
    /\ UNCHANGED <<asks, hands, life>>

\* The founder resolves a decision: its initiative, parked or running, is queued.
ResolveDecision(t) ==
    /\ open[t] > 0
    /\ open' = [open EXCEPT ![t] = @ - 1]
    /\ SetStatus(t, IF status[t] \in {"waiting_approval", "running"}
                    THEN "queued" ELSE status[t])
    /\ UNCHANGED <<asked, lease, lapsed, hands, life>>

\* Resolving is not confined to what is pending.
ResolveAgain(t) ==
    /\ "stale_click" \in happens
    /\ asked[t] > open[t]
    /\ SetStatus(t, IF status[t] \in {"waiting_approval", "running"}
                    THEN "queued" ELSE status[t])
    /\ UNCHANGED <<asks, lease, lapsed, hands, life>>

\* The cron fails what has been parked for the grace period and never raised a
\* decision.
ReapParked(t) ==
    /\ status[t] = "waiting_approval"
    /\ asked[t] = 0
    /\ SetStatus(t, "failed")
    /\ UNCHANGED <<lease, lapsed, asks, hands, life>>

\* recover_pending_work, when GalaxiaOS's own worker starts: all that is running is
\* queued, whoever runs it, and keeps its lease.
Recover ==
    /\ "restart" \in happens
    /\ restarts < MaxRestarts
    /\ restarts' = restarts + 1
    /\ status' = [t \in Tasks |-> IF status[t] = "running" THEN "queued" ELSE status[t]]
    /\ UNCHANGED <<lease, lapsed, asks, hands, deaths, happens>>

\* What a worker can do with what it works on.
Close(w) ==
    \/ \E outcome \in Ended : Report(w, outcome)
    \/ ReportNeedsDecision(w)
    \/ RequestDecision(w) \/ RequestBudget(w)

Next ==
    \/ \E w \in Workers :
         \/ \E t \in Tasks : Look(w, t)
         \/ Claim(w) \/ Close(w) \/ Die(w)
    \/ \E t \in Tasks :
         \/ Lapse(t) \/ ReleaseExpired(t)
         \/ ResolveDecision(t) \/ ResolveAgain(t) \/ ReapParked(t)
    \/ Recover

Spec == Init /\ [][Next]_vars

\* A worker's agent comes back on its cadence, claims what it is shown and finishes
\* what it claimed unless it dies; time passes and the cron runs.  Nothing forces
\* the founder.
FairSpec ==
    /\ Spec
    /\ \A w \in Workers :
         /\ WF_vars(\E t \in Tasks : Look(w, t)) /\ WF_vars(Claim(w)) /\ WF_vars(Close(w))
    /\ \A t \in Tasks : WF_vars(Lapse(t)) /\ WF_vars(ReleaseExpired(t))

-----------------------------------------------------------------------------
(* Properties.                                                              *)

\* The variables stay within their types and bounds.
TypeOK ==
    /\ status \in [Tasks -> Statuses]
    /\ lease \in [Tasks -> Workers \cup {NoWorker}]
    /\ lapsed \subseteq Tasks
    /\ asked \in [Tasks -> 0 .. MaxAsks]
    /\ open \in [Tasks -> 0 .. MaxAsks]
    /\ offer \in [Workers -> Tasks \cup {NoTask}]
    /\ work \in [Workers -> Tasks \cup {NoTask}]
    /\ deaths \in 0 .. MaxDeaths
    /\ restarts \in 0 .. MaxRestarts
    /\ happens \in Scenarios

\* Workers report within their leases, GalaxiaOS's own worker stays up, and nobody
\* answers a decision twice.
InTime == happens \cap {"slow_worker", "restart", "stale_click"} = {}

\* In time, no two workers work on the same initiative (claim_initiative).
OneWorker ==
    InTime => \A v, w \in Workers : work[v] = work[w] /\ work[v] # NoTask => v = w

\* A claim that runs can always lapse: the claims, reports, restarts and
\* resolutions of however many workers never leave an initiative running without a
\* lease, which nothing would ever offer again (release_expired_claims).
RunningIsLeased == \A t \in Tasks : status[t] = "running" => lease[t] # NoWorker

\* What is parked has a decision the founder can resolve to have it offered again
\* (request_decision, request_budget), unless a worker just reported that it needs
\* one.
ParkedHasDecision ==
    InTime /\ "needs_decision" \notin happens =>
      \A t \in Tasks : status[t] = "waiting_approval" => open[t] > 0

\* In time, a terminal outcome is the last (report_result).
FinalIsFinal ==
    [][InTime => \A t \in Tasks : status[t] \in Ended => status'[t] = status[t]]_vars

\* A claim is taken back only once its lease has run out ...
KeepsClaims ==
    \A t \in Tasks : status[t] = "running" /\ status'[t] = "queued" => t \in lapsed

\* ... in time (release_expired_claims) ...
ClaimIsKept == [][InTime => KeepsClaims]_vars

\* In time, the leases, offers and decisions are a way to hand every initiative to
\* one worker at a time, from its offer to its end: each call is a step of Claims.
C == INSTANCE Claims WITH Closings <- Ended \cup {"waiting_approval"}, Refusals <- {}
ServesClaims == (InTime => C!Init) /\ [][InTime => [C!Next]_(C!claimVars)]_vars

\* What is offered or claimed ends or is put to the founder, whoever dies with it:
\* nobody works on it for ever, and nothing older holds it back for ever, while the
\* founder does not answer the same decision for ever.
OfferedEnds ==
    "stale_click" \notin happens =>
      \A t \in Tasks :
        status[t] \in {"queued", "running"}
          ~> status[t] \in Ended \cup {"waiting_approval"}
=============================================================================
