-------------------------- MODULE PullWorkerProofs --------------------------
(***************************************************************************)
(* Theorems about PullWorker for every set of initiatives and workers.        *)
(***************************************************************************)
EXTENDS PullWorker, TLAPS

-----------------------------------------------------------------------------
(* Types and leases, whatever happens.                                       *)

\* TypeOK bounds the pending decisions only because each of them was raised.
Raised == \A t \in Tasks : open[t] <= asked[t]

LeaseInv == TypeOK /\ Raised /\ RunningIsLeased

LEMMA LeaseInit == Init => LeaseInv
BY BoundsAssumption
   DEF Init, LeaseInv, TypeOK, Raised, RunningIsLeased, Statuses, Ended

\* What any call that parks or ends a worker's initiative does.
LEMMA LetGoKeeps ==
  ASSUME LeaseInv, NEW w \in Workers, work[w] \in Tasks,
         NEW s \in Statuses \ {"running"},
         SetStatus(work[w], s), EndClaim(work[w]), LetGo(w)
  PROVE  /\ status' \in [Tasks -> Statuses]
         /\ lease' \in [Tasks -> Workers \cup {NoWorker}]
         /\ lapsed' \subseteq Tasks
         /\ offer' \in [Workers -> Tasks \cup {NoTask}]
         /\ work' \in [Workers -> Tasks \cup {NoTask}]
         /\ RunningIsLeased'
BY DEF LeaseInv, TypeOK, RunningIsLeased, SetStatus, EndClaim, LetGo

LEMMA RaiseKeeps ==
  ASSUME LeaseInv, NEW w \in Workers, Raise(w)
  PROVE  LeaseInv'
<1>1. work[w] \in Tasks
  BY DEF LeaseInv, TypeOK, Raise
<1>2. "waiting_approval" \in Statuses \ {"running"}
  BY DEF Statuses
<1>3. SetStatus(work[w], "waiting_approval") /\ EndClaim(work[w]) /\ LetGo(w)
  BY DEF Raise
<1>4. /\ asked' \in [Tasks -> 0 .. MaxAsks]
      /\ open' \in [Tasks -> 0 .. MaxAsks]
      /\ Raised'
  BY <1>1, BoundsAssumption DEF LeaseInv, TypeOK, Raised, Raise
<1>5. UNCHANGED life
  BY DEF Raise
<1> QED BY <1>1, <1>2, <1>3, <1>4, <1>5, LetGoKeeps DEF LeaseInv, TypeOK, life

LEMMA LeaseStep == LeaseInv /\ [Next]_vars => LeaseInv'
<1> SUFFICES ASSUME LeaseInv, [Next]_vars PROVE LeaseInv'
  OBVIOUS
<1> USE DEF LeaseInv, rows, asks, hands, life
<1>s. /\ {"queued", "running", "waiting_approval"} \cup Ended \subseteq Statuses
      /\ Ended \subseteq Statuses \ {"running"}
      /\ "waiting_approval" \in Statuses \ {"running"}
      /\ "failed" \in Ended
  BY DEF Statuses, Ended
<1>1. ASSUME NEW w \in Workers, NEW t \in Tasks, Look(w, t) PROVE LeaseInv'
  BY <1>1 DEF TypeOK, Raised, RunningIsLeased, Look
<1>2. ASSUME NEW w \in Workers, Claim(w) PROVE LeaseInv'
  <2>1. offer[w] \in Tasks
    BY <1>2 DEF TypeOK, Claim
  <2>2. CASE status[offer[w]] = "queued"
    BY <1>2, <1>s, <2>1, <2>2, WorkersAssumption
       DEF TypeOK, Raised, RunningIsLeased, Claim, SetStatus
  <2>3. CASE status[offer[w]] # "queued"
    BY <1>2, <2>3 DEF TypeOK, Raised, RunningIsLeased, Claim
  <2> QED BY <2>2, <2>3
<1>3. ASSUME NEW w \in Workers, NEW outcome \in Ended, Report(w, outcome) PROVE LeaseInv'
  <2>1. work[w] \in Tasks
    BY <1>3 DEF TypeOK, Report
  <2> QED BY <1>3, <1>s, <2>1, LetGoKeeps DEF TypeOK, Raised, Report
<1>4. ASSUME NEW w \in Workers, ReportNeedsDecision(w) PROVE LeaseInv'
  <2>1. work[w] \in Tasks
    BY <1>4 DEF TypeOK, ReportNeedsDecision
  <2> QED BY <1>4, <1>s, <2>1, LetGoKeeps DEF TypeOK, Raised, ReportNeedsDecision
<1>5. ASSUME NEW w \in Workers, RequestDecision(w) \/ RequestBudget(w) PROVE LeaseInv'
  BY <1>5, RaiseKeeps DEF RequestDecision, RequestBudget
<1>6. ASSUME NEW w \in Workers, Die(w) PROVE LeaseInv'
  BY <1>6, BoundsAssumption DEF TypeOK, Raised, RunningIsLeased, Die
<1>7. ASSUME NEW t \in Tasks, Lapse(t) PROVE LeaseInv'
  BY <1>7 DEF TypeOK, Raised, RunningIsLeased, Lapse
<1>8. ASSUME NEW t \in Tasks, ReleaseExpired(t) PROVE LeaseInv'
  BY <1>8, <1>s DEF TypeOK, Raised, RunningIsLeased, ReleaseExpired, SetStatus, EndClaim
<1>9. ASSUME NEW t \in Tasks, ResolveDecision(t) PROVE LeaseInv'
  <2>1. open' \in [Tasks -> 0 .. MaxAsks] /\ Raised'
    BY <1>9, BoundsAssumption DEF TypeOK, Raised, ResolveDecision
  <2> QED BY <1>9, <1>s, <2>1 DEF TypeOK, RunningIsLeased, ResolveDecision, SetStatus
<1>10. ASSUME NEW t \in Tasks, ResolveAgain(t) PROVE LeaseInv'
  BY <1>10, <1>s DEF TypeOK, Raised, RunningIsLeased, ResolveAgain, SetStatus
<1>11. ASSUME NEW t \in Tasks, ReapParked(t) PROVE LeaseInv'
  BY <1>11, <1>s DEF TypeOK, Raised, RunningIsLeased, ReapParked, SetStatus
<1>12. ASSUME Recover PROVE LeaseInv'
  BY <1>12, <1>s, BoundsAssumption DEF TypeOK, Raised, RunningIsLeased, Recover
<1>13. ASSUME UNCHANGED vars PROVE LeaseInv'
  BY <1>13 DEF vars, TypeOK, Raised, RunningIsLeased
<1> QED BY <1>1, <1>2, <1>3, <1>4, <1>5, <1>6, <1>7, <1>8, <1>9, <1>10, <1>11, <1>12, <1>13
        DEF Next, Close

LEMMA LeaseHolds == Spec => []LeaseInv
BY LeaseInit, LeaseStep, PTL DEF Spec

\* The variables of the pull surface keep their types and bounds.
THEOREM TypeCorrect == Spec => []TypeOK
<1>1. LeaseInv => TypeOK
  BY DEF LeaseInv
<1> QED BY <1>1, LeaseHolds, PTL

\* However many workers claim, report late, die or are resolved under, an initiative
\* that runs has a lease, so the cron can offer it again (release_expired_claims).
THEOREM RunningLeased == Spec => []RunningIsLeased
<1>1. LeaseInv => RunningIsLeased
  BY DEF LeaseInv
<1> QED BY <1>1, LeaseHolds, PTL

-----------------------------------------------------------------------------
(* Claims, while every worker reports within its lease, GalaxiaOS's own worker  *)
(* does not restart, and a decision is resolved once.                        *)

\* What may happen in a behaviour is settled at its start.
LEMMA Settled == [Next]_vars => happens' = happens
BY DEF Next, vars, rows, asks, hands, life, Look, Claim, Close, Report,
       ReportNeedsDecision, RequestDecision, RequestBudget, Raise, Die, Lapse,
       ReleaseExpired, ResolveDecision, ResolveAgain, ReapParked, Recover

\* A worker works on what it has claimed: the row runs under its lease.
Held ==
    \A w \in Workers :
      work[w] # NoTask =>
        /\ status[work[w]] = "running"
        /\ lease[work[w]] = w
        /\ work[w] \notin lapsed

\* A decision that is pending has its initiative parked, and is the only one.
Parking ==
    \A t \in Tasks : open[t] > 0 => open[t] = 1 /\ status[t] = "waiting_approval"

ClaimInv == LeaseInv /\ Held /\ Parking

LEMMA ClaimInit == Init => ClaimInv
BY LeaseInit DEF Init, ClaimInv, Held, Parking

\* What any call that parks or ends a worker's initiative does to the others: they
\* keep theirs.
LEMMA LetGoHeld ==
  ASSUME ClaimInv, NEW w \in Workers, work[w] # NoTask, NEW s \in Statuses,
         SetStatus(work[w], s), EndClaim(work[w]), LetGo(w)
  PROVE  Held'
<1>1. work[w] \in Tasks /\ lease[work[w]] = w
  BY DEF ClaimInv, LeaseInv, TypeOK, Held
<1> SUFFICES ASSUME NEW v \in Workers, work'[v] # NoTask
             PROVE  /\ status'[work'[v]] = "running"
                    /\ lease'[work'[v]] = v
                    /\ work'[v] \notin lapsed'
  BY DEF Held
<1>2. v # w /\ work'[v] = work[v]
  BY DEF ClaimInv, LeaseInv, TypeOK, LetGo
<1>3. /\ status[work[v]] = "running" /\ lease[work[v]] = v /\ work[v] \notin lapsed
      /\ work[v] \in Tasks
  BY <1>2 DEF ClaimInv, LeaseInv, TypeOK, Held
<1>4. work[v] # work[w]
  BY <1>1, <1>2, <1>3
<1> QED BY <1>1, <1>2, <1>3, <1>4 DEF ClaimInv, LeaseInv, TypeOK, SetStatus, EndClaim

LEMMA RaiseHeld ==
  ASSUME ClaimInv, NEW w \in Workers, Raise(w)
  PROVE  Held' /\ Parking'
<1>1. "waiting_approval" \in Statuses
  BY DEF Statuses
<1>2. Held'
  BY <1>1, LetGoHeld DEF Raise
<1>3. work[w] \in Tasks /\ status[work[w]] = "running"
  BY DEF ClaimInv, LeaseInv, TypeOK, Held, Raise
<1>4. open[work[w]] = 0
  BY <1>3 DEF ClaimInv, LeaseInv, TypeOK, Parking
<1>5. Parking'
  BY <1>3, <1>4 DEF ClaimInv, LeaseInv, TypeOK, Parking, Raise, SetStatus
<1> QED BY <1>2, <1>5

LEMMA ClaimStep ==
  ASSUME InTime, ClaimInv, [Next]_vars
  PROVE  ClaimInv'
<1> SUFFICES Held' /\ Parking'
  BY LeaseStep DEF ClaimInv
<1> USE DEF ClaimInv, LeaseInv, rows, asks, hands, life
<1>s. Ended \subseteq Statuses \ {"running", "waiting_approval"} /\ "waiting_approval" \in Statuses
  BY DEF Statuses, Ended
<1>1. ASSUME NEW w \in Workers, NEW t \in Tasks, Look(w, t) PROVE Held' /\ Parking'
  BY <1>1 DEF TypeOK, Held, Parking, Look
<1>2. ASSUME NEW w \in Workers, Claim(w) PROVE Held' /\ Parking'
  <2>1. offer[w] \in Tasks
    BY <1>2 DEF TypeOK, Claim
  <2>2. CASE status[offer[w]] = "queued"
    <3>1. \A v \in Workers : work[v] # offer[w]
      BY <2>1, <2>2, TasksAssumption DEF Held
    <3>2. /\ status' = [status EXCEPT ![offer[w]] = "running"]
          /\ lease' = [lease EXCEPT ![offer[w]] = w]
          /\ lapsed' = lapsed \ {offer[w]}
          /\ work' = [work EXCEPT ![w] = offer[w]]
          /\ UNCHANGED open
      BY <1>2, <2>2 DEF Claim, SetStatus
    <3>3. Held'
      BY <2>1, <3>1, <3>2 DEF TypeOK, Held
    <3>4. Parking'
      BY <2>1, <2>2, <3>2 DEF TypeOK, Parking
    <3> QED BY <3>3, <3>4
  <2>3. CASE status[offer[w]] # "queued"
    BY <1>2, <2>3 DEF TypeOK, Held, Parking, Claim
  <2> QED BY <2>2, <2>3
<1>3. ASSUME NEW w \in Workers, NEW outcome \in Ended, Report(w, outcome)
      PROVE  Held' /\ Parking'
  <2>1. Held'
    BY <1>3, <1>s, LetGoHeld DEF Report
  <2>2. work[w] \in Tasks /\ status[work[w]] = "running"
    BY <1>3 DEF TypeOK, Held, Report
  <2>3. Parking'
    BY <1>3, <2>2 DEF TypeOK, Parking, Report, SetStatus
  <2> QED BY <2>1, <2>3
<1>4. ASSUME NEW w \in Workers, ReportNeedsDecision(w) PROVE Held' /\ Parking'
  <2>1. Held'
    BY <1>4, <1>s, LetGoHeld DEF ReportNeedsDecision
  <2>2. work[w] \in Tasks
    BY <1>4 DEF TypeOK, ReportNeedsDecision
  <2>3. Parking'
    BY <1>4, <2>2 DEF TypeOK, Parking, ReportNeedsDecision, SetStatus
  <2> QED BY <2>1, <2>3
<1>5. ASSUME NEW w \in Workers, RequestDecision(w) \/ RequestBudget(w)
      PROVE  Held' /\ Parking'
  BY <1>5, RaiseHeld DEF RequestDecision, RequestBudget
<1>6. ASSUME NEW w \in Workers, Die(w) PROVE Held' /\ Parking'
  BY <1>6 DEF TypeOK, Held, Parking, Die
<1>7. ASSUME NEW t \in Tasks, Lapse(t) PROVE Held' /\ Parking'
  <2>1. work[lease[t]] # t
    BY <1>7 DEF Lapse, InTime
  <2>2. \A v \in Workers : work[v] = t => lease[t] = v
    BY TasksAssumption DEF Held
  <2>3. \A v \in Workers : work[v] # t
    BY <2>1, <2>2
  <2> QED BY <1>7, <2>3 DEF TypeOK, Held, Parking, Lapse
<1>8. ASSUME NEW t \in Tasks, ReleaseExpired(t) PROVE Held' /\ Parking'
  <2>1. \A v \in Workers : work[v] # t
    BY <1>8, TasksAssumption DEF Held, ReleaseExpired
  <2> QED BY <1>8, <2>1 DEF TypeOK, Held, Parking, ReleaseExpired, SetStatus, EndClaim
<1>9. ASSUME NEW t \in Tasks, ResolveDecision(t) PROVE Held' /\ Parking'
  <2>1. open[t] = 1 /\ status[t] = "waiting_approval"
    BY <1>9 DEF ResolveDecision, Parking
  <2>2. \A v \in Workers : work[v] # t
    BY <2>1, TasksAssumption DEF Held
  <2> QED BY <1>9, <2>1, <2>2 DEF TypeOK, Held, Parking, ResolveDecision, SetStatus
<1>10. ASSUME NEW t \in Tasks, ResolveAgain(t) PROVE FALSE
  BY <1>10 DEF ResolveAgain, InTime
<1>11. ASSUME NEW t \in Tasks, ReapParked(t) PROVE Held' /\ Parking'
  <2>1. \A v \in Workers : work[v] # t
    BY <1>11, TasksAssumption DEF Held, ReapParked
  <2>2. open[t] = 0
    BY <1>11 DEF TypeOK, Raised, ReapParked
  <2> QED BY <1>11, <2>1, <2>2 DEF TypeOK, Held, Parking, ReapParked, SetStatus
<1>12. ASSUME Recover PROVE FALSE
  BY <1>12 DEF Recover, InTime
<1>13. ASSUME UNCHANGED vars PROVE Held' /\ Parking'
  BY <1>13 DEF vars, Held, Parking
<1> QED BY <1>1, <1>2, <1>3, <1>4, <1>5, <1>6, <1>7, <1>8, <1>9, <1>10, <1>11, <1>12, <1>13
        DEF Next, Close

LEMMA ClaimHolds == Spec => [](InTime => ClaimInv)
<1>1. (InTime => ClaimInv) /\ [Next]_vars => (InTime => ClaimInv)'
  BY ClaimStep, Settled DEF InTime
<1> QED BY <1>1, ClaimInit, PTL DEF Spec

\* Whoever dies, an initiative is one worker's at a time: the conditional claim and
\* the lease are enough while workers report within it (claim_initiative).
THEOREM OneWorkerInTime == Spec => []OneWorker
<1>1. (InTime => ClaimInv) => OneWorker
  BY DEF ClaimInv, Held, OneWorker
<1> QED BY <1>1, ClaimHolds, PTL

\* What a step may change of a row, by what the row is in.
LEMMA RowStep ==
  ASSUME InTime, ClaimInv, [Next]_vars, NEW t \in Tasks
  PROVE  /\ status[t] \in Ended => status'[t] = status[t]
         /\ status[t] = "running" /\ status'[t] = "queued" => t \in lapsed
<1> USE DEF ClaimInv, LeaseInv, rows, asks, hands, life
<1> DEFINE Goal == /\ status[t] \in Ended => status'[t] = status[t]
                   /\ status[t] = "running" /\ status'[t] = "queued" => t \in lapsed
<1>s. /\ "running" \notin Ended /\ "queued" \notin Ended /\ "waiting_approval" \notin Ended
      /\ "running" # "queued"
  BY DEF Ended
<1>1. ASSUME UNCHANGED status PROVE Goal
  BY <1>1, <1>s
<1>2. ASSUME NEW w \in Workers, Claim(w) PROVE Goal
  BY <1>2, <1>s DEF TypeOK, Claim, SetStatus
<1>3. ASSUME NEW w \in Workers, NEW s \in Ended \cup {"waiting_approval"},
             work[w] # NoTask, SetStatus(work[w], s)
      PROVE  Goal
  <2>1. work[w] \in Tasks /\ status[work[w]] = "running"
    BY <1>3 DEF TypeOK, Held
  <2> QED BY <1>3, <1>s, <2>1 DEF TypeOK, SetStatus
<1>4. ASSUME NEW w \in Workers, Close(w) PROVE Goal
  BY <1>3, <1>4 DEF Close, Report, ReportNeedsDecision, RequestDecision, RequestBudget, Raise
<1>5. ASSUME NEW u \in Tasks, ReleaseExpired(u) PROVE Goal
  BY <1>5, <1>s DEF TypeOK, ReleaseExpired, SetStatus
<1>6. ASSUME NEW u \in Tasks, ResolveDecision(u) PROVE Goal
  <2>1. status[u] = "waiting_approval"
    BY <1>6 DEF ResolveDecision, Parking
  <2> QED BY <1>6, <1>s, <2>1 DEF TypeOK, ResolveDecision, SetStatus
<1>7. ASSUME NEW u \in Tasks, ReapParked(u) PROVE Goal
  BY <1>7, <1>s DEF TypeOK, ReapParked, SetStatus
<1>8. \A u \in Tasks : ~ ResolveAgain(u)
  BY DEF ResolveAgain, InTime
<1>9. ~ Recover
  BY DEF Recover, InTime
<1>10. ASSUME NEW w \in Workers, Die(w) PROVE Goal
  BY <1>1, <1>10 DEF Die
<1>11. ASSUME NEW w \in Workers, NEW u \in Tasks, Look(w, u) PROVE Goal
  BY <1>1, <1>11 DEF Look
<1>12. ASSUME NEW u \in Tasks, Lapse(u) PROVE Goal
  BY <1>1, <1>12 DEF Lapse
<1>13. ASSUME UNCHANGED vars PROVE Goal
  BY <1>1, <1>13 DEF vars
<1> QED BY <1>2, <1>4, <1>5, <1>6, <1>7, <1>8, <1>9, <1>10, <1>11, <1>12, <1>13 DEF Next

\* A terminal outcome is the last, while workers report within their leases
\* (report_result checks neither the row's status nor whose claim it is).
THEOREM TerminalIsFinal == Spec => FinalIsFinal
<1>1. (InTime => ClaimInv) /\ [Next]_vars =>
        [InTime => \A t \in Tasks : status[t] \in Ended => status'[t] = status[t]]_vars
  BY RowStep
<1> QED BY <1>1, ClaimHolds, PTL DEF Spec, FinalIsFinal

\* A claim is taken back only by the cron, and only after its lease has run out.
THEOREM ClaimsAreKept == Spec => ClaimIsKept
<1>1. (InTime => ClaimInv) /\ [Next]_vars => [InTime => KeepsClaims]_vars
  BY RowStep DEF KeepsClaims
<1> QED BY <1>1, ClaimHolds, PTL DEF Spec, ClaimIsKept

\* While no worker reports "needs_decision", what is parked has a decision to resolve
\* (request_decision, request_budget).
THEOREM ParkedIsResolvable == Spec => []ParkedHasDecision
<1>1. Init => ParkedHasDecision
  BY DEF Init, ParkedHasDecision
<1>2. (InTime => ClaimInv) /\ ParkedHasDecision /\ [Next]_vars => ParkedHasDecision'
  <2> SUFFICES ASSUME InTime, "needs_decision" \notin happens, ClaimInv,
                      ParkedHasDecision, [Next]_vars
               PROVE  ParkedHasDecision'
    BY Settled DEF InTime, ParkedHasDecision
  <2> USE DEF ClaimInv, LeaseInv, ParkedHasDecision, rows, asks, hands, life
  <2>s. "waiting_approval" \notin Ended \cup {"queued", "running"}
    BY DEF Ended
  <2>1. ASSUME UNCHANGED <<status, open>> PROVE ParkedHasDecision'
    BY <2>1
  <2>2. ASSUME NEW w \in Workers, Claim(w) PROVE ParkedHasDecision'
    BY <2>2, <2>s DEF TypeOK, Claim, SetStatus
  <2>3. ASSUME NEW w \in Workers, NEW outcome \in Ended, Report(w, outcome)
        PROVE  ParkedHasDecision'
    BY <2>3, <2>s DEF TypeOK, Report, SetStatus
  <2>4. \A w \in Workers : ~ ReportNeedsDecision(w)
    BY DEF ReportNeedsDecision
  <2>5. ASSUME NEW w \in Workers, Raise(w) PROVE ParkedHasDecision'
    BY <2>5 DEF TypeOK, Raise, SetStatus
  <2>6. ASSUME NEW w \in Workers, Close(w) PROVE ParkedHasDecision'
    BY <2>3, <2>4, <2>5, <2>6 DEF Close, RequestDecision, RequestBudget
  <2>7. ASSUME NEW t \in Tasks, ReleaseExpired(t) PROVE ParkedHasDecision'
    BY <2>7, <2>s DEF TypeOK, ReleaseExpired, SetStatus
  <2>8. ASSUME NEW t \in Tasks, ResolveDecision(t) PROVE ParkedHasDecision'
    <3>1. status'[t] = "queued"
      BY <2>8 DEF TypeOK, Parking, ResolveDecision, SetStatus
    <3> QED BY <2>8, <2>s, <3>1 DEF TypeOK, ResolveDecision, SetStatus
  <2>9. \A t \in Tasks : ~ ReapParked(t)
    BY DEF TypeOK, Raised, ReapParked
  <2>10. /\ \A t \in Tasks : ~ ResolveAgain(t)
         /\ ~ Recover
    BY DEF ResolveAgain, Recover, InTime
  <2>11. ASSUME NEW w \in Workers, NEW t \in Tasks, Look(w, t) PROVE ParkedHasDecision'
    BY <2>1, <2>11 DEF Look
  <2>12. ASSUME NEW w \in Workers, Die(w) PROVE ParkedHasDecision'
    BY <2>1, <2>12 DEF Die
  <2>13. ASSUME NEW t \in Tasks, Lapse(t) PROVE ParkedHasDecision'
    BY <2>1, <2>13 DEF Lapse
  <2>14. ASSUME UNCHANGED vars PROVE ParkedHasDecision'
    BY <2>1, <2>14 DEF vars
  <2> QED BY <2>2, <2>6, <2>7, <2>8, <2>9, <2>10, <2>11, <2>12, <2>13, <2>14 DEF Next
<1> QED BY <1>1, <1>2, ClaimHolds, PTL DEF Spec

-----------------------------------------------------------------------------
(* The pull surface, in time, is Claims.                                     *)

\* A worker looks for the next initiative only with nothing in hand, and has something
\* in hand only once it is done with what it was shown.
Idle == \A w \in Workers : offer[w] # NoTask => work[w] = NoTask

LEMMA IdleStep ==
  ASSUME TypeOK, Idle, [Next]_vars
  PROVE  Idle'
<1> USE DEF TypeOK, Idle, rows, asks, hands, life
<1>1. ASSUME NEW w \in Workers, NEW t \in Tasks, Look(w, t) PROVE Idle'
  BY <1>1 DEF Look
<1>2. ASSUME NEW w \in Workers, Claim(w) PROVE Idle'
  BY <1>2 DEF Claim
<1>3. ASSUME NEW w \in Workers, LetGo(w) PROVE Idle'
  BY <1>3 DEF LetGo
<1>4. ASSUME NEW w \in Workers, Close(w) PROVE Idle'
  BY <1>3, <1>4 DEF Close, Report, ReportNeedsDecision, RequestDecision, RequestBudget, Raise
<1>5. ASSUME NEW w \in Workers, Die(w) PROVE Idle'
  BY <1>5 DEF Die
<1>6. ASSUME UNCHANGED hands PROVE Idle'
  BY <1>6
<1>7. ASSUME NEW t \in Tasks,
             \/ Lapse(t) \/ ReleaseExpired(t)
             \/ ResolveDecision(t) \/ ResolveAgain(t) \/ ReapParked(t)
      PROVE  Idle'
  BY <1>6, <1>7 DEF Lapse, ReleaseExpired, ResolveDecision, ResolveAgain, ReapParked
<1>8. ASSUME Recover PROVE Idle'
  BY <1>6, <1>8 DEF Recover
<1>9. ASSUME UNCHANGED vars PROVE Idle'
  BY <1>6, <1>9 DEF vars
<1> QED BY <1>1, <1>2, <1>4, <1>5, <1>7, <1>8, <1>9 DEF Next

LEMMA IdleHolds == Spec => []Idle
<1>1. Init => Idle
  BY DEF Init, Idle
<1>2. LeaseInv /\ Idle /\ [Next]_vars => Idle'
  BY IdleStep DEF LeaseInv
<1> QED BY <1>1, <1>2, LeaseHolds, PTL DEF Spec

\* Whatever ends a worker's claim gives the initiative back.
LEMMA LetGoGivesBack ==
  ASSUME ClaimInv, NEW w \in Workers, work[w] # NoTask,
         NEW s \in Ended \cup {"waiting_approval"}, SetStatus(work[w], s), LetGo(w)
  PROVE  C!Next
<1>1. work[w] \in Tasks /\ status[work[w]] = "running"
  BY DEF ClaimInv, LeaseInv, TypeOK, Held
<1>2. C!GiveBack(w, work[w], s)
  BY <1>1 DEF SetStatus, LetGo, C!GiveBack, C!Move, C!Empty
<1> QED BY <1>1, <1>2 DEF C!Next

LEMMA ServesStep ==
  ASSUME InTime, ClaimInv, Idle, [Next]_vars
  PROVE  [C!Next]_(C!claimVars)
<1> DEFINE Goal == C!Next \/ UNCHANGED C!claimVars
<1> SUFFICES Goal
  OBVIOUS
<1> USE DEF ClaimInv, LeaseInv, rows, asks, hands, life
<1>1. ASSUME UNCHANGED <<status, work>> PROVE Goal
  BY <1>1 DEF C!claimVars
<1>2. ASSUME NEW w \in Workers, Claim(w) PROVE Goal
  <2>1. offer[w] \in Tasks
    BY <1>2 DEF TypeOK, Claim
  <2>2. CASE status[offer[w]] = "queued"
    <3>1. \A v \in Workers : work[v] # offer[w]
      BY <2>1, <2>2, TasksAssumption DEF Held
    <3>2. work[w] = NoTask
      BY <1>2 DEF Claim, Idle
    <3>3. C!Take(w, offer[w])
      BY <1>2, <2>2, <3>1, <3>2 DEF Claim, SetStatus, C!Take, C!Move, C!Untaken
    <3> QED BY <2>1, <3>3 DEF C!Next
  <2>3. CASE status[offer[w]] # "queued"
    BY <1>1, <1>2, <2>3 DEF Claim
  <2> QED BY <2>2, <2>3
<1>3. ASSUME NEW w \in Workers, Close(w) PROVE Goal
  BY <1>3, LetGoGivesBack
     DEF Close, Report, ReportNeedsDecision, RequestDecision, RequestBudget, Raise
<1>4. ASSUME NEW w \in Workers, Die(w) PROVE Goal
  <2>1. C!Forget(w)
    BY <1>4 DEF Die, C!Forget, C!Empty
  <2> QED BY <2>1 DEF C!Next
<1>5. ASSUME NEW t \in Tasks, ReleaseExpired(t) PROVE Goal
  <2>1. \A v \in Workers : work[v] # t
    BY <1>5, TasksAssumption DEF Held, ReleaseExpired
  <2>2. C!TakeBack(t)
    BY <1>5, <2>1 DEF ReleaseExpired, SetStatus, C!TakeBack, C!Move, C!Untaken
  <2> QED BY <2>2 DEF C!Next
<1>6. ASSUME NEW t \in Tasks, ResolveDecision(t) PROVE Goal
  <2>1. status[t] = "waiting_approval"
    BY <1>6 DEF ResolveDecision, Parking
  <2>2. \A v \in Workers : work[v] # t
    BY <2>1, TasksAssumption DEF Held
  <2>3. C!Unpark(t, "queued")
    BY <1>6, <2>1, <2>2 DEF ResolveDecision, SetStatus, C!Unpark, C!Move, C!Untaken
  <2> QED BY <2>3 DEF C!Next
<1>7. ASSUME NEW t \in Tasks, ReapParked(t) PROVE Goal
  <2>1. \A v \in Workers : work[v] # t
    BY <1>7, TasksAssumption DEF Held, ReapParked
  <2>2. C!Unpark(t, "failed")
    BY <1>7, <2>1 DEF ReapParked, SetStatus, C!Unpark, C!Move, C!Untaken
  <2> QED BY <2>2 DEF C!Next
<1>8. /\ \A t \in Tasks : ~ ResolveAgain(t)
      /\ ~ Recover
  BY DEF ResolveAgain, Recover, InTime
<1>9. ASSUME NEW w \in Workers, NEW t \in Tasks, Look(w, t) PROVE Goal
  BY <1>1, <1>9 DEF Look
<1>10. ASSUME NEW t \in Tasks, Lapse(t) PROVE Goal
  BY <1>1, <1>10 DEF Lapse
<1>11. ASSUME UNCHANGED vars PROVE Goal
  BY <1>1, <1>11 DEF vars
<1> QED BY <1>2, <1>3, <1>4, <1>5, <1>6, <1>7, <1>8, <1>9, <1>10, <1>11 DEF Next

\* In time, every call of every worker, of the founder and of the cron is a step of
\* Claims or none: the conditional claim, its lease and the parking are together what
\* keeps an initiative one worker's from its offer to its end (business_function.py).
THEOREM PullServesClaims == Spec => ServesClaims
<1>1. Init => (InTime => C!Init)
  BY DEF Init, C!Init
<1>2. (InTime => ClaimInv) /\ Idle /\ [Next]_vars => [InTime => [C!Next]_(C!claimVars)]_vars
  BY ServesStep
<1> QED BY <1>1, <1>2, ClaimHolds, IdleHolds, PTL DEF Spec, ServesClaims
=============================================================================
