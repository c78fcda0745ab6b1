------------------------- MODULE TaskDispatchProofs -------------------------
(***************************************************************************)
(* Theorems about TaskDispatch for every set of tasks, decisions, handlers    *)
(* and job slots.                                                            *)
(***************************************************************************)
EXTENDS TaskDispatch, FiniteSetTheorems, TLAPS

LEMMA Cards == \A t \in Tasks : Cardinality(Executing(t)) \in Nat
<1> SUFFICES ASSUME NEW t \in Tasks PROVE Cardinality(Executing(t)) \in Nat
  OBVIOUS
<1>1. Executing(t) \subseteq Workers
  BY DEF Executing
<1> QED BY <1>1, WorkersAssumption, FS_Subset, FS_CardinalityType

LEMMA Processing == \A does \in Kinds : By(does) \in Processes
BY DEF By, Processes

TxRecords ==
    [at : TxStages, does : Kinds, task : Tasks \cup {NoTask},
     about : SUBSET Decisions, row : BOOLEAN]

\* The transactions keep their types, and an open one has a task.
TxType ==
    /\ tx \in [Handlers -> TxRecords]
    /\ \A h \in Handlers : tx[h].task = NoTask <=> tx[h].at = "idle"

LEMMA NoTxType == NoTx \in TxRecords
BY DEF NoTx, TxRecords, TxStages, Kinds

\* A transaction's next step, and its end.
LEMMA GoesTo ==
  ASSUME TypeOK, NEW h \in Handlers, NEW s \in TxStages \ {"idle"}, tx[h].at # "idle",
         Goes(h, s)
  PROVE  /\ TxType'
         /\ tx'[h].at = s /\ tx'[h].task = tx[h].task /\ tx'[h].does = tx[h].does
         /\ tx'[h].about = tx[h].about /\ tx'[h].row = tx[h].row
         /\ \A g \in Handlers \ {h} : tx'[g] = tx[g]
<1>1. tx \in [Handlers -> TxRecords]
  BY DEF TypeOK, TxRecords
<1>2. tx' = [tx EXCEPT ![h] = [tx[h] EXCEPT !.at = s]]
  BY DEF Goes
<1>3. tx'[h] = [tx[h] EXCEPT !.at = s] /\ \A g \in Handlers \ {h} : tx'[g] = tx[g]
  BY <1>1, <1>2
<1>4. /\ tx'[h].at = s /\ tx'[h].task = tx[h].task /\ tx'[h].does = tx[h].does
      /\ tx'[h].about = tx[h].about /\ tx'[h].row = tx[h].row
      /\ tx'[h] \in TxRecords
  BY <1>1, <1>3 DEF TxRecords
<1>5. tx' \in [Handlers -> TxRecords]
  BY <1>1, <1>2, <1>4
<1>6. \A g \in Handlers : tx'[g].task = NoTask <=> tx'[g].at = "idle"
  BY <1>3, <1>4 DEF TypeOK
<1> QED BY <1>3, <1>4, <1>5, <1>6 DEF TxType

LEMMA EndsTx ==
  ASSUME TypeOK, NEW h \in Handlers, End(h)
  PROVE  TxType' /\ tx'[h] = NoTx /\ \A g \in Handlers \ {h} : tx'[g] = tx[g]
<1>1. tx \in [Handlers -> TxRecords]
  BY DEF TypeOK, TxRecords
<1>2. tx'[h] = NoTx /\ \A g \in Handlers \ {h} : tx'[g] = tx[g]
  BY <1>1 DEF End
<1>3. tx' \in [Handlers -> TxRecords]
  BY <1>1, NoTxType DEF End
<1>4. \A g \in Handlers : tx'[g].task = NoTask <=> tx'[g].at = "idle"
  BY <1>2 DEF TypeOK, NoTx
<1> QED BY <1>2, <1>3, <1>4 DEF TxType

\* A handler opens a transaction about task t.
Opens(h, t) ==
    \/ \E d \in Decisions : ReadDecision(h, t, d)
    \/ \E does \in {"post", "tell", "expire"} : ReadWait(h, t, does)
    \/ ReadParked(h, t)

LEMMA OpensBegins ==
  ASSUME NEW h \in Handlers, NEW t \in Tasks, Opens(h, t)
  PROVE  \E does \in Kinds, about \in SUBSET Decisions, row \in BOOLEAN :
           Begin(h, does, t, about, row)
BY DEF Opens, ReadDecision, ReadWait, ReadParked, Kinds

LEMMA RepeatType ==
  ASSUME TypeOK, NEW E, Repeat(E)
  PROVE  repeats' \in Nat
BY DEF TypeOK, Repeat

LEMMA BeginsTx ==
  ASSUME TypeOK, NEW h \in Handlers, NEW t \in Tasks, NEW does \in Kinds,
         NEW about \in SUBSET Decisions, NEW row \in BOOLEAN, Begin(h, does, t, about, row)
  PROVE  /\ TxType' /\ repeats' \in Nat
         /\ tx'[h] = [at |-> "begun", does |-> does, task |-> t, about |-> about, row |-> row]
         /\ \A g \in Handlers \ {h} : tx'[g] = tx[g]
<1>1. tx \in [Handlers -> TxRecords]
  BY DEF TypeOK, TxRecords
<1> DEFINE r == [at |-> "begun", does |-> does, task |-> t, about |-> about, row |-> row]
<1>2. tx' = [tx EXCEPT ![h] = r]
  BY DEF Begin
<1>3. tx'[h] = r /\ \A g \in Handlers \ {h} : tx'[g] = tx[g]
  BY <1>1, <1>2
<1>4. r \in TxRecords
  BY DEF TxRecords, TxStages
<1>5. tx' \in [Handlers -> TxRecords]
  BY <1>1, <1>2, <1>4
<1>6. \A g \in Handlers : tx'[g].task = NoTask <=> tx'[g].at = "idle"
  BY <1>3, TasksAssumption DEF TypeOK
<1>7. repeats' \in Nat
  BY RepeatType DEF Begin
<1> QED BY <1>3, <1>5, <1>6, <1>7 DEF TxType

LEMMA TypeInit == Init => TypeOK
<1> SUFFICES ASSUME Init PROVE TypeOK
  OBVIOUS
<1>1. tx \in [Handlers -> TxRecords]
  BY NoTxType DEF Init
<1>2. \A h \in Handlers : tx[h].task = NoTask <=> tx[h].at = "idle"
  BY DEF Init, NoTx
<1> QED
  BY <1>1, <1>2, TasksAssumption, EventsAssumption
  DEF Init, TypeOK, TxRecords, Statuses, Stages, DecisionStates, WaitStates, Processes

\* A slot that executes, executes a task.
LEMMA SlotTask ==
  ASSUME TypeOK, NEW w \in Workers, at[w] # "free"
  PROVE  job[w] \in Tasks
BY DEF TypeOK

\* An open transaction is about a task.
LEMMA TxTask ==
  ASSUME TypeOK, NEW h \in Handlers, tx[h].at # "idle"
  PROVE  tx[h].task \in Tasks
BY DEF TypeOK

\* What a slot's step to another stage does to the types.
LEMMA StageType ==
  ASSUME TypeOK, NEW w \in Workers, NEW t \in Tasks \cup {NoTask}, NEW s \in Stages,
         t = NoTask <=> s = "free", Enter(w, t, s)
  PROVE  /\ job' \in [Workers -> Tasks \cup {NoTask}]
         /\ at' \in [Workers -> Stages]
         /\ \A v \in Workers : job'[v] = NoTask <=> at'[v] = "free"
BY DEF TypeOK, Enter

\* A new wait is nobody's row.
LEMMA RowsTx ==
  ASSUME TypeOK, NEW t \in Tasks,
         tx' = [h \in Handlers |->
           IF tx[h].task = t THEN [tx[h] EXCEPT !.row = FALSE] ELSE tx[h]]
  PROVE  /\ TxType'
         /\ \A h \in Handlers :
              /\ tx'[h].at = tx[h].at /\ tx'[h].task = tx[h].task
              /\ tx'[h].does = tx[h].does
              /\ tx[h].task # t => tx'[h] = tx[h]
<1>1. tx \in [Handlers -> TxRecords]
  BY DEF TypeOK, TxRecords
<1>2. ASSUME NEW h \in Handlers
      PROVE  /\ tx'[h] \in TxRecords
             /\ tx'[h].at = tx[h].at /\ tx'[h].task = tx[h].task
             /\ tx'[h].does = tx[h].does
             /\ tx[h].task # t => tx'[h] = tx[h]
  <2>1. CASE tx[h].task = t
    <3>1. tx'[h] = [tx[h] EXCEPT !.row = FALSE] /\ tx[h] \in TxRecords
      BY <1>1, <2>1
    <3> QED BY <2>1, <3>1 DEF TxRecords
  <2>2. CASE tx[h].task # t
    <3>1. tx'[h] = tx[h] /\ tx[h] \in TxRecords
      BY <1>1, <2>2
    <3> QED BY <3>1
  <2> QED BY <2>1, <2>2
<1>3. tx' \in [Handlers -> TxRecords]
  BY <1>2
<1>4. \A h \in Handlers : tx[h].task = NoTask <=> tx[h].at = "idle"
  BY DEF TypeOK
<1> QED BY <1>2, <1>3, <1>4 DEF TxType

\* What the death of a process does to the types.
LEMMA DiesType ==
  ASSUME TypeOK, NEW p \in Processes, Dies(p)
  PROVE  /\ TxType' /\ owed' \in [Processes -> [Tasks -> Nat]]
         /\ \A h \in Handlers : tx'[h] = IF h \in TxOf(p) THEN NoTx ELSE tx[h]
         /\ owed'[p] = [t \in Tasks |-> 0]
         /\ \A q \in Processes \ {p} : owed'[q] = owed[q]
<1>1. tx \in [Handlers -> TxRecords] /\ owed \in [Processes -> [Tasks -> Nat]]
  BY DEF TypeOK, TxRecords
<1>2. \A h \in Handlers : tx'[h] = IF h \in TxOf(p) THEN NoTx ELSE tx[h]
  BY DEF Dies
<1>3. tx' \in [Handlers -> TxRecords]
  BY <1>1, NoTxType DEF Dies
<1>a. \A h \in Handlers : tx[h].task = NoTask <=> tx[h].at = "idle"
  BY DEF TypeOK
<1>b. NoTx.task = NoTask /\ NoTx.at = "idle"
  BY DEF NoTx
<1>4. \A h \in Handlers : tx'[h].task = NoTask <=> tx'[h].at = "idle"
  BY <1>2, <1>a, <1>b
<1>5. /\ owed' \in [Processes -> [Tasks -> Nat]]
      /\ owed'[p] = [t \in Tasks |-> 0]
      /\ \A q \in Processes \ {p} : owed'[q] = owed[q]
  BY <1>1 DEF Dies
<1> QED BY <1>2, <1>3, <1>4, <1>5 DEF TxType

\* What a transaction's commit does.
LEMMA Commits ==
  ASSUME TypeOK, NEW h \in Handlers, Commit(h)
  PROVE  /\ tx[h].task \in Tasks /\ tx[h].at \in {"passed", "found", "sent"}
         /\ decision' \in [Tasks -> [Decisions -> DecisionStates]]
         /\ wait' \in [Tasks -> WaitStates]
         /\ status' \in [Tasks -> Statuses]
         /\ owed' \in [Processes -> [Tasks -> Nat]]
<1> DEFINE t == tx[h].task
<1>1. tx[h].at \in {"passed", "found", "sent"}
  BY DEF Commit
<1>2. t \in Tasks
  BY <1>1, TxTask
<1>3. wait' \in [Tasks -> WaitStates]
  <2>1. wait' = [wait EXCEPT ![t] =
                   IF ~ tx[h].row THEN wait[t]
                   ELSE IF tx[h].does = "expire" THEN "none" ELSE "satisfied"]
    BY DEF Commit
  <2> QED BY <1>2, <2>1 DEF TypeOK, WaitStates
<1>4. decision' \in [Tasks -> [Decisions -> DecisionStates]]
  <2>1. PICK verdict \in {"approved", "rejected"} :
          decision' = [decision EXCEPT ![t] = [d \in Decisions |->
            IF d \in tx[h].about /\ decision[t][d] # "used" THEN verdict ELSE decision[t][d]]]
    BY DEF Commit
  <2>2. [d \in Decisions |->
            IF d \in tx[h].about /\ decision[t][d] # "used" THEN verdict ELSE decision[t][d]]
          \in [Decisions -> DecisionStates]
    BY <1>2 DEF TypeOK, DecisionStates
  <2> QED BY <1>2, <2>1, <2>2 DEF TypeOK
<1>5. status' \in [Tasks -> Statuses]
  <2>1. UNCHANGED status \/ \E s \in {"failed", "queued"} : SetStatus(t, s)
    BY DEF Commit
  <2> QED BY <1>2, <2>1 DEF TypeOK, SetStatus, Statuses
<1>6. owed' \in [Processes -> [Tasks -> Nat]]
  <2>1. \/ UNCHANGED owed
        \/ \E p \in Processes : owed' = [owed EXCEPT ![p][t] = @ + 1]
    BY Processing DEF Commit, Kinds
  <2>2. owed \in [Processes -> [Tasks -> Nat]]
    BY DEF TypeOK
  <2> QED BY <1>2, <2>1, <2>2
<1> QED BY <1>1, <1>2, <1>3, <1>4, <1>5, <1>6

LEMMA TypeStep == TypeOK /\ [Next]_vars => TypeOK'
<1> SUFFICES ASSUME TypeOK, [Next]_vars PROVE TypeOK'
  OBVIOUS
<1> USE DEF jobs, slots, asks, life, TxRecords
<1>s. /\ {"free", "started", "reparking", "loop", "requeueing", "failing"} \subseteq Stages
      /\ {"absent", "inserted", "queued", "running", "waiting_approval", "done",
          "failed", "blocked", "needs_continuation"} \subseteq Statuses
      /\ {"none", "pending", "approved", "rejected", "used"} \subseteq DecisionStates
      /\ {"none", "pending", "satisfied"} \subseteq WaitStates
      /\ "api" \in Processes /\ "worker" \in Processes
  BY DEF Stages, Statuses, DecisionStates, WaitStates, Processes
<1>x. {"begun", "undecided", "found", "passed", "sent"} \subseteq TxStages \ {"idle"}
  BY DEF TxStages
<1>1. ASSUME NEW t \in Tasks, Create(t) PROVE TypeOK'
  BY <1>1, <1>s DEF TypeOK, Create, SetStatus
<1>2. ASSUME NEW t \in Tasks, Spawn(t) PROVE TypeOK'
  BY <1>2, <1>s DEF TypeOK, Spawn, SetStatus
<1>3. ASSUME NEW t \in Tasks, CommitSpawn(t) PROVE TypeOK'
  BY <1>3, <1>s DEF TypeOK, CommitSpawn, SetStatus
<1>4. ASSUME NEW t \in Tasks, NEW p \in Processes, Send(p, t) PROVE TypeOK'
  BY <1>4, <1>s DEF TypeOK, Send
<1>20. ASSUME NEW t \in Tasks, NEW p \in Processes, SendFails(p, t) PROVE TypeOK'
  BY <1>20, <1>s DEF TypeOK, SendFails
<1>5. ASSUME NEW t \in Tasks, NEW w \in Workers, Take(w, t)
      PROVE  /\ queue' \in [Tasks -> Nat]
             /\ UNCHANGED <<owed, asks, tx, criticised, life>>
  BY <1>5 DEF TypeOK, Take
<1>6. ASSUME NEW t \in Tasks, NEW w \in Workers, Skip(w, t) PROVE TypeOK'
  BY <1>5, <1>6 DEF TypeOK, Skip
<1>7. ASSUME NEW t \in Tasks, NEW w \in Workers, Block(w, t) PROVE TypeOK'
  BY <1>5, <1>7, <1>s DEF TypeOK, Block, Claim, SetStatus
<1>8. ASSUME NEW t \in Tasks, NEW w \in Workers, Dispatch(w, t) PROVE TypeOK'
  <2>1. /\ Enter(w, t, "started") /\ Take(w, t) /\ SetStatus(t, "running")
        /\ lost' = lost \ {t}
    BY <1>8 DEF Dispatch, Claim
  <2>2. t # NoTask
    BY TasksAssumption
  <2>3. /\ job' \in [Workers -> Tasks \cup {NoTask}]
        /\ at' \in [Workers -> Stages]
        /\ \A v \in Workers : job'[v] = NoTask <=> at'[v] = "free"
    BY <1>s, <2>1, <2>2, StageType
  <2> QED BY <1>5, <1>s, <2>1, <2>3 DEF TypeOK, SetStatus
<1>9. ASSUME NEW w \in Workers, Leave(w)
      PROVE  /\ job' \in [Workers -> Tasks \cup {NoTask}]
             /\ at' \in [Workers -> Stages]
             /\ \A v \in Workers : job'[v] = NoTask <=> at'[v] = "free"
  BY <1>9, <1>s, StageType DEF Leave
<1>10. ASSUME NEW w \in Workers, NEW s \in Stages \ {"free"}, at[w] # "free", Stage(w, s)
      PROVE  /\ job' \in [Workers -> Tasks \cup {NoTask}]
             /\ at' \in [Workers -> Stages]
             /\ \A v \in Workers : job'[v] = NoTask <=> at'[v] = "free"
  BY <1>10, StageType, SlotTask, TasksAssumption DEF Stage
<1>11. ASSUME NEW w \in Workers, LookForWait(w) PROVE TypeOK'
  <2>1. PICK s \in {"reparking", "loop"} : Stage(w, s)
    BY <1>11 DEF LookForWait
  <2> QED BY <1>10, <1>11, <1>s, <2>1 DEF LookForWait, In, TypeOK
<1>12. ASSUME NEW w \in Workers, Repark(w) PROVE TypeOK'
  BY <1>9, <1>12, <1>s, SlotTask DEF Repark, In, TypeOK, SetStatus
<1>13. ASSUME NEW w \in Workers, UseVerdict(w) PROVE TypeOK'
  BY <1>13, <1>s, SlotTask DEF UseVerdict, In, TypeOK
<1>14. ASSUME NEW w \in Workers, Ask(w) PROVE TypeOK'
  <2>1. decision' \in [Tasks -> [Decisions -> DecisionStates]]
    BY <1>14, <1>s, SlotTask DEF Ask, In, TypeOK
  <2> QED BY <1>9, <1>14, <1>s, <2>1, SlotTask DEF Ask, In, TypeOK, SetStatus
<1>15. ASSUME NEW w \in Workers, AskUnparked(w) PROVE TypeOK'
  <2>1. decision' \in [Tasks -> [Decisions -> DecisionStates]]
    BY <1>15, <1>s, SlotTask DEF AskUnparked, In, TypeOK
  <2> QED BY <1>9, <1>15, <1>s, <2>1, SlotTask DEF AskUnparked, In, TypeOK
<1>16. ASSUME NEW w \in Workers, Converse(w) PROVE TypeOK'
  <2>t. PICK t \in Tasks : job[w] = t /\ at[w] = "loop"
    BY <1>16, SlotTask DEF Converse, In
  <2>1. CASE wait[t] = "satisfied"
    BY <1>16, <1>s, <2>t, <2>1 DEF Converse, TypeOK
  <2>2. CASE wait[t] = "pending"
    <3>1. Stage(w, "reparking") /\ UNCHANGED <<status, wait, tx, jobs, decision, criticised, life>>
      BY <1>16, <2>t, <2>2 DEF Converse
    <3> QED BY <1>10, <1>s, <2>t, <3>1 DEF TypeOK
  <2>3. CASE wait[t] = "none"
    <3>1. /\ Leave(w) /\ SetStatus(t, "waiting_approval")
          /\ wait' = [wait EXCEPT ![t] = "pending"]
          /\ tx' = [h \in Handlers |->
                      IF tx[h].task = t THEN [tx[h] EXCEPT !.row = FALSE] ELSE tx[h]]
          /\ UNCHANGED <<jobs, decision, criticised, life>>
      BY <1>16, <2>t, <2>3 DEF Converse
    <3>4. TxType'
      BY <3>1, RowsTx
    <3> QED BY <1>9, <1>s, <3>1, <3>4 DEF TypeOK, TxType, SetStatus
  <2> QED BY <2>1, <2>2, <2>3 DEF TypeOK, WaitStates
<1>17. ASSUME NEW w \in Workers, Finish(w) PROVE TypeOK'
  BY <1>9, <1>17, <1>s, SlotTask DEF Finish, In, TypeOK, SetStatus
<1>18. ASSUME NEW w \in Workers, Criticise(w) PROVE TypeOK'
  <2>1. Stage(w, "requeueing") /\ at[w] # "free"
    BY <1>18 DEF Criticise, In
  <2> QED BY <1>10, <1>18, <1>s, <2>1, SlotTask DEF Criticise, In, TypeOK, SetStatus
<1>19. ASSUME NEW w \in Workers, Requeue(w) PROVE TypeOK'
  BY <1>9, <1>19, <1>s, SlotTask DEF Requeue, In, TypeOK
<1>21. ASSUME NEW w \in Workers, Raise(w) PROVE TypeOK'
  <2>1. /\ at[w] # "free"
        /\ Leave(w) \/ Stage(w, "failing")
        /\ UNCHANGED <<status, queue, owed, asks, tx, criticised, life>>
    BY <1>21 DEF Raise
  <2>2. lost' \subseteq Tasks
    <3>1. job[w] \in Tasks /\ lost \subseteq Tasks
      BY <2>1, SlotTask DEF TypeOK
    <3> QED BY <1>21, <3>1 DEF Raise
  <2> QED BY <1>9, <1>10, <1>s, <2>1, <2>2 DEF TypeOK
<1>22. ASSUME NEW w \in Workers, Fail(w) PROVE TypeOK'
  BY <1>9, <1>22, <1>s, SlotTask DEF Fail, In, TypeOK, SetStatus
<1>23. ASSUME NEW h \in Handlers, NEW t \in Tasks, Opens(h, t) PROVE TypeOK'
  <2>1. TxType' /\ repeats' \in Nat
    BY <1>23, OpensBegins, BeginsTx
  <2>2. UNCHANGED <<status, jobs, slots, asks, criticised, up, happens>>
    BY <1>23, OpensBegins DEF Begin
  <2> QED BY <2>1, <2>2 DEF TypeOK, TxType
<1>24. ASSUME NEW h \in Handlers, TxType', UNCHANGED <<status, owed, lost, slots, asks,
              criticised, up, happens>>, repeats' \in Nat, queue' \in [Tasks -> Nat]
       PROVE  TypeOK'
  BY <1>24 DEF TypeOK, TxType
<1>25. ASSUME NEW h \in Handlers, ReadTask(h) PROVE TypeOK'
  <2>1. TxType'
    BY <1>25, <1>x, GoesTo DEF ReadTask
  <2> QED BY <1>24, <1>25, <2>1 DEF ReadTask, TypeOK
<1>26. ASSUME NEW h \in Handlers, ReadDecisions(h) \/ ReadWaits(h) PROVE TypeOK'
  <2>1. TxType'
    BY <1>26, <1>x, GoesTo, EndsTx DEF ReadDecisions, ReadWaits
  <2> QED BY <1>24, <1>26, <2>1 DEF ReadDecisions, ReadWaits, TypeOK
<1>27. ASSUME NEW h \in Handlers, Tell(h) PROVE TypeOK'
  <2>1. TxType'
    BY <1>27, <1>x, GoesTo DEF Tell
  <2>2. queue' \in [Tasks -> Nat]
    BY <1>27, TxTask DEF Tell, TypeOK
  <2> QED BY <1>24, <1>27, <2>1, <2>2 DEF Tell, TypeOK
<1>28. ASSUME NEW h \in Handlers, Commit(h) PROVE TypeOK'
  <2>1. TxType' /\ UNCHANGED <<queue, lost, slots, criticised, life>>
    BY <1>28, EndsTx DEF Commit
  <2> QED BY <1>28, <2>1, Commits DEF TypeOK, TxType
<1>29. ASSUME NEW h \in Handlers, Abandon(h) PROVE TypeOK'
  <2>1. TxType' /\ repeats' \in Nat
    BY <1>29, EndsTx, RepeatType DEF Abandon
  <2> QED BY <1>24, <1>29, <2>1 DEF Abandon, TypeOK
<1>30. CASE CrashApi
  <2>1. TxType' /\ owed' \in [Processes -> [Tasks -> Nat]]
    BY <1>30, <1>s, DiesType DEF CrashApi
  <2> QED BY <1>30, <2>1 DEF CrashApi, TypeOK, TxType
<1>31. CASE CrashWorker
  <2>1. queue' \in [Tasks -> Nat]
    BY <1>31, Cards DEF CrashWorker, TypeOK
  <2>2. status' \in [Tasks -> Statuses]
    BY <1>31, <1>s DEF CrashWorker, TypeOK
  <2>3. /\ job' \in [Workers -> Tasks \cup {NoTask}]
        /\ at' \in [Workers -> Stages]
        /\ \A w \in Workers : job'[w] = NoTask <=> at'[w] = "free"
    BY <1>31, <1>s DEF CrashWorker
  <2>4. TxType' /\ owed' \in [Processes -> [Tasks -> Nat]]
    BY <1>31, <1>s, DiesType DEF CrashWorker
  <2>5. up' \in BOOLEAN
    BY <1>31, Zenon DEF CrashWorker
  <2>6. repeats' \in Nat /\ UNCHANGED <<lost, decision, wait, criticised, happens>>
    BY <1>31, RepeatType DEF CrashWorker
  <2> QED BY <2>1, <2>2, <2>3, <2>4, <2>5, <2>6 DEF TypeOK, TxType
<1>32. CASE StartWorker
  <2>1. status' \in [Tasks -> Statuses]
    BY <1>32, <1>s DEF StartWorker, TypeOK
  <2>2. queue' \in [Tasks -> Nat]
    BY <1>32 DEF StartWorker, TypeOK
  <2> QED BY <1>32, <2>1, <2>2 DEF StartWorker, TypeOK
<1>33. CASE UNCHANGED vars
  BY <1>33 DEF vars, TypeOK, Executing
<1> QED
  BY <1>1, <1>2, <1>3, <1>4, <1>6, <1>7, <1>8, <1>11, <1>12, <1>13, <1>14, <1>15,
     <1>16, <1>17, <1>18, <1>19, <1>20, <1>21, <1>22, <1>23, <1>25, <1>26, <1>27,
     <1>28, <1>29, <1>30, <1>31, <1>32, <1>33
  DEF Next, TakeJob, Execute, Handle, Expiry, Reaping, Opens

\* The variables keep their types, a slot executes a task exactly when it is not free,
\* and a transaction is about one exactly while it is open: run_task and the handlers
\* around it leave no half-written row.
THEOREM TypeCorrect == Spec => []TypeOK
BY TypeInit, TypeStep, PTL DEF Spec

\* No step changes what may happen.
LEMMA HappensStay == [Next]_vars => happens' = happens
<1> SUFFICES ASSUME [Next]_vars PROVE happens' = happens
  OBVIOUS
<1> USE DEF life
<1>1. ASSUME NEW t \in Tasks,
             \/ Create(t) \/ Spawn(t) \/ CommitSpawn(t) \/ TakeJob(t)
             \/ \E p \in Processes : Send(p, t) \/ SendFails(p, t)
             \/ \E h \in Handlers : Opens(h, t)
      PROVE  happens' = happens
  BY <1>1, OpensBegins DEF Create, Spawn, CommitSpawn, TakeJob, Skip, Block, Dispatch,
              Claim, Take, Send, SendFails, Begin
<1>2. ASSUME NEW w \in Workers, Execute(w) PROVE happens' = happens
  BY <1>2 DEF Execute, LookForWait, Repark, Requeue, UseVerdict, Ask, AskUnparked,
              Converse, Finish, Criticise, Raise, Fail
<1>3. ASSUME NEW h \in Handlers, Handle(h) PROVE happens' = happens
  BY <1>3 DEF Handle, ReadTask, ReadDecisions, ReadWaits, Tell, Commit, Abandon
<1>4. CASE CrashApi \/ CrashWorker \/ StartWorker
  BY <1>4 DEF CrashApi, CrashWorker, StartWorker
<1>5. CASE UNCHANGED vars
  BY <1>5 DEF vars
<1> QED BY <1>1, <1>2, <1>3, <1>4, <1>5 DEF Next, Expiry, Reaping, Opens

-----------------------------------------------------------------------------
(* What a step does to the executions.                                       *)

\* A transaction is about to write the status of task t.
Live(t) == \E h \in Handlers : tx[h].task = t /\ tx[h].at \in {"found", "sent"}

\* A step beside the executions: it starts none and ends none.
Bystanding ==
    /\ UNCHANGED <<slots, up>>
    /\ \A t \in Tasks :
         /\ status'[t] = "running" => status[t] = "running"
         /\ status[t] = "running" => status'[t] = "running" \/ Live(t)
         /\ status[t] \in Final => status'[t] = status[t] \/ Live(t)

\* The execution in slot w goes on.
GoesOn(w) ==
    /\ up /\ at[w] \in {"started", "reparking", "loop"}
    /\ \E s \in {"reparking", "loop", "failing"} : Stage(w, s)
    /\ UNCHANGED <<status, up>>

\* The execution in slot w ends, and its task is running no more.
Ends(w) ==
    /\ up /\ at[w] \in {"started", "reparking", "loop", "failing"}
    /\ Leave(w) \/ Stage(w, "requeueing")
    /\ \A t \in Tasks \ {job[w]} : status'[t] = status[t]
    /\ status'[job[w]] # "running"
    /\ UNCHANGED up

\* Slot w has enqueued the critic's re-queue, or failed to.
LetsGo(w) ==
    /\ up /\ at[w] = "requeueing"
    /\ Leave(w)
    /\ UNCHANGED <<status, up>>

\* It has failed to, and somebody else runs the task, which it will fail.
TakesOver(w) ==
    /\ up /\ at[w] = "requeueing"
    /\ "enqueue_fails" \in happens /\ status[job[w]] = "running"
    /\ Stage(w, "failing")
    /\ UNCHANGED <<status, up>>

LEMMA CommitStands ==
  ASSUME TypeOK, NEW h \in Handlers, Commit(h)
  PROVE  Bystanding
<1> DEFINE t == tx[h].task
<1>1. t \in Tasks /\ UNCHANGED <<slots, up>>
  BY Commits DEF Commit, life
<1>2. CASE tx[h].at = "passed"
  BY <1>1, <1>2 DEF Commit, Bystanding
<1>3. CASE tx[h].at # "passed"
  <2>1. Live(t) /\ \E s \in {"failed", "queued"} : SetStatus(t, s)
    BY <1>3 DEF Commit, Live
  <2>2. /\ status'[t] # "running"
        /\ \A u \in Tasks \ {t} : status'[u] = status[u]
    BY <1>1, <2>1 DEF TypeOK, SetStatus
  <2> QED BY <1>1, <2>1, <2>2 DEF Bystanding
<1> QED BY <1>2, <1>3

\* Every step is of one of these kinds.
LEMMA StepKinds ==
  ASSUME TypeOK, [Next]_vars
  PROVE  \/ Bystanding
         \/ \E w \in Workers :
              \/ GoesOn(w) \/ Ends(w) \/ LetsGo(w) \/ TakesOver(w) \/ AskUnparked(w)
              \/ \E t \in Tasks : Dispatch(w, t)
         \/ CrashWorker
         \/ StartWorker
<1> USE DEF jobs, asks, life
<1>1. ASSUME NEW t \in Tasks, Create(t) PROVE Bystanding
  BY <1>1 DEF TypeOK, Create, SetStatus, Bystanding, Final
<1>2. ASSUME NEW t \in Tasks, Spawn(t) PROVE Bystanding
  BY <1>2 DEF TypeOK, Spawn, SetStatus, Bystanding, Final
<1>3. ASSUME NEW t \in Tasks, CommitSpawn(t) PROVE Bystanding
  BY <1>3 DEF TypeOK, CommitSpawn, SetStatus, Bystanding, Final
<1>4. ASSUME NEW t \in Tasks, NEW p \in Processes, Send(p, t) \/ SendFails(p, t)
      PROVE  Bystanding
  BY <1>4 DEF Send, SendFails, Bystanding
<1>5. ASSUME NEW t \in Tasks, NEW w \in Workers, Skip(w, t) PROVE Bystanding
  BY <1>5 DEF Skip, Take, Bystanding
<1>6. ASSUME NEW t \in Tasks, NEW w \in Workers, Block(w, t) PROVE Bystanding
  BY <1>6 DEF TypeOK, Block, Claim, Take, SetStatus, Ready, Bystanding, Final
<1>7. ASSUME NEW w \in Workers, LookForWait(w) PROVE GoesOn(w)
  BY <1>7 DEF LookForWait, In, GoesOn
<1>8. ASSUME NEW w \in Workers, Repark(w) PROVE Ends(w)
  BY <1>8, SlotTask DEF TypeOK, Repark, In, SetStatus, Ends
<1>9. ASSUME NEW w \in Workers, UseVerdict(w) PROVE Bystanding
  BY <1>9 DEF UseVerdict, Bystanding
<1>10. ASSUME NEW w \in Workers, Ask(w) PROVE Ends(w)
  BY <1>10, SlotTask DEF TypeOK, Ask, In, SetStatus, Ends
<1>11. ASSUME NEW w \in Workers, Converse(w) PROVE Bystanding \/ GoesOn(w) \/ Ends(w)
  <2>1. CASE wait[job[w]] = "satisfied"
    BY <1>11, <2>1 DEF Converse, Bystanding
  <2>2. CASE wait[job[w]] = "pending"
    BY <1>11, <2>2 DEF Converse, In, GoesOn
  <2>3. CASE wait[job[w]] = "none"
    <3>1. /\ at[w] = "loop" /\ up /\ UNCHANGED up /\ Leave(w)
          /\ SetStatus(job[w], "waiting_approval")
      BY <1>11, <2>3 DEF Converse, In
    <3> QED BY <3>1, SlotTask DEF TypeOK, SetStatus, Ends
  <2> QED BY <1>11, <2>1, <2>2, <2>3 DEF Converse
<1>12. ASSUME NEW w \in Workers, Finish(w) PROVE Ends(w)
  BY <1>12, SlotTask DEF TypeOK, Finish, In, SetStatus, Ends
<1>13. ASSUME NEW w \in Workers, Criticise(w) PROVE Ends(w)
  BY <1>13, SlotTask DEF TypeOK, Criticise, In, SetStatus, Ends
<1>14. ASSUME NEW w \in Workers, Requeue(w) PROVE LetsGo(w)
  BY <1>14 DEF Requeue, In, LetsGo
<1>15. ASSUME NEW w \in Workers, Raise(w)
       PROVE  GoesOn(w) \/ Ends(w) \/ LetsGo(w) \/ TakesOver(w)
  <2>1. /\ up /\ UNCHANGED <<status, up>>
        /\ at[w] = "requeueing" => "enqueue_fails" \in happens
        /\ at[w] \in {"started", "reparking", "loop", "requeueing"}
    BY <1>15 DEF Raise
  <2>2. CASE status[job[w]] = "running"
    <3>1. Stage(w, "failing")
      BY <1>15, <2>2 DEF Raise
    <3> QED BY <2>1, <2>2, <3>1 DEF GoesOn, TakesOver
  <2>3. CASE status[job[w]] # "running"
    <3>1. Leave(w)
      BY <1>15, <2>3 DEF Raise
    <3> QED BY <2>1, <2>3, <3>1 DEF Ends, LetsGo
  <2> QED BY <2>2, <2>3
<1>16. ASSUME NEW w \in Workers, Fail(w) PROVE Ends(w)
  BY <1>16, SlotTask DEF TypeOK, Fail, In, SetStatus, Ends
<1>17. ASSUME NEW h \in Handlers, NEW t \in Tasks, Opens(h, t) PROVE Bystanding
  BY <1>17, OpensBegins DEF Begin, Bystanding
<1>18. ASSUME NEW h \in Handlers,
              ReadTask(h) \/ ReadDecisions(h) \/ ReadWaits(h) \/ Tell(h) \/ Abandon(h)
       PROVE  Bystanding
  BY <1>18 DEF ReadTask, ReadDecisions, ReadWaits, Tell, Abandon, Bystanding
<1>19. CASE CrashApi
  BY <1>19 DEF CrashApi, Bystanding
<1>20. CASE UNCHANGED vars
  BY <1>20 DEF vars, slots, Bystanding
<1> QED
  BY <1>1, <1>2, <1>3, <1>4, <1>5, <1>6, <1>7, <1>8, <1>9, <1>10, <1>11, <1>12, <1>13,
     <1>14, <1>15, <1>16, <1>17, <1>18, <1>19, <1>20, CommitStands
  DEF Next, TakeJob, Execute, Handle, Expiry, Reaping, Opens

-----------------------------------------------------------------------------
(* A running task is run.                                                    *)

LEMMA RunStep == TypeOK /\ RunningIsRun /\ [Next]_vars => RunningIsRun'
<1> SUFFICES ASSUME TypeOK, RunningIsRun, [Next]_vars, Without({"quiet_ask"}),
                    up', NEW t \in Tasks, status'[t] = "running"
             PROVE  \E v \in Workers : job'[v] = t /\ at'[v] # "requeueing"
  BY HappensStay DEF RunningIsRun, Running, Without
<1>1. up /\ status[t] = "running" =>
        \E v \in Workers : job[v] = t /\ at[v] # "requeueing"
  BY DEF RunningIsRun, Running
<1>2. CASE Bystanding
  BY <1>1, <1>2 DEF Bystanding, slots
<1>3. ASSUME NEW w \in Workers, GoesOn(w) \/ TakesOver(w)
      PROVE  \E v \in Workers : job'[v] = t /\ at'[v] # "requeueing"
  BY <1>1, <1>3 DEF TypeOK, GoesOn, TakesOver, Stage, Enter
<1>4. ASSUME NEW w \in Workers, Ends(w)
      PROVE  \E v \in Workers : job'[v] = t /\ at'[v] # "requeueing"
  <2>1. t # job[w] /\ status[t] = "running"
    BY <1>4 DEF Ends
  <2>2. PICK v \in Workers : job[v] = t /\ at[v] # "requeueing"
    BY <1>1, <1>4, <2>1 DEF Ends
  <2> QED BY <1>4, <2>1, <2>2 DEF TypeOK, Ends, Leave, Stage, Enter
<1>5. ASSUME NEW w \in Workers, LetsGo(w)
      PROVE  \E v \in Workers : job'[v] = t /\ at'[v] # "requeueing"
  BY <1>1, <1>5 DEF TypeOK, LetsGo, Leave, Enter
<1>6. ASSUME NEW w \in Workers, NEW u \in Tasks, Dispatch(w, u)
      PROVE  \E v \in Workers : job'[v] = t /\ at'[v] # "requeueing"
  <2>1. Enter(w, u, "started") /\ at[w] = "free" /\ up
    BY <1>6 DEF Dispatch, Claim, Take, Idle
  <2>2. CASE t = u
    BY <2>1, <2>2 DEF TypeOK, Enter
  <2>3. CASE t # u
    <3>1. status[t] = "running"
      BY <1>6, <2>3 DEF TypeOK, Dispatch, SetStatus
    <3>2. PICK v \in Workers : job[v] = t /\ at[v] # "requeueing"
      BY <1>1, <2>1, <3>1
    <3>3. v # w
      BY <2>1, <3>2, TasksAssumption DEF TypeOK
    <3> QED BY <2>1, <3>2, <3>3 DEF TypeOK, Enter
  <2> QED BY <2>2, <2>3
<1>7. CASE CrashWorker
  BY <1>7 DEF CrashWorker
<1>8. CASE StartWorker
  BY <1>8 DEF StartWorker
<1>9. \A w \in Workers : ~ AskUnparked(w)
  BY DEF AskUnparked, Without
<1> QED BY <1>2, <1>3, <1>4, <1>5, <1>6, <1>7, <1>8, <1>9, StepKinds

\* Where no tool parks a task without saying so: whatever crashes, is redelivered, is
\* resolved twice or resumed by two transactions at once, while the worker is up,
\* a task marked running is in some job slot, so none is stranded behind the gate
\* of run_task.
THEOREM RunningTasksAreRun == Spec => []RunningIsRun
<1>1. Init => RunningIsRun
  BY DEF Init, RunningIsRun
<1> QED BY <1>1, TypeInit, TypeStep, RunStep, PTL DEF Spec

-----------------------------------------------------------------------------
(* One execution at a time.                                                  *)

\* A task someone works on is running, and no second execution works on it; a
\* worker that is down executes nothing.
RunnerInv ==
    /\ \A t \in Tasks :
         /\ \A v, w \in Running(t) : v = w
         /\ Running(t) # {} => status[t] = "running"
    /\ ~ up => \A w \in Workers : at[w] = "free"

\* No task that someone works on is resumed, nor one that has ended; and nobody runs
\* a task that a slot is about to enqueue, where that may fail.
Unasked ==
    /\ \A t \in Tasks : Live(t) => status[t] \in Parked /\ Running(t) = {}
    /\ "enqueue_fails" \in happens =>
         \A w \in Workers : at[w] = "requeueing" => status[job[w]] # "running"

LEMMA RunnerInit == Init => RunnerInv
BY TasksAssumption DEF Init, RunnerInv, Running

\* An execution that goes on, or ends, is the only one of its task.
LEMMA RunnerStep == TypeOK /\ RunnerInv /\ Unasked /\ [Next]_vars => RunnerInv'
<1> SUFFICES ASSUME TypeOK, RunnerInv, Unasked, [Next]_vars PROVE RunnerInv'
  OBVIOUS
<1>1. ASSUME NEW t \in Tasks, NEW v \in Workers, NEW w \in Workers,
             job[v] = t, at[v] # "requeueing", job[w] = t, at[w] # "requeueing"
      PROVE  v = w /\ status[t] = "running"
  BY <1>1 DEF RunnerInv, Running
<1>2. ASSUME \A t \in Tasks : \A v, w \in Workers :
               /\ job'[v] = t /\ at'[v] # "requeueing"
               /\ job'[w] = t /\ at'[w] # "requeueing"
               => v = w /\ status'[t] = "running",
             ~ up' => \A w \in Workers : at'[w] = "free"
      PROVE  RunnerInv'
  BY <1>2 DEF RunnerInv, Running
<1>3. CASE Bystanding
  <2>1. \A t \in Tasks : status[t] = "running" /\ Running(t) # {} => status'[t] = "running"
    BY <1>3 DEF Bystanding, Unasked
  <2>2. job' = job /\ at' = at /\ up' = up
    BY <1>3 DEF Bystanding, slots
  <2>3. ~ up => \A w \in Workers : at[w] = "free"
    BY DEF RunnerInv
  <2> QED BY <1>1, <1>2, <2>1, <2>2, <2>3 DEF Running
<1>4. ASSUME NEW w \in Workers, GoesOn(w) PROVE RunnerInv'
  <2>1. job' = job /\ up' /\ status' = status
    BY <1>4 DEF TypeOK, GoesOn, Stage, Enter
  <2>2. \A v \in Workers : at'[v] # "requeueing" => at[v] # "requeueing"
    BY <1>4 DEF TypeOK, GoesOn, Stage, Enter
  <2> QED BY <1>1, <1>2, <2>1, <2>2
<1>5. ASSUME NEW w \in Workers, Ends(w) PROVE RunnerInv'
  <2>1. job[w] \in Tasks /\ up'
    BY <1>5, SlotTask DEF Ends
  <2>2. \A v \in Workers : job'[v] \in Tasks /\ at'[v] # "requeueing" =>
            v # w /\ job'[v] = job[v] /\ at'[v] = at[v]
    BY <1>5, TasksAssumption DEF TypeOK, Ends, Leave, Stage, Enter
  <2>3. \A v \in Workers : v # w /\ at[v] # "requeueing" => job[v] # job[w]
    BY <1>1, <1>5, <2>1 DEF Ends
  <2>4. \A t \in Tasks \ {job[w]} : status'[t] = status[t]
    BY <1>5 DEF Ends
  <2> QED BY <1>1, <1>2, <2>1, <2>2, <2>3, <2>4
<1>6. ASSUME NEW w \in Workers, LetsGo(w) \/ AskUnparked(w) PROVE RunnerInv'
  <2>1. UNCHANGED <<status, up>> /\ up /\ Leave(w)
    BY <1>6 DEF LetsGo, AskUnparked, In, life
  <2>2. \A v \in Workers : job'[v] \in Tasks => job'[v] = job[v] /\ at'[v] = at[v]
    BY <2>1, TasksAssumption DEF TypeOK, Leave, Enter
  <2> QED BY <1>1, <1>2, <2>1, <2>2
<1>7. \A w \in Workers : ~ TakesOver(w)
  BY DEF TakesOver, Unasked
<1>8. ASSUME NEW w \in Workers, NEW u \in Tasks, Dispatch(w, u) PROVE RunnerInv'
  <2>1. /\ Enter(w, u, "started") /\ up /\ up' /\ status[u] # "running"
        /\ status' = [status EXCEPT ![u] = "running"]
    BY <1>8 DEF Dispatch, Claim, Take, Idle, life, SetStatus, Ready
  <2>2. \A v \in Workers : v # w => job'[v] = job[v] /\ at'[v] = at[v]
    BY <2>1 DEF TypeOK, Enter
  <2>3. job'[w] = u /\ at'[w] = "started"
    BY <2>1 DEF TypeOK, Enter
  <2>4. status'[u] = "running" /\ \A t \in Tasks \ {u} : status'[t] = status[t]
    BY <2>1 DEF TypeOK
  <2> QED BY <1>1, <1>2, <2>1, <2>2, <2>3, <2>4
<1>9. CASE CrashWorker
  BY <1>2, <1>9, TasksAssumption DEF CrashWorker
<1>10. CASE StartWorker
  <2>1. \A w \in Workers : job'[w] = NoTask
    BY <1>10 DEF StartWorker, RunnerInv, TypeOK, slots
  <2>2. up'
    BY <1>10 DEF StartWorker
  <2> QED BY <1>2, <2>1, <2>2, TasksAssumption
<1> QED BY <1>3, <1>4, <1>5, <1>6, <1>7, <1>8, <1>9, <1>10, StepKinds

\* Nobody but its own execution ends a task, so none that has ended moves again.
LEMMA FinalStep ==
  TypeOK /\ RunnerInv /\ Unasked /\ [Next]_vars => EndedStays
<1> SUFFICES ASSUME TypeOK, RunnerInv, Unasked, [Next]_vars,
                    NEW t \in Tasks, status[t] \in Final
             PROVE  status'[t] = status[t]
  BY DEF EndedStays
<1>0. status[t] # "running" /\ status[t] \notin Ready /\ status[t] \notin Parked
  BY DEF Final, Ready, Parked
<1>1. CASE Bystanding
  BY <1>0, <1>1 DEF Bystanding, Unasked
<1>2. ASSUME NEW w \in Workers, GoesOn(w) \/ LetsGo(w) \/ TakesOver(w) \/ AskUnparked(w)
      PROVE  status'[t] = status[t]
  BY <1>2 DEF GoesOn, LetsGo, TakesOver, AskUnparked
<1>3. ASSUME NEW w \in Workers, Ends(w) PROVE status'[t] = status[t]
  <2>1. w \in Running(job[w]) /\ job[w] \in Tasks
    BY <1>3, SlotTask DEF Ends, Running
  <2>2. job[w] # t
    BY <1>0, <2>1 DEF RunnerInv
  <2> QED BY <1>3, <2>2 DEF Ends
<1>4. ASSUME NEW w \in Workers, NEW u \in Tasks, Dispatch(w, u)
      PROVE  status'[t] = status[t]
  BY <1>0, <1>4 DEF TypeOK, Dispatch, Claim, SetStatus
<1>5. CASE CrashWorker
  BY <1>5 DEF CrashWorker, Final
<1>6. CASE StartWorker
  BY <1>0, <1>6 DEF StartWorker
<1> QED BY <1>1, <1>2, <1>3, <1>4, <1>5, <1>6, StepKinds

-----------------------------------------------------------------------------
(* Tasks that never park: crashes and redelivered jobs.                      *)

\* Nothing is asked, so nothing is resumed.
NothingAsked ==
    /\ \A h \in Handlers : tx[h].at = "idle"
    /\ \A t \in Tasks : wait[t] = "none" /\ status[t] # "waiting_approval"
    /\ \A w \in Workers : at[w] # "reparking"

\* Every job that is enqueued arrives.
Arriving == "enqueue_fails" \notin happens

NeverParks == Decisions = {} /\ Conversing = {}

LEMMA NothingAskedStep ==
  NeverParks /\ TypeOK /\ NothingAsked /\ [Next]_vars => NothingAsked'
<1> SUFFICES ASSUME NeverParks, TypeOK, NothingAsked, [Next]_vars PROVE NothingAsked'
  OBVIOUS
<1> USE DEF asks, slots, jobs, life
<1>1. ASSUME NEW t \in Tasks,
             \/ Create(t) \/ Spawn(t) \/ CommitSpawn(t)
             \/ \E p \in Processes : Send(p, t) \/ SendFails(p, t)
      PROVE  NothingAsked'
  BY <1>1 DEF TypeOK, NothingAsked, Create, Spawn, CommitSpawn, Send, SendFails, SetStatus
<1>2. ASSUME NEW t \in Tasks, NEW w \in Workers, Skip(w, t) \/ Block(w, t)
      PROVE  NothingAsked'
  BY <1>2 DEF TypeOK, NothingAsked, Skip, Block, Claim, Take, SetStatus
<1>3. ASSUME NEW t \in Tasks, NEW w \in Workers, Dispatch(w, t) PROVE NothingAsked'
  BY <1>3 DEF TypeOK, NothingAsked, Dispatch, Claim, Take, SetStatus, Enter
<1>4. ASSUME NEW h \in Handlers, NEW t \in Tasks, Opens(h, t) PROVE FALSE
  BY <1>4 DEF NothingAsked, NeverParks, Opens, ReadDecision, ReadWait, ReadParked
<1>5. ASSUME NEW h \in Handlers, Handle(h) PROVE FALSE
  BY <1>5 DEF NothingAsked, Handle, ReadTask, ReadDecisions, ReadWaits, Tell, Commit, Abandon
<1>6. ASSUME NEW w \in Workers, LookForWait(w) PROVE NothingAsked'
  <2>1. Stage(w, "loop") /\ UNCHANGED <<status, asks, tx>>
    BY <1>6, SlotTask DEF LookForWait, In, NothingAsked
  <2> QED BY <2>1 DEF TypeOK, NothingAsked, Stage, Enter
<1>7. ASSUME NEW w \in Workers, Requeue(w) \/ Raise(w) PROVE NothingAsked'
  <2>1. (Leave(w) \/ Stage(w, "failing")) /\ UNCHANGED <<status, asks, tx>>
    BY <1>7 DEF Requeue, Raise
  <2> QED BY <2>1 DEF TypeOK, NothingAsked, Leave, Stage, Enter
<1>8. ASSUME NEW w \in Workers, Finish(w) \/ Fail(w) \/ Criticise(w) PROVE NothingAsked'
  <2>1. /\ Leave(w) \/ Stage(w, "requeueing")
        /\ \E s \in Final \cup {"queued"} : SetStatus(job[w], s)
        /\ UNCHANGED <<asks, tx>>
    BY <1>8 DEF Finish, Fail, Criticise, Final
  <2> QED BY <2>1 DEF TypeOK, NothingAsked, Leave, Stage, Enter, SetStatus, Final
<1>9. \A w \in Workers : /\ ~ Converse(w) /\ ~ Repark(w) /\ ~ UseVerdict(w)
                         /\ ~ Ask(w) /\ ~ AskUnparked(w)
  BY DEF Converse, Repark, UseVerdict, Ask, AskUnparked, In, NeverParks, NothingAsked
<1>10. CASE CrashApi
  BY <1>10, DiesType DEF NothingAsked, CrashApi, Processes, NoTx
<1>11. CASE CrashWorker
  BY <1>11, DiesType DEF NothingAsked, CrashWorker, Processes, NoTx
<1>12. CASE StartWorker
  BY <1>12 DEF NothingAsked, StartWorker
<1>13. CASE UNCHANGED vars
  BY <1>13 DEF NothingAsked, vars
<1> QED
  BY <1>1, <1>2, <1>3, <1>4, <1>5, <1>6, <1>7, <1>8, <1>9, <1>10, <1>11, <1>12, <1>13
  DEF Next, TakeJob, Execute, Expiry, Reaping, Opens

LEMMA NothingAskedUnasked ==
  NothingAsked /\ Arriving => Unasked
BY DEF Arriving, NothingAsked, Unasked, Live

LEMMA NeverParksInv ==
  ASSUME NeverParks
  PROVE  Spec => [](TypeOK /\ NothingAsked /\ (Arriving => RunnerInv))
<1>1. Init => NothingAsked
  BY DEF Init, NothingAsked, NoTx
<1> DEFINE Inv == TypeOK /\ NothingAsked /\ (Arriving => RunnerInv)
<1>2. Inv /\ [Next]_vars => Inv'
  BY TypeStep, RunnerStep, NothingAskedStep, NothingAskedUnasked, HappensStay DEF Arriving
<1>3. Init => Inv
  BY <1>1, TypeInit, RunnerInit
<1> QED BY <1>2, <1>3, PTL DEF Spec

\* Through any crashes, recoveries, redelivered and duplicate jobs, run_task's
\* status gate lets no two executions of a task that never parks run at a time, when
\* the critic's re-queue always reaches the queue.
THEOREM GateAdmitsOne ==
  ASSUME NeverParks
  PROVE  Spec => [](Arriving => SingleRunner)
<1>1. RunnerInv => SingleRunner
  BY DEF RunnerInv, SingleRunner
<1> QED BY <1>1, NeverParksInv, PTL

\* Nor does such a task move again once it has ended.
THEOREM EndedStaysEnded ==
  ASSUME NeverParks
  PROVE  Spec => [][Arriving => EndedStays]_vars
<1>1. TypeOK /\ NothingAsked /\ (Arriving => RunnerInv) /\ [Next]_vars
        => [Arriving => EndedStays]_vars
  BY FinalStep, NothingAskedUnasked
<1> QED BY <1>1, NeverParksInv, PTL DEF Spec

-----------------------------------------------------------------------------
(* No crash of the worker, nothing resumed twice: a task has one carrier.     *)

Unowed(t) == \A p \in Processes : owed[p][t] = 0
Unexecuted(t) == \A w \in Workers : job[w] # t
Unread(t) == \A h \in Handlers : tx[h].task # t

\* Nothing carries task t; or one job does, one enqueue that is due, or one slot.
Quiet(t) == queue[t] = 0 /\ Unowed(t) /\ Unexecuted(t)
ByQueue(t) == queue[t] = 1 /\ Unowed(t) /\ Unexecuted(t)
ByOwed(t) ==
    /\ queue[t] = 0 /\ Unexecuted(t)
    /\ \E p \in Processes :
         owed[p][t] = 1 /\ \A q \in Processes \ {p} : owed[q][t] = 0
BySlot(t, stages) ==
    /\ queue[t] = 0 /\ Unowed(t)
    /\ \E w \in Workers :
         job[w] = t /\ at[w] \in stages /\ \A v \in Workers : job[v] = t => v = w

Working == {"started", "loop", "failing"}

Carried(t) ==
    /\ status[t] \in {"absent"} \cup Final => Quiet(t)
    /\ status[t] = "waiting_approval" => Quiet(t) \/ (ByQueue(t) /\ Told(t))
    /\ status[t] = "inserted" => Quiet(t) \/ ByQueue(t)
    /\ status[t] = "queued" =>
         Quiet(t) \/ ByQueue(t) \/ ByOwed(t) \/ BySlot(t, {"requeueing"})
    /\ status[t] = "running" => Quiet(t) \/ BySlot(t, Working)

Open(t) == {d \in Decisions : decision[t][d] = "pending"}

\* A task is parked, or was left running, on exactly one question.
Asked(t) ==
    /\ status[t] # "waiting_approval" =>
         wait[t] # "pending" /\ (Open(t) = {} \/ (status[t] = "running" /\ Quiet(t)))
    /\ status[t] = "waiting_approval" => Open(t) # {} \/ wait[t] = "pending"
    /\ wait[t] = "pending" => Open(t) = {}
    /\ \A d, e \in Open(t) : d = e

\* One transaction at a time is about a parked task, and its question stays open.
Sound(t) ==
    \A h \in Handlers : tx[h].task = t =>
      /\ \A g \in Handlers : tx[g].task = t => g = h
      /\ status[t] \in Parked
      /\ tx[h].at \in {"begun", "undecided", "found", "sent"}
      /\ IF tx[h].at = "sent" THEN ByQueue(t) /\ tx[h].does = "tell" ELSE Quiet(t)
      /\ tx[h].at = "undecided" => \A d \in Decisions : decision[t][d] = "none"
      /\ \/ tx[h].does = "decide" /\ tx[h].about = Open(t) /\ Open(t) # {} /\ ~ tx[h].row
         \/ /\ tx[h].does \in {"post", "tell", "expire"}
            /\ tx[h].about = {} /\ tx[h].row /\ wait[t] = "pending"
         \/ /\ tx[h].does = "reap" /\ tx[h].at \in {"begun", "undecided"}
            /\ status[t] = "waiting_approval"
      /\ tx[h].at = "undecided" => tx[h].does = "reap"

Settled(t) == Carried(t) /\ Asked(t) /\ Sound(t)
Calm == up /\ \A t \in Tasks : Settled(t)

\* The step changes nothing about task t.
Untouched(t) ==
    /\ status'[t] = status[t] /\ queue'[t] = queue[t]
    /\ \A p \in Processes : owed'[p][t] = owed[p][t]
    /\ decision'[t] = decision[t] /\ wait'[t] = wait[t]
    /\ \A w \in Workers :
         /\ job'[w] = t <=> job[w] = t
         /\ job[w] = t => at'[w] = at[w]
    /\ \A h \in Handlers :
         /\ tx'[h].task = t <=> tx[h].task = t
         /\ tx[h].task = t => tx'[h] = tx[h]

LEMMA UntouchedCalm ==
  ASSUME NEW t \in Tasks, Untouched(t), Settled(t)
  PROVE  Settled(t)'
<1>0. Carried(t) /\ Asked(t) /\ Sound(t)
  BY DEF Settled
<1>1. Unowed(t)' <=> Unowed(t)
  BY DEF Unowed, Untouched
<1>2. Unexecuted(t)' <=> Unexecuted(t)
  BY DEF Unexecuted, Untouched
<1>3. /\ Quiet(t)' <=> Quiet(t)
      /\ ByQueue(t)' <=> ByQueue(t)
      /\ ByOwed(t) => ByOwed(t)'
      /\ Told(t) => Told(t)'
  BY <1>1, <1>2 DEF Quiet, ByQueue, ByOwed, Told, Untouched
<1>4. ASSUME NEW S, BySlot(t, S) PROVE BySlot(t, S)'
  BY <1>1, <1>4 DEF BySlot, Untouched
<1>5. Open(t)' = Open(t)
  BY DEF Open, Untouched
<1>6. Carried(t)'
  <2>1. status'[t] = status[t]
    BY DEF Untouched
  <2>2. BySlot(t, Working) => BySlot(t, Working)'
    BY <1>4 DEF Working
  <2>3. BySlot(t, {"requeueing"}) => BySlot(t, {"requeueing"})'
    BY <1>4
  <2> QED BY <1>0, <1>3, <2>1, <2>2, <2>3 DEF Carried
<1>7. Asked(t)'
  BY <1>0, <1>3, <1>5 DEF Asked, Untouched
<1>8. Sound(t)'
  <2>1. ASSUME NEW h \in Handlers, tx'[h].task = t
        PROVE  tx'[h] = tx[h] /\ tx[h].task = t
    BY <2>1 DEF Untouched
  <2>2. status'[t] = status[t] /\ wait'[t] = wait[t] /\ decision'[t] = decision[t]
    BY DEF Untouched
  <2> QED BY <1>0, <1>3, <1>5, <2>1, <2>2 DEF Sound
<1> QED BY <1>6, <1>7, <1>8 DEF Settled

\* No transaction is about a task that is not parked, nor about one that is carried.
LEMMA NotRead ==
  ASSUME NEW t \in Tasks, Settled(t),
         status[t] \notin Parked \/ (~ Quiet(t) /\ ~ ByQueue(t))
  PROVE  Unread(t)
BY DEF Settled, Sound, Unread

LEMMA UnreadSound ==
  ASSUME NEW t \in Tasks, Unread(t), UNCHANGED tx
  PROVE  Unread(t)' /\ Sound(t)' /\ ~ Told(t)'
BY DEF Unread, Sound, Told

LEMMA CalmInit == Init => Calm
<1> SUFFICES ASSUME Init, NEW t \in Tasks PROVE Settled(t)
  BY DEF Init, Calm
<1>1. Quiet(t) /\ Open(t) = {} /\ wait[t] = "none" /\ status[t] = "absent"
  BY TasksAssumption DEF Init, Quiet, Unowed, Unexecuted, Open
<1>2. Unread(t)
  BY TasksAssumption DEF Init, NoTx, Unread
<1>3. Sound(t)
  BY <1>2 DEF Unread, Sound
<1> QED BY <1>1, <1>3 DEF Settled, Carried, Asked, Final

LEMMA CalmUnasked == TypeOK /\ Calm => Unasked
<1> SUFFICES ASSUME TypeOK, Calm PROVE Unasked
  OBVIOUS
<1>1. ASSUME NEW t \in Tasks, Live(t) PROVE status[t] \in Parked /\ Running(t) = {}
  <2>1. status[t] \in Parked /\ (Quiet(t) \/ ByQueue(t))
    BY <1>1 DEF Calm, Settled, Sound, Live
  <2> QED BY <2>1 DEF Quiet, ByQueue, Unexecuted, Running
<1>2. ASSUME NEW w \in Workers, at[w] = "requeueing" PROVE status[job[w]] # "running"
  <2>1. job[w] \in Tasks
    BY <1>2, SlotTask
  <2>2. Carried(job[w])
    BY <2>1 DEF Calm, Settled
  <2> QED BY <1>2, <2>2 DEF Carried, Quiet, Unexecuted, BySlot, Working
<1> QED BY <1>1, <1>2 DEF Unasked

\* A step about task t keeps Calm when it keeps it for t.
LEMMA CalmOne ==
  ASSUME Calm, NEW t \in Tasks, up', Carried(t)', Asked(t)', Sound(t)',
         \A u \in Tasks \ {t} : Untouched(u)
  PROVE  Calm'
<1>1. ASSUME NEW u \in Tasks PROVE Settled(u)'
  BY UntouchedCalm DEF Calm, Settled
<1> QED BY <1>1 DEF Calm

\* A slot's step between task t and being free leaves the other tasks' slots.
LEMMA EnterOthers ==
  ASSUME TypeOK, NEW w \in Workers, NEW t \in Tasks, NEW x \in {t, NoTask}, NEW s,
         job[w] \in {t, NoTask}, Enter(w, x, s)
  PROVE  \A u \in Tasks \ {t}, v \in Workers :
           /\ job'[v] = u <=> job[v] = u
           /\ job[v] = u => at'[v] = at[v]
BY TasksAssumption DEF TypeOK, Enter

\* An execution at work is its task's only carrier, and nobody resumes the task.
LEMMA Runs ==
  ASSUME TypeOK, Calm, NEW w \in Workers,
         at[w] \in {"started", "reparking", "loop", "failing"}
  PROVE  /\ job[w] \in Tasks /\ status[job[w]] = "running" /\ at[w] # "reparking"
         /\ queue[job[w]] = 0 /\ Unowed(job[w])
         /\ \A v \in Workers : job[v] = job[w] => v = w
         /\ Open(job[w]) = {} /\ wait[job[w]] # "pending" /\ Unread(job[w])
<1>1. job[w] \in Tasks
  BY SlotTask
<1>2. Carried(job[w]) /\ Asked(job[w]) /\ status[job[w]] \in Statuses
  BY <1>1 DEF Calm, Settled, TypeOK
<1>3. ~ Unexecuted(job[w])
  BY DEF Unexecuted
<1>4. status[job[w]] = "running"
  BY <1>2, <1>3 DEF Carried, Quiet, ByQueue, ByOwed, BySlot, Statuses, Final
<1>5. BySlot(job[w], Working)
  BY <1>2, <1>3, <1>4 DEF Carried, Quiet
<1>6. Open(job[w]) = {} /\ wait[job[w]] # "pending"
  BY <1>2, <1>3, <1>4 DEF Asked, Quiet
<1>7. Unread(job[w])
  BY <1>1, <1>3, NotRead DEF Calm, Quiet, ByQueue
<1> QED BY <1>1, <1>4, <1>5, <1>6, <1>7 DEF BySlot, Working

\* So is a slot that is about to enqueue its task.
LEMMA Requeues ==
  ASSUME TypeOK, Calm, NEW w \in Workers, at[w] = "requeueing"
  PROVE  /\ job[w] \in Tasks /\ status[job[w]] = "queued"
         /\ BySlot(job[w], {"requeueing"}) /\ Unread(job[w])
<1>1. job[w] \in Tasks
  BY SlotTask
<1>2. Carried(job[w]) /\ status[job[w]] \in Statuses
  BY <1>1 DEF Calm, Settled, TypeOK
<1>3. ~ Unexecuted(job[w]) /\ ~ BySlot(job[w], Working)
  BY DEF Unexecuted, BySlot, Working
<1>4. status[job[w]] = "queued" /\ BySlot(job[w], {"requeueing"})
  BY <1>2, <1>3 DEF Carried, Quiet, ByQueue, ByOwed, Statuses, Final
<1>5. Unread(job[w])
  BY <1>1, <1>3, NotRead DEF Calm, Quiet, ByQueue
<1> QED BY <1>1, <1>4, <1>5

\* A task with a question open is parked, and has nothing else, but for a post that
\* has enqueued it.
LEMMA OpenParked ==
  ASSUME TypeOK, Calm, NEW t \in Tasks, Open(t) # {} \/ wait[t] = "pending"
  PROVE  status[t] \in Parked /\ Unexecuted(t) /\ (Quiet(t) \/ Told(t))
BY DEF Calm, Settled, Asked, Carried, Parked, Quiet, ByQueue

\* The worker is not restarted, and nothing is repeated.
Undisturbed == Without(Repeating)

LEMMA NoRepeat ==
  ASSUME Undisturbed, NEW E, E \subseteq Repeating, Repeat(E)
  PROVE  E = {}
BY DEF Undisturbed, Without, Repeat

\* What a transaction on task t finds: one question, that is open.
LEMMA Finds ==
  ASSUME TypeOK, Calm, NEW h \in Handlers, tx[h].at # "idle", NEW t, t = tx[h].task
  PROVE  /\ t \in Tasks /\ Settled(t) /\ status[t] \in Parked
         /\ \A g \in Handlers \ {h} : tx[g].task # t
         /\ \A u \in Tasks \ {t}, g \in Handlers : tx[g].task = u => g # h
BY TxTask DEF Calm, Settled, Sound

\* A transaction's step that leaves the rows alone, and is sound, is calm.
LEMMA TxCalm ==
  ASSUME TypeOK, Calm, NEW h \in Handlers, tx[h].at # "idle", NEW t, t = tx[h].task,
         UNCHANGED <<status, queue, owed, job, at, decision, wait, up>>,
         \A g \in Handlers \ {h} : tx'[g] = tx[g],
         tx'[h].task \in {t, NoTask}, Sound(t)', Told(t) => Told(t)'
  PROVE  Calm'
<1>1. /\ t \in Tasks /\ Settled(t)
      /\ \A u \in Tasks \ {t}, g \in Handlers : tx[g].task = u => g # h
  BY Finds
<1>2. Carried(t)' /\ Asked(t)'
  BY <1>1 DEF Settled, Carried, Asked, Quiet, ByQueue, ByOwed, BySlot, Unowed, Unexecuted,
              Open
<1>3. ASSUME NEW u \in Tasks \ {t} PROVE Untouched(u)
  BY <1>1, TasksAssumption DEF Untouched
<1> QED BY <1>1, <1>2, <1>3, CalmOne DEF Calm

LEMMA OpensCalm ==
  ASSUME Undisturbed, TypeOK, Calm, NEW h \in Handlers, NEW t \in Tasks, Opens(h, t)
  PROVE  Calm'
<1> USE DEF slots, asks, jobs
<1>1. Settled(t)
  BY DEF Calm
\* No overlap, and no click on a decision that is resolved.
<1>2. ASSUME NEW does \in Kinds, NEW about \in SUBSET Decisions, NEW row \in BOOLEAN,
             Begin(h, does, t, about, row)
      PROVE  /\ tx[h].task = NoTask /\ Unread(t)
             /\ \A d \in about : decision[t][d] = "pending"
             /\ tx'[h] = [at |-> "begun", does |-> does, task |-> t, about |-> about,
                          row |-> row]
             /\ \A g \in Handlers \ {h} : tx'[g] = tx[g]
             /\ UNCHANGED <<status, queue, owed, job, at, decision, wait, up>>
  <2> DEFINE E ==
        (IF \E g \in Handlers : tx[g].task = t THEN {"overlap"} ELSE {})
        \cup (IF \E d \in about : decision[t][d] # "pending" THEN {"stale_click"} ELSE {})
  <2>1. Repeat(E)
    BY <1>2 DEF Begin
  <2>2. E \subseteq Repeating
    BY DEF Repeating
  <2> HIDE DEF E
  <2>3. E = {}
    BY <2>1, <2>2, NoRepeat
  <2>4. Unread(t) /\ \A d \in about : decision[t][d] = "pending"
    BY <2>3 DEF E, Unread
  <2>5. tx[h].task = NoTask
    BY <1>2 DEF Begin, TypeOK
  <2>6. UNCHANGED <<status, queue, owed, job, at, decision, wait, up>>
    BY <1>2 DEF Begin
  <2>7. /\ tx'[h] = [at |-> "begun", does |-> does, task |-> t, about |-> about,
                     row |-> row]
        /\ \A g \in Handlers \ {h} : tx'[g] = tx[g]
    BY <1>2, BeginsTx
  <2> QED BY <2>4, <2>5, <2>6, <2>7
\* Its question is open.
<1>3. ASSUME NEW does \in Kinds, NEW about \in SUBSET Decisions, NEW row \in BOOLEAN,
             Begin(h, does, t, about, row), status[t] \in Parked, Quiet(t),
             \/ does = "decide" /\ about = Open(t) /\ Open(t) # {} /\ ~ row
             \/ does \in {"post", "tell", "expire"} /\ about = {} /\ row
                /\ wait[t] = "pending"
             \/ does = "reap" /\ status[t] = "waiting_approval"
      PROVE  Calm'
  <2>1. /\ tx[h].task = NoTask /\ Unread(t)
        /\ tx'[h] = [at |-> "begun", does |-> does, task |-> t, about |-> about, row |-> row]
        /\ \A g \in Handlers \ {h} : tx'[g] = tx[g]
        /\ UNCHANGED <<status, queue, owed, job, at, decision, wait, up>>
    BY <1>2, <1>3
  <2>2. /\ tx'[h].at = "begun" /\ tx'[h].does = does /\ tx'[h].task = t
        /\ tx'[h].about = about /\ tx'[h].row = row
    BY <2>1
  <2>3. /\ Quiet(t)' /\ Open(t)' = Open(t)
        /\ \A g \in Handlers : tx'[g].task = t => g = h
    BY <1>3, <2>1 DEF Quiet, Unowed, Unexecuted, Open, Unread
  <2>4. Sound(t)'
    BY <1>3, <2>1, <2>2, <2>3 DEF Sound
  <2>5. Carried(t)' /\ Asked(t)'
    BY <1>1, <2>1, <2>3, <1>3 DEF Settled, Carried, Asked, Parked, Final
  <2>6. ASSUME NEW u \in Tasks \ {t} PROVE Untouched(u)
    BY <2>1, <2>2, TasksAssumption DEF Untouched
  <2> QED BY <2>1, <2>4, <2>5, <2>6, CalmOne DEF Calm
<1>4. ASSUME NEW d \in Decisions, ReadDecision(h, t, d) PROVE Calm'
  <2>1. Begin(h, "decide", t, {d}, FALSE) /\ "decide" \in Kinds
    BY <1>4 DEF ReadDecision, Kinds
  <2>2. decision[t][d] = "pending" /\ Unread(t)
    BY <1>2, <2>1
  <2>3. Open(t) = {d} /\ status[t] \in Parked /\ (Quiet(t) \/ Told(t))
    BY <1>1, <2>2, OpenParked DEF Open, Settled, Asked
  <2>4. Quiet(t)
    BY <2>2, <2>3 DEF Unread, Told
  <2> QED BY <1>3, <2>1, <2>3, <2>4
<1>5. ASSUME NEW does \in {"post", "tell", "expire"}, ReadWait(h, t, does) PROVE Calm'
  <2>1. Begin(h, does, t, {}, TRUE) /\ does \in Kinds /\ wait[t] = "pending"
    BY <1>5 DEF ReadWait, Kinds
  <2>2. Unread(t)
    BY <1>2, <2>1
  <2>3. status[t] \in Parked /\ Quiet(t)
    BY <2>1, <2>2, OpenParked DEF Unread, Told
  <2> QED BY <1>3, <2>1, <2>3
<1>6. ASSUME ReadParked(h, t) PROVE Calm'
  <2>1. Begin(h, "reap", t, {}, FALSE) /\ "reap" \in Kinds /\ status[t] = "waiting_approval"
    BY <1>6 DEF ReadParked, Kinds
  <2>2. Unread(t)
    BY <1>2, <2>1
  <2>3. Quiet(t) /\ status[t] \in Parked
    BY <1>1, <2>1, <2>2 DEF Settled, Carried, Unread, Told, Parked
  <2> QED BY <1>3, <2>1, <2>3
<1> QED BY <1>4, <1>5, <1>6 DEF Opens

LEMMA HandleCalm ==
  ASSUME Undisturbed, TypeOK, Calm, NEW h \in Handlers,
         \/ ReadTask(h) \/ ReadDecisions(h) \/ ReadWaits(h) \/ Abandon(h)
  PROVE  Calm'
<1> USE DEF slots, asks, jobs, life
<1>1. tx[h].at # "idle" /\ UNCHANGED <<status, queue, owed, job, at, decision, wait, up>>
  BY DEF ReadTask, ReadDecisions, ReadWaits, Abandon
<1>t. PICK t \in Tasks : t = tx[h].task
  BY <1>1, TxTask
<1>2. /\ Settled(t) /\ status[t] \in Parked
      /\ \A g \in Handlers \ {h} : tx[g].task # t
  BY <1>1, <1>t, Finds
<1>3. tx[h].at = "sent" => ~ Abandon(h)
  BY NoRepeat DEF Abandon, Repeating
<1>4. CASE End(h) /\ tx[h].at # "sent"
  <2>1. tx'[h] = NoTx /\ \A g \in Handlers \ {h} : tx'[g] = tx[g]
    BY <1>4, EndsTx
  <2>2. tx'[h].task = NoTask
    BY <2>1 DEF NoTx
  <2>3. Sound(t)' /\ ~ Told(t)
    BY <1>t, <1>2, <1>4, <2>1, <2>2, TasksAssumption DEF Sound, Told
  <2> QED BY <1>1, <1>t, <2>1, <2>2, <2>3, TxCalm
<1>5. ASSUME NEW s \in {"undecided", "found"}, Goes(h, s), tx[h].at \in {"begun", "undecided"},
             s = "undecided" => /\ tx[h].does = "reap"
                                /\ \A d \in Decisions : decision[t][d] = "none",
             s = "found" => tx[h].does # "reap"
      PROVE  Calm'
  <2>1. s \in TxStages \ {"idle"}
    BY DEF TxStages
  <2>2. /\ tx'[h].at = s /\ tx'[h].task = t /\ tx'[h].does = tx[h].does
        /\ tx'[h].about = tx[h].about /\ tx'[h].row = tx[h].row
        /\ \A g \in Handlers \ {h} : tx'[g] = tx[g]
    BY <1>1, <1>t, <1>5, <2>1, GoesTo
  <2>3. Quiet(t)' /\ Open(t)' = Open(t) /\ ~ Told(t)
    BY <1>1, <1>t, <1>2, <1>5 DEF Settled, Sound, Quiet, Unowed, Unexecuted, Open, Told
  <2>4. Sound(t)'
    BY <1>1, <1>t, <1>2, <1>5, <2>2, <2>3 DEF Settled, Sound
  <2> QED BY <1>1, <1>t, <2>2, <2>3, <2>4, TxCalm
<1>6. CASE ReadTask(h)
  BY <1>t, <1>2, <1>5, <1>6 DEF ReadTask
<1>7. CASE ReadDecisions(h)
  <2>1. tx[h].at = "begun" /\ tx[h].does = "reap"
    BY <1>7 DEF ReadDecisions
  <2> QED BY <1>t, <1>4, <1>5, <1>7, <2>1 DEF ReadDecisions
<1>8. CASE ReadWaits(h)
  <2>1. /\ tx[h].at = "undecided" /\ tx[h].does = "reap" /\ status[t] = "waiting_approval"
        /\ \A d \in Decisions : decision[t][d] = "none"
    BY <1>t, <1>2, <1>8 DEF ReadWaits, Settled, Sound
  <2>2. wait[t] = "pending"
    BY <1>2, <2>1 DEF Settled, Asked, Open
  <2> QED BY <1>t, <1>4, <1>8, <2>1, <2>2 DEF ReadWaits
<1>9. CASE Abandon(h)
  BY <1>3, <1>4, <1>9 DEF Abandon
<1> QED BY <1>6, <1>7, <1>8, <1>9

LEMMA TellCalm ==
  ASSUME TypeOK, Calm, NEW h \in Handlers, Tell(h)
  PROVE  Calm'
<1> USE DEF slots, asks, jobs, life
<1>t. PICK t \in Tasks : t = tx[h].task
  BY TxTask DEF Tell
<1>1. /\ tx[h].at = "found" /\ tx[h].does = "tell"
      /\ queue' = [queue EXCEPT ![t] = @ + 1] /\ Goes(h, "sent")
      /\ UNCHANGED <<status, owed, job, at, decision, wait, up>>
  BY <1>t DEF Tell
<1>2. /\ Settled(t) /\ status[t] \in Parked
      /\ \A g \in Handlers \ {h} : tx[g].task # t
      /\ \A u \in Tasks \ {t}, g \in Handlers : tx[g].task = u => g # h
  BY <1>1, <1>t, Finds
<1>3. Quiet(t) /\ tx[h].about = {} /\ tx[h].row /\ wait[t] = "pending"
  BY <1>t, <1>1, <1>2 DEF Settled, Sound
<1>4. /\ tx'[h].at = "sent" /\ tx'[h].task = t /\ tx'[h].does = "tell"
      /\ tx'[h].about = {} /\ tx'[h].row
      /\ \A g \in Handlers \ {h} : tx'[g] = tx[g]
  BY <1>t, <1>1, <1>3, GoesTo DEF TxStages
<1>5. ByQueue(t)' /\ Told(t)' /\ Open(t)' = Open(t)
  BY <1>1, <1>2, <1>3, <1>4 DEF TypeOK, Quiet, ByQueue, Unowed, Unexecuted, Told, Open
<1>6. status[t] = "waiting_approval"
  BY <1>2, <1>3 DEF Settled, Asked
<1>7. Carried(t)' /\ Asked(t)'
  BY <1>1, <1>2, <1>3, <1>5, <1>6 DEF Settled, Carried, Asked, Final
<1>8. Sound(t)'
  BY <1>1, <1>2, <1>3, <1>4, <1>5 DEF Sound
<1>9. ASSUME NEW u \in Tasks \ {t} PROVE Untouched(u)
  BY <1>1, <1>2, <1>4 DEF TypeOK, Untouched
<1> QED BY <1>1, <1>2, <1>7, <1>8, <1>9, CalmOne DEF Calm

\* The question is answered, and the task is queued with its job.
LEMMA CommitCalm ==
  ASSUME TypeOK, Calm, NEW h \in Handlers, Commit(h)
  PROVE  Calm'
<1> USE DEF slots, asks, jobs, life
<1>t. PICK t \in Tasks : t = tx[h].task
  BY Commits
<1>p. PICK p \in Processes : p = By(tx[h].does)
  BY DEF By, Processes
<1>1. /\ tx[h].at # "idle" /\ End(h)
      /\ UNCHANGED <<queue, job, at, up>>
  BY DEF Commit
<1>2. /\ Settled(t) /\ status[t] \in Parked
      /\ \A g \in Handlers \ {h} : tx[g].task # t
      /\ \A u \in Tasks \ {t}, g \in Handlers : tx[g].task = u => g # h
  BY <1>1, <1>t, Finds
<1>3. /\ tx[h].at \in {"found", "sent"}
      /\ IF tx[h].at = "sent" THEN ByQueue(t) /\ tx[h].does = "tell" ELSE Quiet(t)
      /\ \/ tx[h].does = "decide" /\ tx[h].about = Open(t) /\ Open(t) # {} /\ ~ tx[h].row
         \/ /\ tx[h].does \in {"post", "tell", "expire"}
            /\ tx[h].about = {} /\ tx[h].row /\ wait[t] = "pending"
  BY <1>t, <1>2 DEF Settled, Sound, Commit
<1>4. /\ tx'[h] = NoTx /\ tx'[h].task = NoTask
      /\ \A g \in Handlers \ {h} : tx'[g] = tx[g]
  <2>1. tx'[h] = NoTx /\ \A g \in Handlers \ {h} : tx'[g] = tx[g]
    BY <1>1, EndsTx
  <2>2. NoTx.task = NoTask
    BY DEF NoTx
  <2> QED BY <2>1, <2>2
<1>5. SetStatus(t, "queued")
  BY <1>t, <1>3 DEF Commit
<1>6. status'[t] = "queued" /\ \A u \in Tasks \ {t} : status'[u] = status[u]
  BY <1>2, <1>5 DEF TypeOK, SetStatus
<1>7. Open(t)' = {} /\ \A u \in Tasks \ {t} : decision'[u] = decision[u]
  <2>1. PICK verdict \in {"approved", "rejected"} :
          decision' = [decision EXCEPT ![t] = [d \in Decisions |->
            IF d \in tx[h].about /\ decision[t][d] # "used" THEN verdict ELSE decision[t][d]]]
    BY <1>t DEF Commit
  <2>2. \A u \in Tasks \ {t} : decision'[u] = decision[u]
    BY <1>2, <2>1 DEF TypeOK
  <2>3. \A d \in Decisions : decision'[t][d] =
          IF d \in tx[h].about /\ decision[t][d] # "used" THEN verdict ELSE decision[t][d]
    BY <1>2, <2>1 DEF TypeOK
  <2>4. tx[h].about = Open(t)
    BY <1>2, <1>3 DEF Settled, Asked
  <2> QED BY <2>2, <2>3, <2>4 DEF Open
<1>8. wait'[t] # "pending" /\ \A u \in Tasks \ {t} : wait'[u] = wait[u]
  <2>1. wait' = [wait EXCEPT ![t] =
                   IF ~ tx[h].row THEN wait[t]
                   ELSE IF tx[h].does = "expire" THEN "none" ELSE "satisfied"]
    BY <1>t DEF Commit
  <2>2. ~ tx[h].row => wait[t] # "pending"
    BY <1>2, <1>3 DEF Settled, Asked
  <2> QED BY <1>2, <2>1, <2>2 DEF TypeOK
<1>9. Unread(t)'
  BY <1>t, <1>2, <1>4, TasksAssumption DEF Unread
<1>10. /\ ByQueue(t)' \/ ByOwed(t)'
       /\ \A u \in Tasks \ {t}, q \in Processes : owed'[q][u] = owed[q][u]
  <2>1. CASE tx[h].at = "sent"
    <3>1. UNCHANGED owed
      BY <2>1 DEF Commit
    <3> QED BY <1>1, <1>3, <2>1, <3>1 DEF ByQueue, Unowed, Unexecuted
  <2>2. CASE tx[h].at = "found"
    <3>1. owed' = [owed EXCEPT ![p][t] = @ + 1]
      BY <1>t, <1>p, <1>3, <2>2 DEF Commit
    <3>2. Quiet(t)
      BY <1>3, <2>2
    <3>3. owed'[p][t] = 1 /\ \A q \in Processes \ {p} : owed'[q][t] = 0
      BY <1>2, <3>1, <3>2 DEF TypeOK, Quiet, Unowed
    <3>4. ByOwed(t)'
      BY <1>1, <3>1, <3>2, <3>3 DEF ByOwed, Quiet, Unexecuted
    <3>5. \A u \in Tasks \ {t}, q \in Processes : owed'[q][u] = owed[q][u]
      BY <1>2, <3>1 DEF TypeOK
    <3> QED BY <3>4, <3>5
  <2> QED BY <1>3, <2>1, <2>2
<1>11. Carried(t)' /\ Asked(t)' /\ Sound(t)'
  BY <1>6, <1>7, <1>8, <1>9, <1>10 DEF Carried, Asked, Sound, Unread, Final
<1>12. ASSUME NEW u \in Tasks \ {t} PROVE Untouched(u)
  BY <1>1, <1>2, <1>4, <1>6, <1>7, <1>8, <1>10, TasksAssumption DEF Untouched
<1> QED BY <1>1, <1>2, <1>11, <1>12, CalmOne DEF Calm

\* The API dies: what it was about to do comes to nothing.
LEMMA CrashCalm == TypeOK /\ Calm /\ CrashApi => Calm'
<1> SUFFICES ASSUME TypeOK, Calm, CrashApi PROVE Calm'
  OBVIOUS
<1> USE DEF slots, asks, life
<1>1. "api" \in Processes /\ Dies("api")
  BY DEF CrashApi, Processes
<1>2. UNCHANGED <<status, queue, job, at, decision, wait, up>>
  BY DEF CrashApi
<1>3. ASSUME NEW t \in Tasks, NEW p \in Processes
      PROVE  owed'[p][t] = 0 \/ owed'[p][t] = owed[p][t]
  BY <1>1, DiesType
<1>4. /\ NoTx.task = NoTask
      /\ \A h \in Handlers : tx'[h] = NoTx \/ tx'[h] = tx[h]
  BY <1>1, DiesType DEF NoTx
<1>5. \A h \in Handlers : tx[h].at = "sent" /\ tx[h].does = "tell" => tx'[h] = tx[h]
  BY <1>1, DiesType DEF TxOf, By
<1>6. ASSUME NEW t \in Tasks PROVE Settled(t)'
  <2>1. Carried(t) /\ Asked(t) /\ Sound(t)
    BY DEF Calm, Settled
  <2>2. /\ Quiet(t) => Quiet(t)'
        /\ ByQueue(t) => ByQueue(t)'
        /\ BySlot(t, Working) => BySlot(t, Working)'
        /\ BySlot(t, {"requeueing"}) => BySlot(t, {"requeueing"})'
    BY <1>2, <1>3 DEF Quiet, ByQueue, BySlot, Unowed, Unexecuted
  <2>3. ByOwed(t) => ByOwed(t)' \/ Quiet(t)'
    BY <1>2, <1>3 DEF ByOwed, Quiet, Unowed, Unexecuted
  <2>4. Told(t) => Told(t)'
    BY <1>5, <2>1 DEF Told, Sound
  <2>5. Carried(t)'
    BY <1>2, <2>1, <2>2, <2>3, <2>4 DEF Carried
  <2>6. Asked(t)' /\ Open(t)' = Open(t)
    BY <1>2, <2>1, <2>2 DEF Asked, Open
  <2>7. ASSUME NEW h \in Handlers, tx'[h].task = t PROVE tx'[h] = tx[h] /\ tx[h].task = t
    BY <1>4, <2>7, TasksAssumption
  <2>8. Sound(t)'
    BY <1>2, <2>1, <2>2, <2>6, <2>7 DEF Sound
  <2> QED BY <2>5, <2>6, <2>8 DEF Settled
<1> QED BY <1>2, <1>6 DEF Calm

LEMMA CalmStep == Undisturbed /\ TypeOK /\ Calm /\ [Next]_vars => Calm'
<1> SUFFICES ASSUME Undisturbed, TypeOK, Calm, [Next]_vars PROVE Calm'
  OBVIOUS
<1> USE DEF jobs, slots, asks, life
<1>c. up /\ \A t \in Tasks : Settled(t) /\ Carried(t) /\ Asked(t) /\ Sound(t)
  BY DEF Calm, Settled
\* A step that says nothing to the handlers about a task they do not read.
<1>d. ASSUME NEW t \in Tasks, Unread(t), UNCHANGED <<tx, up>>, Carried(t)', Asked(t)',
             ASSUME NEW u \in Tasks \ {t}
             PROVE  /\ status'[u] = status[u] /\ queue'[u] = queue[u]
                    /\ \A p \in Processes : owed'[p][u] = owed[p][u]
                    /\ decision'[u] = decision[u] /\ wait'[u] = wait[u]
                    /\ \A w \in Workers :
                         /\ job'[w] = u <=> job[w] = u
                         /\ job[w] = u => at'[w] = at[w]
      PROVE  Calm'
  <2>1. ASSUME NEW u \in Tasks \ {t} PROVE Untouched(u)
    BY <1>d DEF Untouched
  <2>2. Sound(t)'
    BY <1>d, UnreadSound
  <2> QED BY <1>c, <1>d, <2>1, <2>2, CalmOne
<1>1. ASSUME NEW t \in Tasks, Create(t) PROVE Calm'
  <2>1. Quiet(t) /\ Unread(t)
    BY <1>1, <1>c, NotRead DEF Create, Carried, Parked
  <2>2. "api" \in Processes
    BY DEF Processes
  <2>3. /\ status'[t] = "queued" /\ owed'["api"][t] = 1
        /\ \A q \in Processes \ {"api"} : owed'[q][t] = 0
    BY <1>1, <2>1, <2>2 DEF TypeOK, Create, SetStatus, Quiet, Unowed
  <2>4. ByOwed(t)'
    BY <1>1, <2>1, <2>2, <2>3 DEF ByOwed, Quiet, Create, Unexecuted
  <2>5. Carried(t)' /\ Asked(t)'
    BY <1>1, <1>c, <2>3, <2>4 DEF Carried, Asked, Final, Create, Open
  <2>6. \A u \in Tasks \ {t} : /\ status'[u] = status[u]
                               /\ \A p \in Processes : owed'[p][u] = owed[p][u]
    BY <1>1, <2>2 DEF TypeOK, Create, SetStatus
  <2> QED BY <1>1, <2>1, <2>5, <2>6, <1>d DEF Create
<1>2. ASSUME NEW t \in Tasks, Spawn(t) PROVE Calm'
  <2>1. Quiet(t) /\ Unread(t)
    BY <1>2, <1>c, NotRead DEF Spawn, Carried, Parked
  <2>2. status'[t] = "inserted" /\ queue'[t] = 1
    BY <1>2, <2>1 DEF TypeOK, Spawn, SetStatus, Quiet
  <2>3. ByQueue(t)'
    BY <1>2, <2>1, <2>2 DEF ByQueue, Quiet, Spawn, Unowed, Unexecuted
  <2>4. Carried(t)' /\ Asked(t)'
    BY <1>2, <1>c, <2>2, <2>3 DEF Carried, Asked, Final, Spawn, Open
  <2>5. \A u \in Tasks \ {t} : status'[u] = status[u] /\ queue'[u] = queue[u]
    BY <1>2 DEF TypeOK, Spawn, SetStatus
  <2> QED BY <1>2, <2>1, <2>4, <2>5, <1>d DEF Spawn
<1>3. ASSUME NEW t \in Tasks, CommitSpawn(t) PROVE Calm'
  <2>1. (Quiet(t) \/ ByQueue(t)) /\ Unread(t)
    BY <1>3, <1>c, NotRead DEF CommitSpawn, Carried, Parked
  <2>2. status'[t] = "queued" /\ \A u \in Tasks \ {t} : status'[u] = status[u]
    BY <1>3 DEF TypeOK, CommitSpawn, SetStatus
  <2>3. Quiet(t)' \/ ByQueue(t)'
    BY <1>3, <2>1 DEF CommitSpawn, Quiet, ByQueue, Unowed, Unexecuted
  <2>4. Carried(t)' /\ Asked(t)'
    BY <1>3, <1>c, <2>1, <2>2, <2>3 DEF Carried, Asked, Final, CommitSpawn, Open
  <2> QED BY <1>3, <2>1, <2>2, <2>4, <1>d DEF CommitSpawn
\* A task that is due to be enqueued is queued, and carried by that alone.
<1>o. ASSUME NEW t \in Tasks, NEW p \in Processes, owed[p][t] > 0
      PROVE  /\ status[t] = "queued" /\ ByOwed(t) /\ Unread(t) /\ owed[p][t] = 1
             /\ \A q \in Processes \ {p} : owed[q][t] = 0
  <2>1. ~ Unowed(t) /\ status[t] \in Statuses /\ Carried(t)
    BY <1>o, <1>c DEF Unowed, TypeOK
  <2>2. status[t] = "queued" /\ ByOwed(t)
    BY <2>1 DEF Carried, Quiet, ByQueue, BySlot, Statuses, Final
  <2>3. Unread(t)
    BY <1>c, <2>2, NotRead DEF Parked
  <2>4. owed[p][t] = 1 /\ \A q \in Processes \ {p} : owed[q][t] = 0
    BY <1>o, <2>2 DEF ByOwed
  <2> QED BY <2>2, <2>3, <2>4
<1>4. ASSUME NEW t \in Tasks, NEW p \in Processes, Send(p, t) PROVE Calm'
  <2>1. /\ status[t] = "queued" /\ ByOwed(t) /\ Unread(t) /\ owed[p][t] = 1
        /\ \A q \in Processes \ {p} : owed[q][t] = 0
    BY <1>4, <1>o DEF Send
  <2>2. /\ queue'[t] = 1
        /\ \A q \in Processes : owed'[q][t] = 0
    BY <1>4, <2>1 DEF TypeOK, Send, ByOwed
  <2>3. ByQueue(t)'
    BY <1>4, <2>1, <2>2 DEF ByQueue, ByOwed, Send, Unowed, Unexecuted
  <2>4. Carried(t)' /\ Asked(t)'
    BY <1>4, <1>c, <2>1, <2>3 DEF Carried, Asked, Final, Send, Open
  <2>5. \A u \in Tasks \ {t} : /\ queue'[u] = queue[u]
                               /\ \A q \in Processes : owed'[q][u] = owed[q][u]
    BY <1>4 DEF TypeOK, Send
  <2> QED BY <1>4, <2>1, <2>4, <2>5, <1>d DEF Send
<1>5. ASSUME NEW t \in Tasks, NEW p \in Processes, SendFails(p, t) PROVE Calm'
  <2>1. /\ status[t] = "queued" /\ ByOwed(t) /\ Unread(t) /\ owed[p][t] = 1
        /\ \A q \in Processes \ {p} : owed[q][t] = 0
    BY <1>5, <1>o DEF SendFails
  <2>2. \A q \in Processes : owed'[q][t] = 0
    BY <1>5, <2>1 DEF TypeOK, SendFails
  <2>3. Quiet(t)'
    BY <1>5, <2>1, <2>2 DEF Quiet, ByOwed, SendFails, Unowed, Unexecuted
  <2>4. Carried(t)' /\ Asked(t)'
    BY <1>5, <1>c, <2>1, <2>3 DEF Carried, Asked, Final, SendFails, Open
  <2>5. \A u \in Tasks \ {t}, q \in Processes : owed'[q][u] = owed[q][u]
    BY <1>5 DEF TypeOK, SendFails
  <2> QED BY <1>5, <2>1, <2>4, <2>5, <1>d DEF SendFails
\* The task of a job that is taken is carried by that job alone.
<1>6. ASSUME NEW t \in Tasks, NEW w \in Workers, Take(w, t),
             status[t] \notin Ready \/ ~ Told(t)
      PROVE  /\ ByQueue(t) /\ status[t] \in {"inserted", "queued"} /\ Asked(t)
             /\ queue'[t] = 0 /\ \A u \in Tasks \ {t} : queue'[u] = queue[u]
             /\ Open(t) = {} /\ wait[t] # "pending" /\ Unread(t)
             /\ UNCHANGED <<owed, decision, wait, tx, up>>
  <2>1. queue[t] > 0 /\ status[t] \in Statuses /\ Carried(t) /\ Asked(t)
    BY <1>6, <1>c DEF Take, TypeOK
  <2>2. ByQueue(t) /\ status[t] \in {"inserted", "queued"}
    BY <1>6, <2>1 DEF Carried, Quiet, ByOwed, BySlot, Statuses, Final, Ready
  <2>3. queue'[t] = 0 /\ \A u \in Tasks \ {t} : queue'[u] = queue[u]
    BY <1>6, <2>2 DEF Take, TypeOK, ByQueue
  <2>4. Unread(t)
    BY <1>c, <2>2, NotRead DEF Parked
  <2> QED BY <1>6, <2>1, <2>2, <2>3, <2>4 DEF Take, Asked
<1>7. ASSUME NEW t \in Tasks, NEW w \in Workers, Skip(w, t) PROVE Calm'
  <2>1. Take(w, t) /\ status[t] \notin Ready /\ UNCHANGED <<status, job, at>>
    BY <1>7 DEF Skip
  <2>2. Quiet(t)' /\ status[t] = "inserted"
    BY <1>6, <2>1 DEF Quiet, ByQueue, Unowed, Unexecuted, Ready
  <2>3. Carried(t)' /\ Asked(t)'
    BY <1>6, <2>1, <2>2 DEF Carried, Asked, Final, Open
  <2> QED BY <1>6, <2>1, <2>3, <1>d
<1>8. ASSUME NEW t \in Tasks, NEW w \in Workers, Block(w, t) PROVE Calm'
  <2>1. /\ Take(w, t) /\ ~ Told(t) /\ UNCHANGED <<job, at>>
        /\ status' = [status EXCEPT ![t] = "blocked"]
    BY <1>8 DEF Block, Claim, SetStatus
  <2>2. Quiet(t)'
    BY <1>6, <2>1 DEF Quiet, ByQueue, Unowed, Unexecuted
  <2>3. status'[t] = "blocked" /\ \A u \in Tasks \ {t} : status'[u] = status[u]
    BY <2>1 DEF TypeOK
  <2>4. Carried(t)' /\ Asked(t)'
    BY <1>6, <2>1, <2>2, <2>3 DEF Carried, Asked, Final, Open
  <2> QED BY <1>6, <2>1, <2>3, <2>4, <1>d
<1>9. ASSUME NEW t \in Tasks, NEW w \in Workers, Dispatch(w, t) PROVE Calm'
  <2>1. /\ Take(w, t) /\ ~ Told(t) /\ Enter(w, t, "started") /\ at[w] = "free"
        /\ status' = [status EXCEPT ![t] = "running"]
    BY <1>9 DEF Dispatch, Claim, SetStatus, Take, Idle
  <2>2. job[w] = NoTask
    BY <2>1 DEF TypeOK
  <2>3. \A u \in Tasks \ {t}, v \in Workers :
          /\ job'[v] = u <=> job[v] = u
          /\ job[v] = u => at'[v] = at[v]
    BY <2>1, <2>2, EnterOthers
  <2>4. status'[t] = "running" /\ \A u \in Tasks \ {t} : status'[u] = status[u]
    BY <2>1 DEF TypeOK
  <2>5. job'[w] = t /\ at'[w] = "started" /\ \A v \in Workers \ {w} : job'[v] = job[v]
    BY <2>1 DEF TypeOK, Enter
  <2>6. BySlot(t, Working)'
    BY <1>6, <2>1, <2>5 DEF BySlot, ByQueue, Unowed, Unexecuted, Working
  <2>7. Carried(t)' /\ Asked(t)'
    BY <1>6, <2>1, <2>4, <2>6 DEF Carried, Asked, Final, Open
  <2> QED BY <1>6, <2>1, <2>3, <2>4, <2>7, <1>d
\* An execution that goes on.
<1>g. ASSUME NEW w \in Workers, at[w] \in {"started", "reparking", "loop", "failing"},
             NEW s \in Working, Stage(w, s), UNCHANGED <<status, queue, owed, asks, tx, up>>
      PROVE  Calm'
  <2>t. PICK t \in Tasks : job[w] = t
    BY <1>g, SlotTask
  <2>1. /\ status[t] = "running" /\ queue[t] = 0 /\ Unowed(t)
        /\ \A v \in Workers : job[v] = t => v = w
        /\ Open(t) = {} /\ wait[t] # "pending" /\ Unread(t)
    BY <2>t, <1>g, Runs
  <2>2. Enter(w, t, s)
    BY <2>t, <1>g DEF Stage
  <2>3. \A u \in Tasks \ {t}, v \in Workers :
          /\ job'[v] = u <=> job[v] = u
          /\ job[v] = u => at'[v] = at[v]
    BY <2>t, <2>2, EnterOthers
  <2>4. job' = job /\ at'[w] = s
    BY <2>t, <2>2 DEF TypeOK, Enter
  <2>5. BySlot(t, Working)'
    BY <2>t, <1>g, <2>1, <2>4 DEF BySlot, Unowed
  <2>6. Carried(t)' /\ Asked(t)'
    BY <1>g, <2>1, <2>4, <2>5 DEF Carried, Asked, Final, Open
  <2> QED BY <1>g, <2>1, <2>3, <2>6, <1>d
<1>10. ASSUME NEW w \in Workers, LookForWait(w) PROVE Calm'
  <2>1. at[w] = "started" /\ UNCHANGED <<status, queue, owed, asks, tx, up>>
    BY <1>10 DEF LookForWait, In
  <2>2. wait[job[w]] # "pending"
    BY <2>1, Runs
  <2> QED BY <1>10, <1>g, <2>1, <2>2 DEF LookForWait, Working
<1>11. ASSUME NEW w \in Workers, Repark(w) PROVE FALSE
  BY <1>11, Runs DEF Repark, In
\* One that stays where it is while its questions change.
<1>q. ASSUME NEW w \in Workers, at[w] = "loop", NEW t \in Tasks, job[w] = t,
             UNCHANGED <<status, queue, owed, job, at, tx, up>>,
             Open(t)' = {}, wait'[t] # "pending",
             \A u \in Tasks \ {t} : decision'[u] = decision[u] /\ wait'[u] = wait[u]
      PROVE  Calm'
  <2>1. status[t] = "running" /\ Unread(t)
    BY <1>q, Runs
  <2>2. Carried(t)' /\ Asked(t)'
    BY <1>q, <1>c, <2>1 DEF Carried, Quiet, Unexecuted, BySlot, Unowed, Final, Asked
  <2> QED BY <1>q, <2>1, <2>2, <1>d
<1>12. ASSUME NEW w \in Workers, UseVerdict(w) PROVE Calm'
  <2>t. PICK t \in Tasks : job[w] = t
    BY <1>12, SlotTask DEF UseVerdict, In
  <2>1. at[w] = "loop" /\ UNCHANGED <<status, queue, owed, job, at, tx, wait, up>>
    BY <1>12 DEF UseVerdict, In
  <2>2. Open(t) = {} /\ wait[t] # "pending"
    BY <2>t, <2>1, Runs
  <2>3. PICK d \in Decisions : decision' = [decision EXCEPT ![t][d] = "used"]
    BY <2>t, <1>12 DEF UseVerdict
  <2>4. Open(t)' = {} /\ \A u \in Tasks \ {t} : decision'[u] = decision[u]
    BY <2>2, <2>3 DEF TypeOK, Open
  <2> QED BY <2>t, <2>1, <2>2, <2>4, <1>q
\* An execution that ends leaves its task quiet.
<1>l. ASSUME NEW w \in Workers, at[w] \in {"started", "reparking", "loop", "failing"},
             Leave(w), NEW t \in Tasks, job[w] = t, UNCHANGED <<queue, owed>>
      PROVE  /\ status[t] = "running" /\ Quiet(t)'
             /\ Open(t) = {} /\ wait[t] # "pending" /\ Unread(t)
             /\ \A u \in Tasks \ {t}, v \in Workers :
                  /\ job'[v] = u <=> job[v] = u
                  /\ job[v] = u => at'[v] = at[v]
  <2>1. /\ status[t] = "running" /\ queue[t] = 0 /\ Unowed(t)
        /\ \A v \in Workers : job[v] = t => v = w
        /\ Open(t) = {} /\ wait[t] # "pending" /\ Unread(t)
    BY <1>l, Runs
  <2>2. \A v \in Workers : job'[v] # t
    BY <1>l, <2>1, TasksAssumption DEF Leave, Enter, TypeOK
  <2>3. \A u \in Tasks \ {t}, v \in Workers :
          /\ job'[v] = u <=> job[v] = u
          /\ job[v] = u => at'[v] = at[v]
    BY <1>l, <2>1, EnterOthers DEF Leave
  <2>4. Quiet(t)'
    BY <1>l, <2>1, <2>2 DEF Quiet, Unowed, Unexecuted
  <2> QED BY <2>1, <2>3, <2>4
<1>13. ASSUME NEW w \in Workers, Ask(w) PROVE Calm'
  <2>t. PICK t \in Tasks : job[w] = t
    BY <1>13, SlotTask DEF Ask, In
  <2>1. /\ at[w] = "loop" /\ Leave(w) /\ UNCHANGED <<queue, owed, wait, tx, up>>
        /\ status' = [status EXCEPT ![t] = "waiting_approval"]
    BY <2>t, <1>13 DEF Ask, In, SetStatus
  <2>2. /\ Quiet(t)'
        /\ Open(t) = {} /\ wait[t] # "pending" /\ Unread(t)
        /\ \A u \in Tasks \ {t}, v \in Workers :
             /\ job'[v] = u <=> job[v] = u
             /\ job[v] = u => at'[v] = at[v]
    BY <2>t, <1>l, <2>1
  <2>3. PICK d \in Decisions : decision' = [decision EXCEPT ![t][d] = "pending"]
    BY <2>t, <1>13 DEF Ask
  <2>4. Open(t)' = {d} /\ \A u \in Tasks \ {t} : decision'[u] = decision[u]
    BY <2>2, <2>3 DEF TypeOK, Open
  <2>5. status'[t] = "waiting_approval" /\ \A u \in Tasks \ {t} : status'[u] = status[u]
    BY <2>1 DEF TypeOK
  <2>6. Carried(t)' /\ Asked(t)'
    BY <2>1, <2>2, <2>4, <2>5 DEF Carried, Asked, Final
  <2> QED BY <2>1, <2>2, <2>4, <2>5, <2>6, <1>d
\* A task that was asked for quietly is left running, and nothing carries it.
<1>14. ASSUME NEW w \in Workers, AskUnparked(w) PROVE Calm'
  <2>t. PICK t \in Tasks : job[w] = t
    BY <1>14, SlotTask DEF AskUnparked, In
  <2>1. at[w] = "loop" /\ Leave(w) /\ UNCHANGED <<status, queue, owed, wait, tx, up>>
    BY <1>14 DEF AskUnparked, In
  <2>2. /\ status[t] = "running" /\ Quiet(t)'
        /\ Open(t) = {} /\ wait[t] # "pending" /\ Unread(t)
        /\ \A u \in Tasks \ {t}, v \in Workers :
             /\ job'[v] = u <=> job[v] = u
             /\ job[v] = u => at'[v] = at[v]
    BY <2>t, <1>l, <2>1
  <2>3. PICK d \in Decisions : decision' = [decision EXCEPT ![t][d] = "pending"]
    BY <2>t, <1>14 DEF AskUnparked
  <2>4. Open(t)' = {d} /\ \A u \in Tasks \ {t} : decision'[u] = decision[u]
    BY <2>2, <2>3 DEF TypeOK, Open
  <2>5. Carried(t)' /\ Asked(t)'
    BY <2>1, <2>2, <2>4 DEF Carried, Asked, Final
  <2> QED BY <2>1, <2>2, <2>4, <2>5, <1>d
<1>15. ASSUME NEW w \in Workers, Converse(w) PROVE Calm'
  <2>t. PICK t \in Tasks : job[w] = t
    BY <1>15, SlotTask DEF Converse, In
  <2>1. at[w] = "loop" /\ UNCHANGED <<queue, owed, decision, up>>
    BY <1>15 DEF Converse, In
  <2>2. Open(t) = {} /\ wait[t] # "pending" /\ Unread(t)
    BY <2>t, <2>1, Runs
  <2>3. CASE wait[t] = "satisfied"
    <3>1. UNCHANGED <<status, job, at, tx>> /\ wait' = [wait EXCEPT ![t] = "none"]
      BY <2>t, <1>15, <2>3 DEF Converse
    <3>2. /\ wait'[t] = "none" /\ \A u \in Tasks \ {t} : wait'[u] = wait[u]
          /\ Open(t)' = {}
      BY <2>1, <2>2, <3>1 DEF TypeOK, Open
    <3> QED BY <2>t, <2>1, <3>1, <3>2, <1>q
  <2>4. CASE wait[t] # "satisfied"
    <3>1. /\ Leave(w) /\ wait' = [wait EXCEPT ![t] = "pending"]
          /\ status' = [status EXCEPT ![t] = "waiting_approval"]
          /\ tx' = [h \in Handlers |->
                      IF tx[h].task = t THEN [tx[h] EXCEPT !.row = FALSE] ELSE tx[h]]
      BY <2>t, <1>15, <2>2, <2>4 DEF Converse, SetStatus
    <3>2. /\ Quiet(t)'
          /\ \A u \in Tasks \ {t}, v \in Workers :
               /\ job'[v] = u <=> job[v] = u
               /\ job[v] = u => at'[v] = at[v]
      BY <2>t, <1>l, <2>1, <3>1
    <3>3. /\ wait'[t] = "pending" /\ status'[t] = "waiting_approval"
          /\ \A u \in Tasks \ {t} : wait'[u] = wait[u] /\ status'[u] = status[u]
      BY <3>1 DEF TypeOK
    <3>4. Carried(t)' /\ Asked(t)'
      BY <2>1, <2>2, <3>2, <3>3 DEF Carried, Asked, Final, Open
    <3>5. tx' = tx
      <4>1. tx = [h \in Handlers |-> tx[h]]
        BY DEF TypeOK
      <4> QED BY <2>2, <3>1, <4>1 DEF Unread
    <3> QED BY <2>1, <2>2, <3>2, <3>3, <3>4, <3>5, <1>d
  <2> QED BY <2>3, <2>4
\* An execution that ends without a question open leaves its task ended.
<1>f. ASSUME NEW w \in Workers, at[w] \in {"started", "reparking", "loop", "failing"},
             Leave(w), UNCHANGED <<queue, owed, decision, wait, tx, up>>,
             NEW s \in Final, status' = [status EXCEPT ![job[w]] = s]
      PROVE  Calm'
  <2>t. PICK t \in Tasks : job[w] = t
    BY <1>f, SlotTask
  <2>1. /\ Quiet(t)'
        /\ Open(t) = {} /\ wait[t] # "pending" /\ Unread(t)
        /\ \A u \in Tasks \ {t}, v \in Workers :
             /\ job'[v] = u <=> job[v] = u
             /\ job[v] = u => at'[v] = at[v]
    BY <1>f, <1>l, <2>t
  <2>2. status'[t] = s /\ \A u \in Tasks \ {t} : status'[u] = status[u]
    BY <1>f, <2>t DEF TypeOK
  <2>3. Carried(t)' /\ Asked(t)'
    BY <1>f, <2>1, <2>2 DEF Carried, Asked, Final, Open
  <2> QED BY <1>f, <2>1, <2>2, <2>3, <1>d
<1>16. ASSUME NEW w \in Workers, Finish(w) PROVE Calm'
  BY <1>16, <1>f DEF Finish, In, SetStatus, Final
<1>17. ASSUME NEW w \in Workers, Fail(w) PROVE Calm'
  BY <1>17, <1>f DEF Fail, In, SetStatus, Final
<1>18. ASSUME NEW w \in Workers, Criticise(w) PROVE Calm'
  <2>t. PICK t \in Tasks : job[w] = t
    BY <1>18, SlotTask DEF Criticise, In
  <2>1. /\ at[w] = "loop" /\ Enter(w, t, "requeueing")
        /\ UNCHANGED <<queue, owed, decision, wait, tx, up>>
        /\ status' = [status EXCEPT ![t] = "queued"]
    BY <2>t, <1>18 DEF Criticise, In, SetStatus, Stage
  <2>2. /\ queue[t] = 0 /\ Unowed(t)
        /\ \A v \in Workers : job[v] = t => v = w
        /\ Open(t) = {} /\ wait[t] # "pending" /\ Unread(t)
    BY <2>t, <2>1, Runs
  <2>3. \A u \in Tasks \ {t}, v \in Workers :
          /\ job'[v] = u <=> job[v] = u
          /\ job[v] = u => at'[v] = at[v]
    BY <2>t, <2>1, EnterOthers
  <2>4. job' = job /\ at'[w] = "requeueing"
    BY <2>t, <2>1 DEF TypeOK, Enter
  <2>5. status'[t] = "queued" /\ \A u \in Tasks \ {t} : status'[u] = status[u]
    BY <2>1 DEF TypeOK
  <2>6. BySlot(t, {"requeueing"})'
    BY <2>t, <2>1, <2>2, <2>4 DEF BySlot, Unowed
  <2>7. Carried(t)' /\ Asked(t)'
    BY <2>1, <2>2, <2>4, <2>5, <2>6 DEF Carried, Asked, Final, Open
  <2> QED BY <2>1, <2>2, <2>3, <2>5, <2>7, <1>d
\* A slot lets go of the task it has queued, and has enqueued or not.
<1>e. ASSUME NEW w \in Workers, at[w] = "requeueing", NEW t \in Tasks, job[w] = t, Leave(w),
             NEW n \in {0, 1}, queue' = [queue EXCEPT ![t] = @ + n],
             UNCHANGED <<status, owed, decision, wait, tx, up>>
      PROVE  Calm'
  <2>1. status[t] = "queued" /\ BySlot(t, {"requeueing"}) /\ Unread(t)
    BY <1>e, Requeues
  <2>2. /\ queue'[t] = n /\ \A u \in Tasks \ {t} : queue'[u] = queue[u]
    BY <1>e, <2>1 DEF TypeOK, BySlot
  <2>3. \A v \in Workers : job'[v] # t
    BY <1>e, <2>1, TasksAssumption DEF TypeOK, Leave, Enter, BySlot
  <2>4. Quiet(t)' \/ ByQueue(t)'
    BY <1>e, <2>1, <2>2, <2>3 DEF BySlot, ByQueue, Quiet, Unowed, Unexecuted
  <2>5. \A u \in Tasks \ {t}, v \in Workers :
          /\ job'[v] = u <=> job[v] = u
          /\ job[v] = u => at'[v] = at[v]
    BY <1>e, EnterOthers DEF Leave
  <2>6. Carried(t)' /\ Asked(t)'
    BY <1>e, <1>c, <2>1, <2>4 DEF Carried, Asked, Final, Open
  <2> QED BY <1>e, <2>1, <2>2, <2>5, <2>6, <1>d
<1>19. ASSUME NEW w \in Workers, Requeue(w) PROVE Calm'
  <2>1. at[w] = "requeueing" /\ job[w] \in Tasks
    BY <1>19, SlotTask DEF Requeue, In
  <2> QED BY <1>19, <2>1, <1>e DEF Requeue
<1>20. ASSUME NEW w \in Workers, Raise(w) PROVE Calm'
  <2>1. UNCHANGED <<status, queue, owed, decision, wait, tx, up>>
    BY <1>20 DEF Raise
  <2>2. CASE at[w] = "requeueing"
    <3>1. job[w] \in Tasks /\ status[job[w]] = "queued"
      BY <2>2, Requeues
    <3>2. Leave(w)
      BY <1>20, <3>1 DEF Raise
    <3>3. queue' = [queue EXCEPT ![job[w]] = @ + 0]
      BY <2>1, <3>1 DEF TypeOK
    <3> QED BY <1>e, <2>1, <2>2, <3>1, <3>2, <3>3
  <2>3. CASE at[w] # "requeueing"
    <3>1. at[w] \in {"started", "reparking", "loop"}
      BY <1>20, <2>3 DEF Raise
    <3>2. Stage(w, "failing")
      BY <1>20, <3>1, Runs DEF Raise
    <3> QED BY <1>g, <2>1, <3>1, <3>2 DEF Working
  <2> QED BY <2>2, <2>3
<1>21. ~ CrashWorker /\ ~ StartWorker
  BY <1>c, NoRepeat DEF CrashWorker, StartWorker, Repeating
<1>22. CASE UNCHANGED vars
  <2>1. \A t \in Tasks : Untouched(t)
    BY <1>22 DEF vars, Untouched
  <2> QED BY <1>22, <1>c, <2>1, UntouchedCalm DEF Calm, vars
<1> QED
  BY <1>1, <1>2, <1>3, <1>4, <1>5, <1>7, <1>8, <1>9, <1>10, <1>11, <1>12, <1>13, <1>14,
     <1>15, <1>16, <1>17, <1>18, <1>19, <1>20, <1>21, <1>22,
     OpensCalm, HandleCalm, TellCalm, CommitCalm, CrashCalm
  DEF Next, TakeJob, Execute, Handle, Expiry, Reaping, Opens

LEMMA CalmInv == Spec => [](TypeOK /\ (Undisturbed => RunnerInv /\ Calm))
<1> DEFINE Inv == TypeOK /\ (Undisturbed => RunnerInv /\ Calm)
<1>1. Inv /\ [Next]_vars => Inv'
  BY TypeStep, CalmStep, CalmUnasked, RunnerStep, HappensStay DEF Undisturbed, Without
<1>2. Init => Inv
  BY TypeInit, RunnerInit, CalmInit
<1> QED BY <1>1, <1>2, PTL DEF Spec

\* Without a restart of the worker, and where no decision is resolved twice, no two
\* transactions about one task are open at once and no post that has woken a task is
\* rolled back, no two executions work on one task, however often it parks and is
\* resumed, even when the API dies, an enqueue fails, a tool enqueues a task it has not
\* committed or parks one quietly.
THEOREM OneRunnerUndisturbed == Spec => []OneRunner
<1>1. (Undisturbed => RunnerInv) => OneRunner
  BY DEF RunnerInv, OneRunner, SingleRunner, Undisturbed
<1> QED BY <1>1, CalmInv, PTL

\* Nor does a task move again once it has ended.
THEOREM EndedStaysUndisturbed == Spec => FinalIsFinal
<1>1. TypeOK /\ (Undisturbed => RunnerInv /\ Calm) /\ [Next]_vars
        => [Without(Repeating) => EndedStays]_vars
  BY FinalStep, CalmUnasked DEF Undisturbed
<1> QED BY <1>1, CalmInv, PTL DEF Spec, FinalIsFinal

\* A parked task always has a question that can resume it: each transaction that
\* resumes one takes its question with it.
THEOREM ParkedTasksAsk == Spec => []ParkedHasQuestion
<1>1. (Undisturbed => Calm) => ParkedHasQuestion
  BY DEF Calm, Settled, Asked, Open, Holds, ParkedHasQuestion, Undisturbed
<1> QED BY <1>1, CalmInv, PTL

-----------------------------------------------------------------------------
(* Whatever happens: a queued task has a job, or one was lost.               *)

Carrier(t) ==
    \/ queue[t] > 0
    \/ \E p \in Processes : owed[p][t] > 0
    \/ \E w \in Workers : job[w] = t /\ at[w] = "requeueing"

\* A task that a transaction has enqueued has that job until the transaction commits,
\* and a worker that is down has no transaction open.
CarryInv ==
    /\ up => \A t \in Tasks \ lost :
               /\ status[t] = "queued" => Carrier(t)
               /\ status[t] = "inserted" \/ Told(t) => queue[t] > 0
    /\ ~ up => \A t \in Tasks : status[t] # "inserted"
    /\ ~ up => TxOf("worker") = {}
    /\ \A h \in Handlers : tx[h].at = "sent" => tx[h].does = "tell"

\* An executing slot's step that sends nothing: it may let go of a task it has queued
\* only when that job is lost.
LEMMA SlotCarries ==
  ASSUME TypeOK, CarryInv, NEW w \in Workers, up, at[w] # "free",
         Leave(w) \/ (\E s \in Stages : Stage(w, s)) \/ UNCHANGED slots,
         UNCHANGED <<queue, owed, up>>, lost \subseteq lost',
         \A h \in Handlers : /\ tx'[h].at = tx[h].at /\ tx'[h].task = tx[h].task
                             /\ tx'[h].does = tx[h].does,
         \/ at[w] # "requeueing"
         \/ job[w] \in lost',
         \/ UNCHANGED status
         \/ SetStatus(job[w], "queued") /\ Stage(w, "requeueing")
         \/ \E s \in Final \cup {"waiting_approval"} : SetStatus(job[w], s)
  PROVE  CarryInv'
<1>1. PICK u \in Tasks : job[w] = u
  BY SlotTask
<1>2. \A t \in Tasks : Told(t)' <=> Told(t)
  BY DEF Told
<1>3. ASSUME NEW t \in Tasks \ lost', status'[t] = "queued" PROVE Carrier(t)'
  <2>1. CASE t = u /\ SetStatus(u, "queued") /\ Stage(w, "requeueing")
    BY <1>1, <2>1 DEF TypeOK, Stage, Enter, Carrier
  <2>2. CASE t # u \/ UNCHANGED status
    <3>1. status[t] = "queued" /\ t \notin lost
      BY <1>1, <1>3, <2>2 DEF TypeOK, SetStatus
    <3>2. Carrier(t)
      BY <3>1 DEF CarryInv
    <3>3. \A v \in Workers : job[v] = t /\ at[v] = "requeueing" => v # w
      BY <1>1, <1>3
    <3>4. \A v \in Workers \ {w} : job'[v] = job[v] /\ at'[v] = at[v]
      BY DEF TypeOK, Leave, Stage, Enter, slots
    <3> QED BY <3>2, <3>3, <3>4 DEF Carrier
  <2>3. CASE t = u /\ \E s \in Final \cup {"waiting_approval"} : SetStatus(u, s)
    BY <1>3, <2>3 DEF TypeOK, SetStatus, Final
  <2> QED BY <1>1, <2>1, <2>2, <2>3
<1>4. ASSUME NEW t \in Tasks \ lost', status'[t] = "inserted" PROVE status[t] = "inserted"
  BY <1>1, <1>4 DEF TypeOK, SetStatus, Final
<1>5. \A h \in Handlers : tx'[h].at = "sent" => tx'[h].does = "tell"
  BY DEF CarryInv
<1> QED BY <1>2, <1>3, <1>4, <1>5 DEF CarryInv

\* A step of one transaction, h, on task t, of the process it belongs to.
LEMMA TxCarries ==
  ASSUME TypeOK, TypeOK', CarryInv, NEW h \in Handlers,
         UNCHANGED <<lost, slots, up>>,
         \A g \in Handlers \ {h} : tx'[g] = tx[g],
         tx'[h].at = "idle" \/ (By(tx'[h].does) = "worker" => up),
         tx'[h].at = "sent" => tx'[h].does = "tell" /\ queue'[tx'[h].task] > 0,
         \A t \in Tasks : /\ queue[t] > 0 => queue'[t] > 0
                          /\ \A p \in Processes : owed[p][t] > 0 => owed'[p][t] > 0
                          /\ status'[t] = "inserted" => status[t] = "inserted"
                          /\ status'[t] = "queued" => status[t] = "queued" \/ Carrier(t)'
                                                      \/ t \in lost
  PROVE  CarryInv'
<1>1. ASSUME up', NEW t \in Tasks \ lost', status'[t] = "queued" PROVE Carrier(t)'
  <2>1. CASE status[t] = "queued"
    <3>1. Carrier(t)
      BY <1>1, <2>1 DEF CarryInv
    <3> QED BY <3>1 DEF Carrier, slots
  <2>2. CASE status[t] # "queued"
    BY <1>1, <2>2
  <2> QED BY <2>1, <2>2
<1>2. ASSUME up', NEW t \in Tasks \ lost', status'[t] = "inserted" \/ Told(t)'
      PROVE  queue'[t] > 0
  <2>1. CASE tx'[h].at = "sent" /\ tx'[h].task = t
    BY <2>1
  <2>2. CASE ~ (tx'[h].at = "sent" /\ tx'[h].task = t)
    <3>1. status[t] = "inserted" \/ Told(t)
      BY <1>2, <2>2 DEF Told
    <3>2. queue[t] > 0
      BY <1>2, <3>1 DEF CarryInv
    <3> QED BY <3>2
  <2> QED BY <2>1, <2>2
<1>3. ASSUME ~ up' PROVE TxOf("worker")' = {} /\ \A t \in Tasks : status'[t] # "inserted"
  BY <1>3 DEF CarryInv, TxOf
<1>4. \A g \in Handlers : tx'[g].at = "sent" => tx'[g].does = "tell"
  BY DEF CarryInv
<1> QED BY <1>1, <1>2, <1>3, <1>4 DEF CarryInv

LEMMA CarryStep == TypeOK /\ TypeOK' /\ CarryInv /\ [Next]_vars => CarryInv'
<1> SUFFICES ASSUME TypeOK, TypeOK', CarryInv, [Next]_vars PROVE CarryInv'
  OBVIOUS
<1> USE DEF jobs, slots, asks, life
<1>s. /\ {"free", "started", "reparking", "loop", "requeueing", "failing"} \subseteq Stages
      /\ Processes = {"api", "worker"}
  BY DEF Stages, Processes
\* Steps that leave the transactions alone, and the other tasks.
<1>o. ASSUME NEW t \in Tasks, UNCHANGED <<tx, up>>,
             \A u \in Tasks \ {t} :
               /\ status'[u] = status[u] /\ queue'[u] = queue[u]
               /\ \A p \in Processes : owed'[p][u] = owed[p][u]
               /\ u \in lost' <=> u \in lost,
             \A w \in Workers : at[w] = "requeueing" =>
               job'[w] = job[w] /\ at'[w] = at[w],
             up /\ t \notin lost' =>
               /\ status'[t] = "queued" => Carrier(t)'
               /\ status'[t] = "inserted" \/ Told(t) => queue'[t] > 0,
             status'[t] = "inserted" => up
      PROVE  CarryInv'
  <2>1. Told(t)' <=> Told(t)
    BY <1>o DEF Told
  <2>2. ASSUME NEW u \in Tasks \ {t}, up, u \notin lost
        PROVE  /\ status'[u] = "queued" => Carrier(u)'
               /\ status'[u] = "inserted" \/ Told(u)' => queue'[u] > 0
    BY <1>o, <2>2 DEF CarryInv, Carrier, Told
  <2>3. ASSUME ~ up PROVE TxOf("worker")' = {} /\ \A u \in Tasks : status'[u] # "inserted"
    BY <1>o, <2>3 DEF CarryInv, TxOf
  <2>4. \A h \in Handlers : tx'[h].at = "sent" => tx'[h].does = "tell"
    BY <1>o DEF CarryInv
  <2> QED BY <1>o, <2>1, <2>2, <2>3, <2>4 DEF CarryInv
<1>1. ASSUME NEW t \in Tasks, Create(t) PROVE CarryInv'
  <2>1. status'[t] = "queued" /\ owed'["api"][t] > 0
    BY <1>1, <1>s DEF TypeOK, Create, SetStatus
  <2>2. Carrier(t)' /\ (Told(t) /\ up /\ t \notin lost => queue'[t] > 0)
    BY <1>1, <1>s, <2>1 DEF Carrier, CarryInv, Create
  <2>3. \A u \in Tasks \ {t} : /\ status'[u] = status[u]
                               /\ \A p \in Processes : owed'[p][u] = owed[p][u]
    BY <1>1, <1>s DEF TypeOK, Create, SetStatus
  <2> QED BY <1>1, <1>o, <2>1, <2>2, <2>3 DEF Create
<1>2. ASSUME NEW t \in Tasks, Spawn(t) PROVE CarryInv'
  <2>1. status'[t] = "inserted" /\ queue'[t] > 0
    BY <1>2 DEF TypeOK, Spawn, SetStatus
  <2>2. \A u \in Tasks \ {t} : status'[u] = status[u] /\ queue'[u] = queue[u]
    BY <1>2 DEF TypeOK, Spawn, SetStatus
  <2> QED BY <1>2, <1>o, <2>1, <2>2 DEF Spawn
<1>3. ASSUME NEW t \in Tasks, CommitSpawn(t) PROVE CarryInv'
  <2>1. status'[t] = "queued" /\ \A u \in Tasks \ {t} : status'[u] = status[u]
    BY <1>3 DEF TypeOK, CommitSpawn, SetStatus
  <2>2. up /\ t \notin lost => queue[t] > 0
    BY <1>3 DEF CommitSpawn, CarryInv
  <2> QED BY <1>3, <1>o, <2>1, <2>2 DEF CommitSpawn, Carrier
<1>4. ASSUME NEW t \in Tasks, NEW p \in Processes, Send(p, t) PROVE CarryInv'
  <2>1. queue'[t] > 0 /\ status' = status
    BY <1>4 DEF TypeOK, Send
  <2>2. \A u \in Tasks \ {t} : /\ queue'[u] = queue[u]
                               /\ \A q \in Processes : owed'[q][u] = owed[q][u]
    BY <1>4 DEF TypeOK, Send
  <2>3. status'[t] = "inserted" => up
    BY <2>1 DEF CarryInv
  <2> QED BY <1>4, <1>o, <2>1, <2>2, <2>3 DEF Send, Carrier
<1>5. ASSUME NEW t \in Tasks, NEW p \in Processes, SendFails(p, t) PROVE CarryInv'
  <2>1. \A u \in Tasks \ {t}, q \in Processes : owed'[q][u] = owed[q][u]
    BY <1>5 DEF TypeOK, SendFails
  <2>2. status'[t] = "inserted" => up
    BY <1>5 DEF SendFails, CarryInv
  <2> QED BY <1>5, <1>o, <2>1, <2>2 DEF SendFails
\* A job that is taken is lost where its task is not queued yet.
<1>6. ASSUME NEW t \in Tasks, NEW w \in Workers, Take(w, t)
      PROVE  /\ up /\ UNCHANGED <<tx, up, owed>> /\ at[w] = "free"
             /\ \A u \in Tasks \ {t} : queue'[u] = queue[u]
  BY <1>6 DEF TypeOK, Take, Idle
<1>7. ASSUME NEW t \in Tasks, NEW w \in Workers, Skip(w, t) PROVE CarryInv'
  <2>1. /\ UNCHANGED <<status, slots>> /\ status[t] # "queued"
        /\ status[t] = "inserted" \/ Told(t) => t \in lost'
        /\ \A u \in Tasks \ {t} : u \in lost' <=> u \in lost
    BY <1>7 DEF Skip, Ready
  <2> QED BY <1>6, <1>7, <1>o, <2>1 DEF Skip
<1>8. ASSUME NEW t \in Tasks, NEW w \in Workers, Block(w, t) PROVE CarryInv'
  <2>1. /\ status'[t] = "blocked" /\ UNCHANGED slots /\ ~ Told(t)
        /\ \A u \in Tasks \ {t} : status'[u] = status[u] /\ (u \in lost' <=> u \in lost)
    BY <1>8 DEF TypeOK, Block, Claim, SetStatus
  <2> QED BY <1>6, <1>8, <1>o, <2>1 DEF Block, Claim
<1>9. ASSUME NEW t \in Tasks, NEW w \in Workers, Dispatch(w, t) PROVE CarryInv'
  <2>1. /\ status'[t] = "running" /\ ~ Told(t)
        /\ \A u \in Tasks \ {t} : status'[u] = status[u] /\ (u \in lost' <=> u \in lost)
    BY <1>9 DEF TypeOK, Dispatch, Claim, SetStatus
  <2>2. at[w] = "free" /\ Enter(w, t, "started")
    BY <1>9 DEF Dispatch, Claim, Take, Idle
  <2>3. \A v \in Workers : at[v] = "requeueing" => job'[v] = job[v] /\ at'[v] = at[v]
    BY <2>2 DEF TypeOK, Enter
  <2> QED BY <1>6, <1>9, <1>o, <2>1, <2>3 DEF Dispatch, Claim
<1>10. ASSUME NEW w \in Workers, LookForWait(w) \/ UseVerdict(w) PROVE CarryInv'
  <2>1. /\ at[w] \in {"started", "loop"} /\ up
        /\ UNCHANGED <<status, queue, owed, lost, tx, up>>
    BY <1>10 DEF LookForWait, UseVerdict, In
  <2>2. UNCHANGED slots \/ \E s \in Stages : Stage(w, s)
    BY <1>10, <1>s DEF LookForWait, UseVerdict
  <2> QED BY <2>1, <2>2, SlotCarries
<1>11. ASSUME NEW w \in Workers,
              Repark(w) \/ Ask(w) \/ AskUnparked(w) \/ Finish(w) \/ Criticise(w) \/ Fail(w)
       PROVE  CarryInv'
  <2>1. /\ at[w] \in {"reparking", "loop", "failing"} /\ up
        /\ UNCHANGED <<queue, owed, lost, tx, up>>
    BY <1>11 DEF Repark, Ask, AskUnparked, Finish, Criticise, Fail, In
  <2>2. \/ UNCHANGED status /\ Leave(w)
        \/ SetStatus(job[w], "queued") /\ Stage(w, "requeueing")
        \/ Leave(w) /\ \E s \in Final \cup {"waiting_approval"} : SetStatus(job[w], s)
    BY <1>11 DEF Repark, Ask, AskUnparked, Finish, Criticise, Fail, Final
  <2> QED BY <1>s, <2>1, <2>2, SlotCarries
<1>12. ASSUME NEW w \in Workers, Converse(w) PROVE CarryInv'
  <2>1. at[w] = "loop" /\ up /\ UNCHANGED <<queue, owed, lost, up>>
    BY <1>12 DEF Converse, In
  <2>2. \/ UNCHANGED <<status, slots, tx>>
        \/ UNCHANGED <<status, tx>> /\ Stage(w, "reparking")
        \/ /\ SetStatus(job[w], "waiting_approval") /\ Leave(w)
           /\ tx' = [h \in Handlers |->
                IF tx[h].task = job[w] THEN [tx[h] EXCEPT !.row = FALSE] ELSE tx[h]]
    BY <1>12 DEF Converse
  <2>3. \A h \in Handlers : /\ tx'[h].at = tx[h].at /\ tx'[h].task = tx[h].task
                            /\ tx'[h].does = tx[h].does
    BY <2>1, <2>2, SlotTask, RowsTx
  <2> QED BY <1>s, <2>1, <2>2, <2>3, SlotCarries
<1>13. ASSUME NEW w \in Workers, Raise(w) PROVE CarryInv'
  <2>1. /\ at[w] \in {"started", "reparking", "loop", "requeueing"} /\ up
        /\ UNCHANGED <<status, queue, owed, tx, up>> /\ lost \subseteq lost'
        /\ at[w] = "requeueing" => job[w] \in lost'
        /\ Stage(w, "failing") \/ Leave(w)
    BY <1>13 DEF Raise
  <2> QED BY <1>s, <2>1, SlotCarries
<1>14. ASSUME NEW w \in Workers, Requeue(w) PROVE CarryInv'
  <2>1. PICK t \in Tasks : job[w] = t
    BY <1>14, SlotTask DEF Requeue, In
  <2>2. /\ at[w] = "requeueing" /\ up /\ Leave(w) /\ queue' = [queue EXCEPT ![t] = @ + 1]
        /\ UNCHANGED <<status, owed, lost, tx, up>>
    BY <1>14, <2>1 DEF Requeue, In
  <2>3. queue'[t] > 0 /\ \A u \in Tasks \ {t} : queue'[u] = queue[u]
    BY <2>2 DEF TypeOK
  <2>4. \A v \in Workers \ {w} : job'[v] = job[v] /\ at'[v] = at[v]
    BY <2>2 DEF TypeOK, Leave, Enter
  <2>5. ASSUME NEW u \in Tasks \ lost, status[u] = "queued" PROVE Carrier(u)'
    BY <2>1, <2>2, <2>3, <2>4, <2>5 DEF CarryInv, Carrier
  <2>6. ASSUME NEW u \in Tasks \ lost, status[u] = "inserted" \/ Told(u)
        PROVE  queue'[u] > 0
    BY <2>2, <2>3, <2>6 DEF CarryInv
  <2> QED BY <2>2, <2>5, <2>6 DEF CarryInv, Told
<1>15. ASSUME NEW h \in Handlers, NEW t \in Tasks, Opens(h, t) PROVE CarryInv'
  <2>1. PICK does \in Kinds, about \in SUBSET Decisions, row \in BOOLEAN :
          Begin(h, does, t, about, row)
    BY <1>15, OpensBegins
  <2>2. /\ tx'[h].at = "begun" /\ tx'[h].does = does
        /\ \A g \in Handlers \ {h} : tx'[g] = tx[g]
    <3>1. /\ tx'[h] = [at |-> "begun", does |-> does, task |-> t, about |-> about,
                       row |-> row]
          /\ \A g \in Handlers \ {h} : tx'[g] = tx[g]
      BY <2>1, BeginsTx
    <3> QED BY <3>1
  <2>3. By(does) = "worker" => up
    BY <2>1 DEF Begin
  <2>4. UNCHANGED <<status, queue, owed, lost, slots, up>>
    BY <2>1 DEF Begin
  <2> QED BY <2>2, <2>3, <2>4, TxCarries
<1>t. ASSUME NEW h \in Handlers, tx[h].at # "idle" PROVE By(tx[h].does) = "worker" => up
  BY <1>t DEF CarryInv, TxOf
<1>16. ASSUME NEW h \in Handlers,
              ReadTask(h) \/ ReadDecisions(h) \/ ReadWaits(h) \/ Abandon(h)
       PROVE  CarryInv'
  <2>1. /\ tx[h].at # "idle"
        /\ End(h) \/ \E s \in {"undecided", "found", "passed"} : Goes(h, s)
        /\ UNCHANGED <<status, queue, owed, lost, slots, up>>
    BY <1>16 DEF ReadTask, ReadDecisions, ReadWaits, Abandon
  <2>2. /\ \/ tx'[h].at = "idle"
           \/ tx'[h].at \in {"undecided", "found", "passed"} /\ tx'[h].does = tx[h].does
        /\ \A g \in Handlers \ {h} : tx'[g] = tx[g]
    BY <2>1, GoesTo, EndsTx DEF TxStages, NoTx
  <2> QED BY <1>t, <2>1, <2>2, TxCarries
<1>17. ASSUME NEW h \in Handlers, Tell(h) PROVE CarryInv'
  <2>1. PICK t \in Tasks : t = tx[h].task
    BY <1>17, TxTask DEF Tell
  <2>2. /\ tx[h].at = "found" /\ tx[h].does = "tell" /\ Goes(h, "sent")
        /\ queue' = [queue EXCEPT ![t] = @ + 1]
        /\ UNCHANGED <<status, owed, lost, slots, up>>
    BY <1>17, <2>1 DEF Tell
  <2>3. /\ tx'[h].at = "sent" /\ tx'[h].does = "tell" /\ tx'[h].task = t
        /\ \A g \in Handlers \ {h} : tx'[g] = tx[g]
    BY <2>1, <2>2, GoesTo DEF TxStages
  <2>4. queue'[t] > 0 /\ \A u \in Tasks : queue[u] > 0 => queue'[u] > 0
    BY <2>2 DEF TypeOK
  <2> QED BY <1>t, <2>2, <2>3, <2>4, TxCarries
<1>18. ASSUME NEW h \in Handlers, Commit(h) PROVE CarryInv'
  <2>1. PICK t \in Tasks : t = tx[h].task
    BY <1>18, Commits
  <2>2. tx'[h].at = "idle" /\ \A g \in Handlers \ {h} : tx'[g] = tx[g]
    BY <1>18, EndsTx DEF Commit, NoTx
  <2>3. /\ \/ UNCHANGED status /\ UNCHANGED owed
           \/ SetStatus(t, "failed") /\ UNCHANGED owed
           \/ tx[h].at = "sent" /\ SetStatus(t, "queued") /\ UNCHANGED owed
           \/ SetStatus(t, "queued") /\ \E p \in Processes : owed' = [owed EXCEPT ![p][t] = @ + 1]
        /\ UNCHANGED <<queue, lost, slots, up>>
    BY <1>18, <2>1, Processing DEF Commit, Kinds
  <2>4. \A u \in Tasks, p \in Processes : owed[p][u] > 0 => owed'[p][u] > 0
    <3>1. owed \in [Processes -> [Tasks -> Nat]]
      BY DEF TypeOK
    <3>2. UNCHANGED owed \/ \E p \in Processes : owed' = [owed EXCEPT ![p][t] = @ + 1]
      BY <2>3
    <3> QED BY <3>1, <3>2
  <2>5. \A u \in Tasks : /\ status'[u] = "inserted" => status[u] = "inserted"
                         /\ status'[u] = "queued" => status[u] = "queued" \/ u = t
    BY <2>3 DEF TypeOK, SetStatus
  <2>6. status'[t] = "queued" => status[t] = "queued" \/ Carrier(t)' \/ t \in lost
    <3>1. CASE tx[h].at = "sent"
      <4>1. Told(t) /\ (By(tx[h].does) = "worker" => up) /\ tx[h].does = "tell"
        BY <1>t, <2>1, <3>1 DEF Told, CarryInv
      <4>2. t \notin lost => queue[t] > 0
        BY <4>1 DEF CarryInv, By
      <4> QED BY <2>3, <4>2 DEF Carrier
    <3>2. CASE \E p \in Processes : owed' = [owed EXCEPT ![p][t] = @ + 1]
      BY <3>2 DEF TypeOK, Carrier
    <3>3. CASE UNCHANGED status \/ SetStatus(t, "failed")
      BY <3>3 DEF TypeOK, SetStatus
    <3> QED BY <2>3, <3>1, <3>2, <3>3
  <2> QED BY <2>2, <2>3, <2>4, <2>5, <2>6, TxCarries
<1>19. CASE CrashApi
  <2>1. /\ Dies("api") /\ lost' = lost \cup {t \in Tasks : owed["api"][t] > 0}
        /\ UNCHANGED <<status, queue, slots, up>>
    BY <1>19 DEF CrashApi
  <2>2. /\ \A h \in Handlers : tx'[h] = NoTx \/ tx'[h] = tx[h]
        /\ \A p \in Processes \ {"api"} : owed'[p] = owed[p]
    BY <1>s, <2>1, DiesType
  <2>3. NoTx.at = "idle"
    BY DEF NoTx
  <2>4. \A t \in Tasks : Told(t)' => Told(t)
    BY <2>2, <2>3 DEF Told
  <2>5. \A t \in Tasks \ lost' : Carrier(t) => Carrier(t)'
    BY <1>s, <2>1, <2>2 DEF Carrier
  <2>6. \A h \in Handlers : tx'[h].at = "sent" => tx'[h].does = "tell"
    BY <2>2, <2>3 DEF CarryInv
  <2>7. ~ up => TxOf("worker")' = {}
    BY <2>2, <2>3 DEF CarryInv, TxOf
  <2> QED BY <2>1, <2>4, <2>5, <2>6, <2>7 DEF CarryInv
<1>20. CASE CrashWorker
  <2>1. /\ Dies("worker") /\ ~ up'
        /\ \A t \in Tasks : status'[t] # "inserted"
    BY <1>20 DEF CrashWorker
  <2>2. \A h \in Handlers : tx'[h] = IF h \in TxOf("worker") THEN NoTx ELSE tx[h]
    BY <1>s, <2>1, DiesType
  <2>3. NoTx.at = "idle"
    BY DEF NoTx
  <2>4. TxOf("worker")' = {}
    BY <2>2, <2>3 DEF TxOf
  <2>5. \A h \in Handlers : tx'[h].at = "sent" => tx'[h].does = "tell"
    BY <2>2, <2>3 DEF CarryInv
  <2> QED BY <2>1, <2>4, <2>5 DEF CarryInv
<1>21. CASE StartWorker
  <2>1. /\ ~ up /\ up' /\ tx' = tx
        /\ \A t \in Tasks : status'[t] = "queued" => queue'[t] > 0
        /\ \A t \in Tasks : status'[t] = "inserted" => status[t] = "inserted"
    BY <1>21 DEF StartWorker, TypeOK
  <2>2. \A h \in Handlers : tx[h].at # "sent"
    BY <2>1 DEF CarryInv, TxOf, By
  <2> QED BY <2>1, <2>2 DEF CarryInv, Carrier, Told
<1>22. CASE UNCHANGED vars
  BY <1>22 DEF vars, CarryInv, Carrier, Told, TxOf
<1> QED
  BY <1>1, <1>2, <1>3, <1>4, <1>5, <1>7, <1>8, <1>9, <1>10, <1>11, <1>12, <1>13, <1>14,
     <1>15, <1>16, <1>17, <1>18, <1>19, <1>20, <1>21, <1>22
  DEF Next, TakeJob, Execute, Handle, Expiry, Reaping, Opens

\* Whatever crashes, fails and is repeated: every handler that queues a task also sends
\* it, and a queued task has a job or an enqueue that is due, unless the API died, or an
\* enqueue failed, or a job was taken before the commit it belongs to; nothing else
\* loses a job, and a start of the worker makes good what was lost.
THEOREM QueuedTasksAreCarried == Spec => []QueuedIsCarried
<1>1. Init => CarryInv
  <2>1. NoTx.at = "idle"
    BY DEF NoTx
  <2> QED BY <2>1 DEF Init, CarryInv, Told
<1>2. CarryInv => QueuedIsCarried
  BY DEF CarryInv, Carrier, QueuedIsCarried
<1> DEFINE Inv == TypeOK /\ CarryInv
<1>3. Inv /\ [Next]_vars => Inv'
  BY TypeStep, CarryStep
<1>4. Init => Inv
  BY <1>1, TypeInit
<1> QED BY <1>2, <1>3, <1>4, PTL DEF Spec

-----------------------------------------------------------------------------
(* Undisturbed, the dispatch is Claims.                                      *)

\* A step that leaves the rows, or the slots, alone.
LEMMA Stays ==
  /\ UNCHANGED status => UNCHANGED rows
  /\ UNCHANGED slots => UNCHANGED hands
BY DEF rows, hands, slots

LEMMA Moved ==
  ASSUME TypeOK, NEW t \in Tasks, NEW s, s # "inserted", SetStatus(t, s)
  PROVE  C!Move(t, s)
BY DEF TypeOK, SetStatus, rows, C!Move

LEMMA Emptied ==
  ASSUME TypeOK, NEW w \in Workers, Leave(w) \/ Stage(w, "requeueing")
  PROVE  C!Empty(w)
BY DEF TypeOK, Leave, Stage, Enter, hands, C!Empty

LEMMA NobodyHas ==
  ASSUME TypeOK, NEW t \in Tasks, Unexecuted(t)
  PROVE  C!Untaken(t)
BY TasksAssumption DEF Unexecuted, hands, C!Untaken

\* An execution that ends gives its task back.
LEMMA EndGivesBack ==
  ASSUME TypeOK, Calm, NEW w \in Workers,
         at[w] \in {"started", "reparking", "loop", "failing"},
         Leave(w) \/ Stage(w, "requeueing"),
         NEW s \in Final \cup {"waiting_approval", "queued"}, SetStatus(job[w], s)
  PROVE  C!Next
<1>1. job[w] \in Tasks /\ status[job[w]] = "running"
  BY Runs
<1>2. hands[w] = job[w] /\ rows[job[w]] = "running"
  BY <1>1 DEF hands, rows
<1>3. C!Move(job[w], s)
  BY <1>1, Moved DEF Final
<1>4. C!GiveBack(w, job[w], s)
  BY <1>2, <1>3, Emptied DEF C!GiveBack
<1> QED BY <1>1, <1>4 DEF C!Next

\* An answer, or the end of a wait, offers its task again: nobody has it.
LEMMA CommitOffers ==
  ASSUME TypeOK, Calm, NEW h \in Handlers, Commit(h)
  PROVE  C!Next
<1>t. PICK t \in Tasks : t = tx[h].task
  BY Commits
<1>1. tx[h].at # "idle"
  BY DEF Commit
<1>2. Settled(t) /\ status[t] \in Parked
  BY <1>1, <1>t, Finds
<1>3. /\ Unexecuted(t) /\ tx[h].at \in {"found", "sent"} /\ tx[h].does # "reap"
      /\ tx[h].does = "decide" \/ tx[h].does \in {"post", "tell", "expire"}
  BY <1>t, <1>2 DEF Settled, Sound, Commit, Quiet, ByQueue
<1>4. SetStatus(t, "queued") /\ UNCHANGED slots
  BY <1>t, <1>3 DEF Commit
<1>5. C!Untaken(t) /\ C!Move(t, "queued") /\ UNCHANGED hands
  BY <1>3, <1>4, NobodyHas, Moved, Stays
<1>6. CASE status[t] = "waiting_approval"
  <2>1. C!Unpark(t, "queued")
    BY <1>5, <1>6 DEF rows, C!Unpark
  <2> QED BY <2>1 DEF C!Next
<1>7. CASE status[t] = "running"
  <2>1. C!TakeBack(t)
    BY <1>5, <1>7 DEF rows, C!TakeBack
  <2> QED BY <2>1 DEF C!Next
<1> QED BY <1>2, <1>6, <1>7 DEF Parked

\* The task of a job that is taken up is committed, and nobody else has it.
LEMMA TakenIsOffered ==
  ASSUME TypeOK, Calm, NEW w \in Workers, NEW t \in Tasks, Claim(w, t)
  PROVE  status[t] = "queued" /\ Unexecuted(t)
<1>1. /\ queue[t] > 0 /\ Carried(t) /\ ~ Told(t)
      /\ status[t] \in {"queued", "waiting_approval"}
  BY DEF Claim, Take, Calm, Settled, Ready
<1> QED BY <1>1 DEF Carried, Quiet, ByQueue, ByOwed, BySlot

LEMMA ServesStep ==
  ASSUME Undisturbed, TypeOK, Calm, [Next]_vars
  PROVE  [C!Next]_(C!claimVars)
<1> DEFINE Goal == C!Next \/ UNCHANGED C!claimVars
<1> SUFFICES Goal
  OBVIOUS
<1> USE DEF jobs, asks, life
<1>1. ASSUME UNCHANGED <<status, slots>> PROVE Goal
  BY <1>1, Stays DEF C!claimVars
<1>2. ASSUME NEW t \in Tasks, Create(t) \/ CommitSpawn(t) PROVE Goal
  <2>1. SetStatus(t, "queued") /\ UNCHANGED slots /\ status[t] \in {"absent", "inserted"}
    BY <1>2 DEF Create, CommitSpawn
  <2>2. C!Move(t, "queued") /\ UNCHANGED hands /\ rows[t] = "absent"
    BY <2>1, Moved, Stays DEF rows
  <2>3. C!Offer(t)
    BY <2>2 DEF C!Offer
  <2> QED BY <2>3 DEF C!Next
<1>3. ASSUME NEW t \in Tasks, Spawn(t) PROVE Goal
  <2>1. UNCHANGED rows
    BY <1>3 DEF TypeOK, Spawn, SetStatus, rows
  <2> QED BY <1>3, <2>1, Stays DEF Spawn, C!claimVars
<1>4. ASSUME NEW t \in Tasks, NEW w \in Workers, Block(w, t) PROVE Goal
  <2>1. status[t] = "queued" /\ Unexecuted(t)
    BY <1>4, TakenIsOffered DEF Block
  <2>2. C!Move(t, "blocked") /\ UNCHANGED hands
    BY <1>4, Moved, Stays DEF Block
  <2>3. C!Refuse(t, "blocked")
    BY <2>1, <2>2, NobodyHas DEF rows, C!Refuse
  <2> QED BY <2>3 DEF C!Next
<1>5. ASSUME NEW t \in Tasks, NEW w \in Workers, Dispatch(w, t) PROVE Goal
  <2>1. status[t] = "queued" /\ Unexecuted(t) /\ at[w] = "free"
    BY <1>5, TakenIsOffered DEF Dispatch, Claim, Take, Idle
  <2>2. C!Move(t, "running")
    BY <1>5, Moved DEF Dispatch
  <2>3. hands' = [hands EXCEPT ![w] = t]
    BY <1>5 DEF TypeOK, Dispatch, Enter, hands
  <2>4. C!Take(w, t)
    BY <2>1, <2>2, <2>3, NobodyHas DEF TypeOK, rows, hands, C!Take
  <2> QED BY <2>4 DEF C!Next
<1>6. ASSUME NEW t \in Tasks, NEW w \in Workers, Skip(w, t) PROVE Goal
  BY <1>1, <1>6 DEF Skip
<1>7. ASSUME NEW t \in Tasks, NEW p \in Processes, Send(p, t) \/ SendFails(p, t)
      PROVE  Goal
  BY <1>1, <1>7 DEF Send, SendFails
<1>8. ASSUME NEW w \in Workers, LookForWait(w) \/ Requeue(w) PROVE Goal
  <2>1. UNCHANGED status
    BY <1>8 DEF LookForWait, Requeue
  <2>2. UNCHANGED hands
    BY <1>8 DEF TypeOK, LookForWait, Requeue, In, Leave, Stage, Enter, hands
  <2> QED BY <2>1, <2>2, Stays DEF C!claimVars
<1>9. \A w \in Workers : ~ Repark(w)
  BY Runs DEF Repark, In
<1>10. ASSUME NEW w \in Workers, UseVerdict(w) PROVE Goal
  BY <1>1, <1>10 DEF UseVerdict
<1>11. ASSUME NEW w \in Workers, Ask(w) \/ Finish(w) \/ Criticise(w) \/ Fail(w) PROVE Goal
  BY <1>11, EndGivesBack DEF Ask, Finish, Criticise, Fail, In, Final
<1>12. ASSUME NEW w \in Workers, AskUnparked(w) PROVE Goal
  <2>1. C!Empty(w) /\ UNCHANGED rows
    BY <1>12, Emptied, Stays DEF AskUnparked
  <2>2. C!Forget(w)
    BY <2>1 DEF C!Forget
  <2> QED BY <2>2 DEF C!Next
<1>13. ASSUME NEW w \in Workers, Converse(w) PROVE Goal
  <2>1. at[w] = "loop"
    BY <1>13 DEF Converse, In
  <2>2. wait[job[w]] # "pending"
    BY <2>1, Runs
  <2>3. CASE wait[job[w]] = "satisfied"
    BY <1>1, <1>13, <2>3 DEF Converse
  <2>4. CASE wait[job[w]] # "satisfied"
    <3>1. Leave(w) /\ SetStatus(job[w], "waiting_approval")
      BY <1>13, <2>2, <2>4 DEF Converse
    <3> QED BY <2>1, <3>1, EndGivesBack
  <2> QED BY <2>3, <2>4
<1>14. ASSUME NEW w \in Workers, Raise(w) PROVE Goal
  <2>1. UNCHANGED status
    BY <1>14 DEF Raise
  <2>2. CASE at[w] = "requeueing"
    <3>1. Leave(w)
      BY <1>14, <2>2, Requeues DEF Raise
    <3>2. UNCHANGED hands
      BY <2>2, <3>1 DEF TypeOK, Leave, Enter, hands
    <3> QED BY <2>1, <3>2, Stays DEF C!claimVars
  <2>3. CASE at[w] # "requeueing"
    <3>1. at[w] \in {"started", "reparking", "loop"}
      BY <1>14, <2>3 DEF Raise
    <3>2. Stage(w, "failing")
      BY <1>14, <3>1, Runs DEF Raise
    <3>3. UNCHANGED hands
      BY <2>3, <3>2 DEF TypeOK, Stage, Enter, hands
    <3> QED BY <2>1, <3>3, Stays DEF C!claimVars
  <2> QED BY <2>2, <2>3
<1>15. ASSUME NEW h \in Handlers, NEW t \in Tasks, Opens(h, t) PROVE Goal
  BY <1>1, <1>15, OpensBegins DEF Begin
<1>16. ASSUME NEW h \in Handlers,
              ReadTask(h) \/ ReadDecisions(h) \/ ReadWaits(h) \/ Tell(h) \/ Abandon(h)
       PROVE  Goal
  BY <1>1, <1>16 DEF ReadTask, ReadDecisions, ReadWaits, Tell, Abandon
<1>17. ASSUME NEW h \in Handlers, Commit(h) PROVE Goal
  BY <1>17, CommitOffers
<1>18. ASSUME CrashApi PROVE Goal
  BY <1>1, <1>18 DEF CrashApi
<1>19. ~ CrashWorker /\ ~ StartWorker
  BY NoRepeat DEF Calm, CrashWorker, StartWorker, Repeating
<1>20. ASSUME UNCHANGED vars PROVE Goal
  BY <1>1, <1>20 DEF vars, slots
<1> QED
  BY <1>2, <1>3, <1>4, <1>5, <1>6, <1>7, <1>8, <1>9, <1>10, <1>11, <1>12, <1>13, <1>14,
     <1>15, <1>16, <1>17, <1>18, <1>19, <1>20
  DEF Next, TakeJob, Execute, Handle, Expiry, Reaping, Opens

\* Undisturbed, every step of the API, the queue, the slots and the crons is a step of
\* Claims on the committed rows, or none: run_task's gate, the transactions that resume
\* a task and the jobs they enqueue hand it to one slot at a time, and nothing but that
\* slot moves it while it runs.
THEOREM DispatchServesClaims == Spec => ServesClaims
<1>1. Init => C!Init
  BY DEF Init, rows, hands, C!Init
<1>2. TypeOK /\ (Undisturbed => RunnerInv /\ Calm) /\ [Next]_vars
        => [Without(Repeating) => [C!Next]_(C!claimVars)]_vars
  BY ServesStep DEF Undisturbed
<1> QED BY <1>1, <1>2, CalmInv, PTL DEF Spec, ServesClaims
=============================================================================
