------------------------------- MODULE Claims -------------------------------
(***************************************************************************)
(* What GalaxiaOS promises of a task and of those who execute it, with none of *)
(* the jobs, leases, decisions and reply waits that keep the promise: a task is *)
(* one executor's at a time, only who has it moves it while it runs, it is taken *)
(* back only from nobody, and an end is for good.                              *)
(* TaskDispatch (the slots of the platform's own worker) and PullWorker (the    *)
(* workers of a business function) implement this when nothing is repeated;     *)
(* see ServesClaims there.                                                     *)
(***************************************************************************)

CONSTANTS
    Tasks,
    Workers,     \* who may execute them
    NoTask,      \* what an idle executor has
    Closings,    \* what an executor may leave its task as
    Refusals     \* what a task may become that is offered and not taken

VARIABLES
    status,    \* status[t]: where the task is
    work       \* work[w]: the task w has

claimVars == <<status, work>>

Move(t, s) == status' = [status EXCEPT ![t] = s]
Empty(w) == work' = [work EXCEPT ![w] = NoTask]
Untaken(t) == \A w \in Workers : work[w] # t

Init ==
    /\ status \in [Tasks -> {"absent", "queued"}]
    /\ work = [w \in Workers |-> NoTask]

\* A task is created.
Offer(t) ==
    /\ status[t] = "absent"
    /\ Move(t, "queued")
    /\ UNCHANGED work

Refuse(t, s) ==
    /\ status[t] = "queued"
    /\ Untaken(t)
    /\ Move(t, s)
    /\ UNCHANGED work

Take(w, t) ==
    /\ status[t] = "queued"
    /\ work[w] = NoTask
    /\ Untaken(t)
    /\ Move(t, "running")
    /\ work' = [work EXCEPT ![w] = t]

GiveBack(w, t, s) ==
    /\ work[w] = t
    /\ status[t] = "running"
    /\ Move(t, s)
    /\ Empty(w)

\* The executor is gone, or leaves its task running: the task is nobody's.
Forget(w) == Empty(w) /\ UNCHANGED status

TakeBack(t) ==
    /\ status[t] = "running"
    /\ Untaken(t)
    /\ Move(t, "queued")
    /\ UNCHANGED work

\* What is parked is offered again, or given up.
Unpark(t, s) ==
    /\ status[t] = "waiting_approval"
    /\ Untaken(t)
    /\ Move(t, s)
    /\ UNCHANGED work

Next ==
    \/ \E t \in Tasks :
         \/ Offer(t) \/ TakeBack(t)
         \/ \E s \in Refusals : Refuse(t, s)
         \/ \E s \in {"queued", "failed"} : Unpark(t, s)
         \/ \E w \in Workers : Take(w, t) \/ \E s \in Closings : GiveBack(w, t, s)
    \/ \E w \in Workers : Forget(w)

Spec == Init /\ [][Next]_claimVars
=============================================================================
