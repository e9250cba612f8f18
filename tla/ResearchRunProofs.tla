------------------------- MODULE ResearchRunProofs -------------------------
(***************************************************************************)
(* What the runner promises (DagRunner), and what the runner and the       *)
(* core's projection promise together (ResearchRun), for every dependency  *)
(* graph, every size of the pool and every number of attempts.             *)
(*                                                                         *)
(* RunnerIInv ties the status of a task to where its attempt is, the       *)
(* snapshot of _finalize to the tasks it was taken of, and the end of the  *)
(* run to both.  RunIInv adds to it what the core knows: what every unread *)
(* event says is so, and the core's status of a task is the worker's,      *)
(* except for what is still unread.                                        *)
(***************************************************************************)
EXTENDS ResearchRun, FiniteSetTheorems, SequenceTheorems, TLAPS

-----------------------------------------------------------------------------
(* The runner.                                                             *)

AtWork == {"queued", "handling", "returned"}

\* Where the attempt of a task is, its status says, unless _finalize has
\* cancelled the task; and it counts as inflight until its handler is back.
AttemptFits ==
    \A t \in Tasks :
        /\ work[t].at = "none" => work[t] = Idle
        /\ work[t].at \in {"queued", "handling"} => t \in inflight
        /\ work[t].at = "queued" => status[t] \in {"PLANNING", "CANCELLED"}
        /\ work[t].at \in {"handling", "returned"} => status[t] \in {"RUNNING", "CANCELLED"}
        /\ work[t].at \in {"returned", "stored", "failed"} => work[t].outcome # "none"
        /\ status[t] \in {"PLANNING", "RUNNING"} => work[t].at \in AtWork
        /\ status[t] = "PENDING" => work[t].at = "none"
        /\ work[t].at = "stored" /\ Fails(t) => status[t] \in {"FAILED", "CANCELLED"}
        /\ work[t].at = "failed" => status[t] \in {"FAILED", "CANCELLED"}

\* A task that waits for another attempt has one left, and no attempt running.
RetryFits ==
    /\ \A t \in Tasks : status[t] = "PENDING" => attempt[t] < MaxAttempts
    /\ \A t \in requeueAt :
          /\ status[t] \in {"FAILED", "CANCELLED"} /\ work[t].at = "none"
          /\ attempt[t] < MaxAttempts

\* Nothing is cancelled before cancel().
CancelComesFirst ==
    /\ ~cancelled => \A t \in Tasks : status[t] # "CANCELLED" /\ ~work[t].sawCancel
    /\ pc = "cancelling" => cancelled
    /\ run = "CANCELLED" => cancelled

\* Once the loop is left, no task reopens behind the snapshot of _finalize.
SnapshotHolds ==
    /\ pc \in {"decide", "cancelling"} => \A t \in Tasks : status[t] \in OpenStatus => t \in open
    /\ pc = "decide" /\ ~anyFailed /\ open = {} => \A t \in Tasks : status[t] # "FAILED"

\* How a run came to its end still shows in its tasks.
EndFits ==
    /\ run = "PENDING" => pc = "idle"
    /\ run \in {"COMPLETED", "FAILED", "CANCELLED"} => pc \in {"returned", "ended"}
    /\ run \in {"COMPLETED", "FAILED"} => inflight = {}
    /\ pc \in {"finalize", "decide"} /\ ~cancelled => inflight = {}
    /\ run = "COMPLETED" => \A t \in Tasks : status[t] \in {"COMPLETED", "NEEDS_REVIEW"}
    /\ run = "CANCELLED" => \A t \in Tasks : status[t] \notin OpenStatus

RunnerIInv ==
    /\ TypeOK /\ AttemptFits /\ RetryFits /\ CancelComesFirst /\ StartedTaskHasInputs
    /\ SnapshotHolds /\ EndFits

\* A run begins with every task pending and no attempt.
LEMMA InitHoldsRunnerIInv == Init => RunnerIInv
<1> SUFFICES ASSUME Init PROVE RunnerIInv
  OBVIOUS
<1> USE DEF Init
<1>1. TypeOK
  <2>1. Idle \in Work /\ 0 \in 0 .. MaxAttempts
    BY PoolAssumption DEF Idle, Work
  <2> QED
    BY <2>1 DEF TypeOK, Status, RunStates
<1>2. AttemptFits /\ RetryFits
  BY PoolAssumption DEF AttemptFits, RetryFits, Idle, Fails
<1>3. CancelComesFirst /\ StartedTaskHasInputs /\ SnapshotHolds /\ EndFits
  BY DEF CancelComesFirst, StartedTaskHasInputs, SnapshotHolds, EndFits, Idle
<1> QED
  BY <1>1, <1>2, <1>3 DEF RunnerIInv

\* What an iteration starts was waiting, with its inputs completed.
LEMMA StartsAreReady == \A S \in Starts : S \subseteq Ready
BY DEF Starts

\* An iteration of the loop requeues what is due and starts what is ready.
LEMMA IterateKeeps == ASSUME RunnerIInv, Iterate PROVE RunnerIInv'
<1>1. PICK started \in Starts, due \in (IF Backoff THEN SUBSET requeueAt ELSE {requeueAt}) :
        /\ status' = [t \in Tasks |-> IF t \in started THEN "PLANNING"
                                      ELSE IF t \in due /\ status[t] = "FAILED"
                                           THEN "PENDING" ELSE status[t]]
        /\ attempt' = [t \in Tasks |-> IF t \in started THEN attempt[t] + 1
                                       ELSE attempt[t]]
        /\ inflight' = inflight \cup started
        /\ requeueAt' = requeueAt \ due
        /\ work' = [t \in Tasks |-> IF t \in started THEN [Idle EXCEPT !.at = "queued"]
                                    ELSE work[t]]
        /\ pc' = IF Quiescent(inflight \cup started, due) THEN "finalize" ELSE "loop"
  BY DEF Iterate, Iteration
<1>2. /\ pc = "loop" /\ ~cancelled
      /\ UNCHANGED <<run, cancelled, open, anyFailed, job>>
  BY DEF Iterate, Iteration, final
<1>3. /\ started \subseteq Tasks /\ due \subseteq requeueAt
      /\ \A t \in started : status[t] = "PENDING"
      /\ \A t \in started, u \in Tasks : <<t, u>> \in Deps => status[u] = "COMPLETED"
  BY StartsAreReady DEF Ready
<1>4. TypeOK'
  <2>1. status' \in [Tasks -> Status]
    BY <1>1 DEF RunnerIInv, TypeOK, Status
  <2>2. \A t \in started : attempt[t] + 1 \in 0 .. MaxAttempts
    BY <1>3, PoolAssumption DEF RunnerIInv, TypeOK, RetryFits
  <2>3. attempt' \in [Tasks -> 0 .. MaxAttempts]
    BY <1>1, <2>2 DEF RunnerIInv, TypeOK
  <2>4. [Idle EXCEPT !.at = "queued"] \in Work
    BY DEF Idle, Work
  <2>5. work' \in [Tasks -> Work]
    BY <1>1, <2>4 DEF RunnerIInv, TypeOK
  <2> QED
    BY <1>1, <1>2, <1>3, <2>1, <2>3, <2>5 DEF RunnerIInv, TypeOK
<1>5. AttemptFits'
  BY <1>1, <1>2, <1>3
     DEF RunnerIInv, TypeOK, AttemptFits, RetryFits, AtWork, Fails, Idle, Work
<1>6. RetryFits'
  BY <1>1, <1>2, <1>3 DEF RunnerIInv, TypeOK, RetryFits, AttemptFits
<1>7. CancelComesFirst'
  BY <1>1, <1>2, <1>3 DEF RunnerIInv, TypeOK, CancelComesFirst, Idle
<1>8. StartedTaskHasInputs'
  BY <1>1, <1>2, <1>3 DEF RunnerIInv, TypeOK, StartedTaskHasInputs
<1>9. SnapshotHolds'
  BY <1>1, <1>2 DEF SnapshotHolds
<1>10. EndFits'
  BY <1>1, <1>2, <1>3 DEF RunnerIInv, EndFits, Quiescent
<1> QED
  BY <1>4, <1>5, <1>6, <1>7, <1>8, <1>9, <1>10 DEF RunnerIInv

\* The steps of the scheduler that move no task.
LEMMA DecisionsKeep ==
    ASSUME RunnerIInv,
           RunBegin \/ SeeCancel \/ Snapshot \/ DecideCancelled \/ DecideFailed
           \/ DecideCompleted \/ DecideUnfinished \/ AllCancelled \/ JobEnds
    PROVE  RunnerIInv'
<1> USE DEF RunnerIInv, store, control, final
<1>1. UNCHANGED <<status, attempt, inflight, requeueAt, cancelled, work>>
  BY DEF RunBegin, SeeCancel, Snapshot, DecideCancelled, DecideFailed, DecideCompleted,
         DecideUnfinished, AllCancelled, EndRun, JobEnds
<1>2. AttemptFits' /\ RetryFits' /\ StartedTaskHasInputs'
  BY <1>1 DEF AttemptFits, RetryFits, StartedTaskHasInputs, Fails
<1>3. TypeOK'
  <2>1. CASE Snapshot
    <3>1. anyFailed' \in BOOLEAN
      BY <2>1, Zenon DEF Snapshot
    <3>2. open' \subseteq Tasks
      BY <2>1 DEF Snapshot
    <3> QED
      BY <1>1, <2>1, <3>1, <3>2 DEF TypeOK, Snapshot
  <2>2. CASE RunBegin \/ SeeCancel \/ DecideCancelled \/ DecideUnfinished
    BY <1>1, <2>2 DEF TypeOK, RunBegin, SeeCancel, DecideCancelled, DecideUnfinished, RunStates
  <2>3. CASE DecideFailed \/ DecideCompleted \/ AllCancelled
    BY <1>1, <2>3 DEF TypeOK, DecideFailed, DecideCompleted, AllCancelled, EndRun, RunStates
  <2>4. CASE JobEnds
    <3>1. job' \in {"NEEDS_REVIEW"} \cup {"FAILED"} \cup {run}
      BY <2>4 DEF JobEnds
    <3>2. run # "PENDING"
      BY <2>4 DEF JobEnds, EndFits
    <3> QED
      BY <1>1, <2>4, <3>1, <3>2 DEF TypeOK, JobEnds, RunStates
  <2> QED
    BY <2>1, <2>2, <2>3, <2>4
<1>4. CancelComesFirst' /\ SnapshotHolds'
  BY <1>1 DEF CancelComesFirst, SnapshotHolds, RunBegin, SeeCancel, Snapshot,
         DecideCancelled, DecideFailed, DecideCompleted, DecideUnfinished, AllCancelled,
         EndRun, JobEnds
<1>5. EndFits'
  <2> USE DEF EndFits
  <2>1. CASE RunBegin \/ SeeCancel \/ Snapshot \/ DecideCancelled \/ DecideUnfinished \/ JobEnds
    BY <1>1, <2>1 DEF RunBegin, SeeCancel, Snapshot, DecideCancelled, DecideUnfinished,
           JobEnds, TypeOK
  <2>2. CASE DecideFailed
    BY <1>1, <2>2 DEF DecideFailed, EndRun
  <2>3. CASE DecideCompleted
    <3>1. \A t \in Tasks : status[t] \notin OpenStatus \cup {"FAILED", "CANCELLED"}
      BY <2>3 DEF DecideCompleted, SnapshotHolds, CancelComesFirst
    <3>2. \A t \in Tasks : status[t] \in {"COMPLETED", "NEEDS_REVIEW"}
      BY <3>1 DEF OpenStatus, TypeOK, Status
    <3> QED
      BY <1>1, <2>3, <3>2 DEF DecideCompleted, EndRun
  <2>4. CASE AllCancelled
    BY <1>1, <2>4 DEF AllCancelled, EndRun, SnapshotHolds
  <2> QED
    BY <2>1, <2>2, <2>3, <2>4
<1> QED
  BY <1>2, <1>3, <1>4, <1>5

\* One task closed by a cancel.
LEMMA CancelTaskKeeps ==
    ASSUME RunnerIInv, NEW t \in Tasks, CancelTask(t) PROVE RunnerIInv'
<1> USE DEF RunnerIInv, CancelTask, TypeOK, control
<1>1. CASE status[t] \notin {"COMPLETED", "CANCELLED"}
  <2>1. TypeOK'
    BY <1>1 DEF Status
  <2>2. AttemptFits'
    BY <1>1 DEF AttemptFits, Fails
  <2>3. RetryFits'
    BY <1>1 DEF RetryFits
  <2>4. CancelComesFirst' /\ StartedTaskHasInputs' /\ SnapshotHolds'
    BY <1>1 DEF CancelComesFirst, StartedTaskHasInputs, SnapshotHolds, OpenStatus
  <2>5. EndFits'
    BY <1>1 DEF EndFits
  <2> QED
    BY <2>1, <2>2, <2>3, <2>4, <2>5
<1>2. CASE status[t] \in {"COMPLETED", "CANCELLED"}
  <2>1. UNCHANGED <<status, attempt, run, inflight, requeueAt, cancelled, work>>
        /\ pc = "cancelling" /\ pc' = "raised"
    BY <1>2
  <2>2. TypeOK'
    BY <1>2
  <2>3. AttemptFits' /\ RetryFits' /\ StartedTaskHasInputs' /\ CancelComesFirst'
    BY <2>1 DEF AttemptFits, RetryFits, StartedTaskHasInputs, Fails, CancelComesFirst
  <2>4. SnapshotHolds' /\ EndFits'
    BY <2>1 DEF SnapshotHolds, EndFits
  <2> QED
    BY <2>2, <2>3, <2>4
<1> QED
  BY <1>1, <1>2

\* A cancel is asked for.
LEMMA CancelKeeps == ASSUME RunnerIInv, Cancel PROVE RunnerIInv'
BY DEF RunnerIInv, Cancel, store, final, TypeOK, AttemptFits, RetryFits, CancelComesFirst,
       StartedTaskHasInputs, SnapshotHolds, EndFits, Fails

\* What every step of an executor leaves alone.
LEMMA ExecutorsFrame ==
    ASSUME NEW t \in Tasks, Executor(t)
    PROVE  UNCHANGED <<attempt, run, cancelled, pc, open, anyFailed, job>>
BY DEF Executor, Begin, Return, Store, Emit, Requeue, Cascade, store, control, final

\* An attempt begins, or finds its task cancelled.
LEMMA BeginKeeps == ASSUME RunnerIInv, NEW t \in Tasks, Begin(t) PROVE RunnerIInv'
<1> USE DEF RunnerIInv, TypeOK
<1>1. /\ work[t].at = "queued"
      /\ UNCHANGED <<attempt, run, inflight, requeueAt, cancelled, pc, open, anyFailed, job>>
  BY DEF Begin, control, final
<1>2. CASE /\ status[t] # "CANCELLED" /\ status' = [status EXCEPT ![t] = "RUNNING"]
           /\ Moves(t, "handling")
  <2> USE DEF Moves
  <2>1. status[t] = "PLANNING"
    BY <1>1, <1>2 DEF AttemptFits
  <2>2. TypeOK'
    BY <1>1, <1>2 DEF Status, Work
  <2>3. AttemptFits'
    BY <1>1, <1>2 DEF AttemptFits, AtWork, Fails, Work
  <2>4. RetryFits' /\ CancelComesFirst'
    BY <1>1, <1>2 DEF RetryFits, AttemptFits, CancelComesFirst, Work
  <2>5. StartedTaskHasInputs' /\ SnapshotHolds' /\ EndFits'
    BY <1>1, <1>2, <2>1 DEF StartedTaskHasInputs, SnapshotHolds, EndFits, OpenStatus
  <2> QED
    BY <2>2, <2>3, <2>4, <2>5
<1>3. CASE status[t] = "CANCELLED" /\ Finishes(t) /\ UNCHANGED status
  <2> USE DEF Finishes
  <2>1. TypeOK'
    BY <1>1, <1>3 DEF Work, Idle
  <2>2. AttemptFits'
    BY <1>1, <1>3 DEF AttemptFits, AtWork, Fails, Work, Idle
  <2>3. RetryFits' /\ CancelComesFirst' /\ StartedTaskHasInputs' /\ SnapshotHolds' /\ EndFits'
    BY <1>1, <1>3 DEF RetryFits, CancelComesFirst, StartedTaskHasInputs, SnapshotHolds, EndFits, Idle
  <2> QED
    BY <2>1, <2>2, <2>3
<1> QED
  BY <1>2, <1>3 DEF Begin

\* An attempt returns with its outcome.
LEMMA ReturnKeeps == ASSUME RunnerIInv, NEW t \in Tasks, Return(t) PROVE RunnerIInv'
<1> USE DEF RunnerIInv, TypeOK
<1>1. PICK outcome \in Outcomes :
        work' = [work EXCEPT ![t] = [at |-> "returned", outcome |-> outcome,
                                     sawCancel |-> cancelled]]
  BY DEF Return
<1>2. /\ work[t].at = "handling" /\ inflight' = inflight \ {t}
      /\ UNCHANGED <<status, attempt, run, requeueAt, cancelled, pc, open, anyFailed, job>>
  BY DEF Return, store, final
<1>3. TypeOK'
  BY <1>1, <1>2 DEF Work
<1>4. AttemptFits'
  BY <1>1, <1>2 DEF AttemptFits, AtWork, Fails, Outcomes
<1>5. RetryFits' /\ CancelComesFirst'
  BY <1>1, <1>2 DEF RetryFits, AttemptFits, CancelComesFirst
<1>6. StartedTaskHasInputs' /\ SnapshotHolds' /\ EndFits'
  BY <1>1, <1>2 DEF StartedTaskHasInputs, SnapshotHolds, EndFits
<1> QED
  BY <1>3, <1>4, <1>5, <1>6

\* The status an attempt leaves its task with.
LEMMA StoreKeeps == ASSUME RunnerIInv, NEW t \in Tasks, Store(t) PROVE RunnerIInv'
<1> USE DEF RunnerIInv, TypeOK
<1> DEFINE to == IF work[t].sawCancel THEN "CANCELLED"
                 ELSE IF work[t].outcome \in {"retryable", "final"} THEN "FAILED"
                 ELSE work[t].outcome
<1>1. /\ work[t].at = "returned"
      /\ UNCHANGED <<attempt, run, inflight, requeueAt, cancelled, pc, open, anyFailed, job>>
  BY DEF Store, control, final
<1>2. /\ to \in {"CANCELLED", "FAILED", "COMPLETED", "NEEDS_REVIEW"}
      /\ to = "CANCELLED" => cancelled
      /\ Fails(t) => to = "FAILED"
  BY <1>1 DEF AttemptFits, Work, Outcomes, Fails, CancelComesFirst
<1>3. CASE status[t] # "CANCELLED" /\ status' = [status EXCEPT ![t] = to] /\ Moves(t, "stored")
  <2> USE DEF Moves
  <2>1. status[t] = "RUNNING"
    BY <1>1, <1>3 DEF AttemptFits
  <2>2. TypeOK'
    BY <1>1, <1>2, <1>3 DEF Status, Work
  <2>3. AttemptFits'
    BY <1>1, <1>2, <1>3 DEF AttemptFits, AtWork, Fails, Work
  <2>4. RetryFits' /\ CancelComesFirst'
    BY <1>1, <1>2, <1>3 DEF RetryFits, AttemptFits, CancelComesFirst, Work
  <2>5. StartedTaskHasInputs' /\ SnapshotHolds' /\ EndFits'
    BY <1>1, <1>2, <1>3, <2>1 DEF StartedTaskHasInputs, SnapshotHolds, EndFits, OpenStatus
  <2> QED
    BY <2>2, <2>3, <2>4, <2>5
<1>4. CASE status[t] = "CANCELLED" /\ status' = status /\ Finishes(t)
  <2> USE DEF Finishes
  <2>1. TypeOK'
    BY <1>1, <1>4 DEF Work, Idle
  <2>2. AttemptFits'
    BY <1>1, <1>4 DEF AttemptFits, AtWork, Fails, Work, Idle
  <2>3. RetryFits' /\ CancelComesFirst' /\ StartedTaskHasInputs' /\ SnapshotHolds' /\ EndFits'
    BY <1>1, <1>4 DEF RetryFits, CancelComesFirst, StartedTaskHasInputs, SnapshotHolds, EndFits, Idle
  <2> QED
    BY <2>1, <2>2, <2>3
<1>5. CASE status[t] = "CANCELLED" /\ status' = status /\ Moves(t, "stored")
  <2> USE DEF Moves
  <2>1. TypeOK'
    BY <1>1, <1>5 DEF Work
  <2>2. AttemptFits'
    BY <1>1, <1>5 DEF AttemptFits, AtWork, Fails, Work
  <2>3. RetryFits' /\ CancelComesFirst' /\ StartedTaskHasInputs' /\ SnapshotHolds' /\ EndFits'
    BY <1>1, <1>5 DEF RetryFits, CancelComesFirst, StartedTaskHasInputs, SnapshotHolds, EndFits, Work
  <2> QED
    BY <2>1, <2>2, <2>3
<1> QED
  BY <1>3, <1>4, <1>5 DEF Store

\* What was stored is reported.
LEMMA EmitKeeps == ASSUME RunnerIInv, NEW t \in Tasks, Emit(t) PROVE RunnerIInv'
<1> USE DEF RunnerIInv, TypeOK
<1>1. /\ work[t].at = "stored"
      /\ work' = [work EXCEPT ![t] = IF Fails(t) THEN [@ EXCEPT !.at = "failed"] ELSE Idle]
      /\ UNCHANGED <<status, attempt, run, inflight, requeueAt, cancelled, pc, open,
                     anyFailed, job>>
  BY DEF Emit, Moves, Finishes, store, control, final
<1>2. TypeOK'
  <2>1. Idle \in Work /\ [work[t] EXCEPT !.at = "failed"] \in Work
    BY DEF Work, Idle
  <2>2. work' \in [Tasks -> Work]
    BY <1>1, <2>1
  <2> QED
    BY <1>1, <2>2
<1>3. AttemptFits'
  <2> SUFFICES ASSUME NEW u \in Tasks PROVE AttemptFits!(u)'
    BY DEF AttemptFits
  <2>1. CASE u = t
    BY <1>1, <2>1 DEF AttemptFits, AtWork, Fails, Work, Idle
  <2>2. CASE u # t
    BY <1>1, <2>2 DEF AttemptFits, AtWork, Fails, Work
  <2> QED
    BY <2>1, <2>2
<1>4. RetryFits' /\ CancelComesFirst'
  BY <1>1 DEF RetryFits, CancelComesFirst, Work, Idle
<1>5. StartedTaskHasInputs' /\ SnapshotHolds' /\ EndFits'
  BY <1>1 DEF StartedTaskHasInputs, SnapshotHolds, EndFits
<1> QED
  BY <1>2, <1>3, <1>4, <1>5

\* A task to be tried again.
LEMMA RequeueKeeps == ASSUME RunnerIInv, NEW t \in Tasks, Requeue(t) PROVE RunnerIInv'
<1> USE DEF RunnerIInv, TypeOK
<1>1. /\ work[t].at = "failed" /\ attempt[t] < MaxAttempts
      /\ requeueAt' = requeueAt \cup {t} /\ work' = [work EXCEPT ![t] = Idle]
      /\ UNCHANGED <<status, attempt, run, inflight, cancelled, pc, open, anyFailed, job>>
  BY DEF Requeue, Retries, Finishes, store, final
<1>2. TypeOK'
  BY <1>1 DEF Work, Idle
<1>3. AttemptFits'
  BY <1>1 DEF AttemptFits, AtWork, Fails, Work, Idle
<1>4. RetryFits' /\ CancelComesFirst'
  BY <1>1 DEF RetryFits, CancelComesFirst, AttemptFits, Work, Idle
<1>5. StartedTaskHasInputs' /\ SnapshotHolds' /\ EndFits'
  BY <1>1 DEF StartedTaskHasInputs, SnapshotHolds, EndFits
<1> QED
  BY <1>2, <1>3, <1>4, <1>5

\* A failed attempt reaches only tasks that still wait.
LEMMA CascadeKeeps == ASSUME RunnerIInv, NEW t \in Tasks, Cascade(t) PROVE RunnerIInv'
<1> USE DEF RunnerIInv, TypeOK
<1> DEFINE hit == {x \in Downstream(t) : status[x] = "PENDING"}
<1>1. /\ work[t].at = "failed" /\ work' = [work EXCEPT ![t] = Idle]
      /\ status' = [x \in Tasks |-> IF x \in hit THEN "FAILED" ELSE status[x]]
      /\ \A x \in hit : x \in Tasks /\ status[x] = "PENDING"
      /\ UNCHANGED <<attempt, run, inflight, requeueAt, cancelled, pc, open, anyFailed, job>>
  BY DEF Cascade, Finishes, control, final, Downstream
<1> HIDE DEF hit
<1>2. TypeOK'
  BY <1>1 DEF Work, Idle, Status
<1>3. AttemptFits'
  BY <1>1 DEF AttemptFits, AtWork, Fails, Work, Idle
<1>4. RetryFits' /\ CancelComesFirst'
  BY <1>1 DEF RetryFits, CancelComesFirst, AttemptFits, Work, Idle
<1>5. StartedTaskHasInputs' /\ SnapshotHolds' /\ EndFits'
  BY <1>1 DEF StartedTaskHasInputs, SnapshotHolds, EndFits, OpenStatus
<1> QED
  BY <1>2, <1>3, <1>4, <1>5

\* The inductive invariant of the runner.
LEMMA RunnerIInvHolds == Spec => []RunnerIInv
<1>1. Init => RunnerIInv
  BY InitHoldsRunnerIInv
<1>2. RunnerIInv /\ [Next]_rvars => RunnerIInv'
  <2> SUFFICES ASSUME RunnerIInv, [Next]_rvars PROVE RunnerIInv'
    OBVIOUS
  <2>1. CASE Scheduler
    BY <2>1, IterateKeeps, DecisionsKeep, CancelTaskKeeps DEF Scheduler
  <2>2. CASE \E t \in Tasks : Executor(t)
    BY <2>2, BeginKeeps, ReturnKeeps, StoreKeeps, EmitKeeps, RequeueKeeps, CascadeKeeps
       DEF Executor
  <2>3. CASE Cancel
    BY <2>3, CancelKeeps
  <2>4. CASE Read \/ UNCHANGED rvars
    <3>1. UNCHANGED <<status, attempt, run, inflight, requeueAt, cancelled, pc, open,
                     anyFailed, work, job>>
      BY <2>4 DEF Read, rvars, store, control, final
    <3> QED
      BY <3>1 DEF RunnerIInv, TypeOK, AttemptFits, RetryFits, CancelComesFirst,
             StartedTaskHasInputs, SnapshotHolds, EndFits, Fails
  <2> QED
    BY <2>1, <2>2, <2>3, <2>4 DEF Next, Step, Terminated
<1> QED
  BY <1>1, <1>2, PTL DEF Spec

\* For every graph, pool and number of attempts: a task that is planned or
\* running has its inputs, and no run is declared over while a handler runs
\* (_submit_ready, _complete and the loop of run(), in dag/runner.py).
THEOREM RunnerInvHolds == Spec => []RunnerInv
<1>1. RunnerIInv => RunnerInv
  BY DEF RunnerIInv, RunnerInv, NoHandlerOutlivesRun, AttemptFits, EndFits
<1> QED
  BY <1>1, RunnerIInvHolds, PTL

\* A completed run has nothing undone and a cancelled one nothing open, however
\* the last attempts race with the snapshot of _finalize and with cancel().
THEOREM EndedRunIsDoneHolds == Spec => []EndedRunIsDone
<1>1. RunnerIInv => EndedRunIsDone
  BY DEF RunnerIInv, EndedRunIsDone, CompletedRunIsDone, CancelledRunComesToRest, EndFits
<1> QED
  BY <1>1, RunnerIInvHolds, PTL

\* No attempt of a task starts while another one of it still writes, nor after
\* cancel() (_submit_ready and _schedule_retry).
THEOREM AttemptsDoNotOverlapHolds == Spec => AttemptsDoNotOverlap
<1>1. RunnerIInv /\ [Next]_rvars =>
        [\A t \in Tasks : attempt'[t] # attempt[t] => work[t] = Idle /\ ~cancelled]_rvars
  <2> SUFFICES ASSUME RunnerIInv, Next, NEW t \in Tasks, attempt'[t] # attempt[t]
               PROVE  work[t] = Idle /\ ~cancelled
    OBVIOUS
  <2>1. Iterate
    BY ExecutorsFrame DEF Next, Step, Scheduler, Read, Terminated, RunBegin, SeeCancel, Snapshot,
           DecideCancelled, DecideFailed, DecideCompleted, DecideUnfinished, CancelTask,
           AllCancelled, EndRun, JobEnds, Cancel, store, rvars
  <2>2. t \in Ready
    BY <2>1, StartsAreReady DEF Iterate, Iteration, RunnerIInv, TypeOK
  <2> QED
    BY <2>1, <2>2 DEF Iterate, Ready, RunnerIInv, AttemptFits
<1> QED
  BY <1>1, RunnerIInvHolds, PTL DEF Spec, AttemptsDoNotOverlap

-----------------------------------------------------------------------------
(* The runner and the projection together.                                 *)

TaskTypes == {"task.started", "task.completed", "task.failed", "task.cancelled",
              "review.requested"}
RunTypes  == {"run.started", "run.completed", "run.failed", "run.cancelled"}
Event     == [type : TaskTypes, task : Tasks] \cup [type : RunTypes]

About(e, t) == e.type \in TaskTypes /\ e.task = t

\* What an attempt has stored is what it is about to report.
StoredFits ==
    \A t \in Tasks : work[t].at = "stored" =>
        IF work[t].sawCancel THEN status[t] = "CANCELLED"
        ELSE work[t].outcome \in {"COMPLETED", "NEEDS_REVIEW"} =>
                 \/ status[t] = work[t].outcome
                 \/ status[t] = "CANCELLED" /\ work[t].outcome # "COMPLETED"

\* What an event says is so, also when it is read late.
EventIsTrue(e) ==
    /\ e.type = "task.started"     => attempt[e.task] > 0
    /\ e.type = "task.completed"   => status[e.task] = "COMPLETED"
    /\ e.type = "review.requested" => status[e.task] \in {"NEEDS_REVIEW", "CANCELLED"}
    /\ e.type \in {"task.cancelled", "run.cancelled"} => cancelled
    /\ e.type = "run.completed" => run = "COMPLETED"
    /\ e.type = "run.cancelled" => run = "CANCELLED"
    /\ e.type = "run.failed" => run = "FAILED"

\* The events of one step are of one kind; an event of the run comes alone.
UnreadFits ==
    /\ unread \in Seq(Event)
    /\ \A i \in DOMAIN unread : EventIsTrue(unread[i])
    /\ \A i \in DOMAIN unread : unread[i].type \in RunTypes => Len(unread) = 1
    /\ run = "COMPLETED" => Len(unread) <= 1

\* The statuses this worker's events lead to, and nothing cancelled by itself.
CoreFits ==
    /\ \A t \in Tasks : taskStatus[t] \in {"PENDING", "RUNNING", "NEEDS_REVIEW",
                                           "COMPLETED", "FAILED", "CANCELLED"}
    /\ runStatus # "paused"
    /\ runStatus = "cancelled" => cancelled
    /\ \A t \in Tasks : taskStatus[t] = "CANCELLED" => cancelled

Unbegun == pc = "idle" \/ (pc = "loop" /\ unread = <<RunEvent("run.started")>>)

\* The first event claims every task, before any other event comes.
ClaimFits ==
    IF Unbegun THEN /\ ~stalled /\ runStatus = "running"
                    /\ \A t \in Tasks : taskStatus[t] = "PENDING" /\ status[t] = "PENDING"
                    /\ run \notin {"CANCELLED", "COMPLETED"}
                    /\ pc = "idle" => unread = <<>>
    ELSE claimed = Tasks /\ \A i \in DOMAIN unread : unread[i].type # "run.started"

\* A status s in the core that is the worker's: behind by what the attempt has
\* stored and not said, ahead by a failure that waits for its retry or for the
\* cascade.
TaskFits(s, t) ==
    \/ status[t] = "CANCELLED"
    \/ status[t] = "PENDING" /\ s \in {"PENDING", "FAILED"}
    \/ status[t] \in {"PLANNING", "RUNNING"} /\ s = "RUNNING"
    \/ /\ status[t] \in {"COMPLETED", "NEEDS_REVIEW", "FAILED"}
       /\ s = IF work[t].at = "stored" THEN "RUNNING" ELSE status[t]

Agrees(t) ==
    /\ (\A i \in DOMAIN unread : ~About(unread[i], t)) => TaskFits(taskStatus[t], t)
    /\ \A i \in DOMAIN unread : About(unread[i], t) =>
            TaskFits(Core!TaskTarget[unread[i].type], t)

\* Until the run is cancelled or an event refused, core and worker agree, but
\* for what came too late.
Agree == ~stalled /\ run # "CANCELLED" => \A t \in Tasks \ missed : Agrees(t)

\* What comes behind the job's end is a report of an attempt, and only that is
\* missed.
LateFits ==
    /\ retired \in BOOLEAN /\ (retired => pc = "ended")
    /\ missed \subseteq Tasks /\ (missed # {} => retired)
    /\ pc = "ended" => \A i \in DOMAIN unread : unread[i].type \in TaskTypes

\* What the last event of a run leaves behind, no later one undoes; but the
\* attempts that still report may reopen a completed run until they have.
EndAgrees ==
    ~stalled =>
      /\ run = "COMPLETED" =>
            \/ unread = <<RunEvent("run.completed")>>
            \/ runStatus = "completed"
            \/ runStatus = "needs_review" /\ \E t \in Tasks : taskStatus[t] = "NEEDS_REVIEW"
            \/ runStatus = "running" /\ \E t \in Tasks : taskStatus[t] = "RUNNING"
      /\ run = "CANCELLED" =>
            \/ unread = <<RunEvent("run.cancelled")>>
            \/ runStatus = "cancelled" /\ \A t \in Tasks : taskStatus[t] \in Core!TerminalTask

RunIInv ==
    /\ RunnerIInv /\ Core!TypeOK /\ stalled \in BOOLEAN
    /\ StoredFits /\ UnreadFits /\ CoreFits /\ ClaimFits /\ LateFits /\ Agree /\ EndAgrees
    /\ TasksNeverAhead

\* A finite set as a sequence: every element has its place.
LEMMA InSomeOrder ==
    ASSUME NEW S, IsFiniteSet(S)
    PROVE  /\ Cardinality(S) \in Nat /\ SetToSeq(S) \in [1 .. Cardinality(S) -> S]
           /\ \A e \in S : \E i \in 1 .. Cardinality(S) : SetToSeq(S)[i] = e
<1>1. PICK n \in Nat : n = Cardinality(S) /\ ExistsBijection(1 .. n, S)
  BY FS_CardinalityType
<1>2. PICK g \in [1 .. n -> S] : IsInjective(g)
  BY <1>1 DEF ExistsBijection, Bijection, Injection
<1>3. PICK f : f = SetToSeq(S)
  OBVIOUS
<1>4. f \in [1 .. n -> S] /\ IsInjective(f)
  BY <1>1, <1>2, <1>3 DEF SetToSeq
<1>5. f \in Injection(1 .. n, S)
  BY <1>4 DEF Injection
<1>6. Cardinality(1 .. n) = n
  BY <1>1, FS_Interval
<1>7. f \in Surjection(1 .. n, S)
  BY <1>1, <1>5, <1>6, FS_Injection
<1> QED
  BY <1>1, <1>3, <1>4, <1>7 DEF Surjection

\* The events of a step that says the same of every task of S.
EventsOf(k, S) == [i \in 1 .. Cardinality(S) |-> TaskEvent(k, SetToSeq(S)[i])]

\* They are events of the tasks of S, and each task has one.
LEMMA EventsOfSet ==
    ASSUME NEW S \in SUBSET Tasks, NEW k \in TaskTypes, NEW q, q = EventsOf(k, S)
    PROVE  /\ q \in Seq(Event)
           /\ \A i \in DOMAIN q : q[i].type = k /\ q[i].task \in S
           /\ \A t \in S : \E i \in DOMAIN q : About(q[i], t)
<1>1. IsFiniteSet(S)
  BY PlanAssumption, FS_Subset
<1>2. PICK n, f : n = Cardinality(S) /\ f = SetToSeq(S)
  OBVIOUS
<1>3. n \in Nat /\ f \in [1 .. n -> S] /\ \A e \in S : \E i \in 1 .. n : f[i] = e
  BY <1>1, <1>2, InSomeOrder
<1>4. q = [i \in 1 .. n |-> TaskEvent(k, f[i])]
  BY <1>2 DEF EventsOf
<1>5. \A i \in 1 .. n : f[i] \in S
  BY <1>3
<1>6. \A x \in S : TaskEvent(k, x) \in Event /\ TaskEvent(k, x).type = k
                   /\ TaskEvent(k, x).task = x
  BY DEF Event, TaskEvent
<1>7. DOMAIN q = 1 .. n /\ \A i \in 1 .. n : q[i] = TaskEvent(k, f[i])
  BY <1>4
<1> HIDE DEF Event
<1>8. \A i \in 1 .. n : q[i] \in Event /\ q[i].type = k /\ q[i].task = f[i]
  BY <1>5, <1>6, <1>7
<1>9. q \in Seq(Event)
  <2>1. q \in [1 .. n -> Event]
    BY <1>4, <1>7, <1>8
  <2> QED
    BY <1>3, <2>1, SeqDef, Zenon
<1>10. \A t \in S : \E i \in 1 .. n : About(q[i], t)
  BY <1>3, <1>8 DEF About
<1> QED
  BY <1>5, <1>7, <1>8, <1>9, <1>10

\* The one event that reports an attempt.
LEMMA OneEvent ==
    ASSUME NEW t \in Tasks
    PROVE  \A type \in TaskTypes :
                /\ TaskEvent(type, t).type = type /\ TaskEvent(type, t).task = t
                /\ <<TaskEvent(type, t)>> \in Seq(Event)
BY DEF TaskEvent, Event

\* The one event that reports the run.
LEMMA OneRunEvent ==
    \A type \in RunTypes : RunEvent(type).type = type /\ <<RunEvent(type)>> \in Seq(Event)
BY DEF RunEvent, Event

\* The types of events are told apart, and the core maps those of tasks.
LEMMA Targets ==
    /\ Core!TaskTarget["task.started"] = "RUNNING"
    /\ Core!TaskTarget["task.completed"] = "COMPLETED"
    /\ Core!TaskTarget["task.failed"] = "FAILED"
    /\ Core!TaskTarget["task.cancelled"] = "CANCELLED"
    /\ Core!TaskTarget["review.requested"] = "NEEDS_REVIEW"
    /\ \A e : e.type \in TaskTypes => IsTaskEvent(e)
    /\ \A e : e.type \in RunTypes => ~IsTaskEvent(e)
BY DEF Core!TaskTarget, IsTaskEvent, TaskTypes, RunTypes

\* Where core and worker agree with nothing unread.
LEMMA AgreeNow ==
    ASSUME RunIInv, unread = <<>>, ~stalled, run # "CANCELLED"
    PROVE  \A t \in Tasks \ missed : TaskFits(taskStatus[t], t)
BY DEF RunIInv, Agree, Agrees

\* What a step of the worker has to keep, for the rest to follow: what the core
\* knows of finished tasks stays so, and what the step says is so.
LEMMA WorkerCarries ==
    ASSUME RunIInv, RunnerIInv', LateFits', unread = <<>>, UNCHANGED <<core, link, run>>,
           pc # "idle", pc' # "idle", cancelled => cancelled',
           StoredFits', UnreadFits',
           \A i \in DOMAIN unread' : unread'[i].type # "run.started",
           \A t \in Tasks :
                /\ attempt[t] > 0 => attempt'[t] > 0
                /\ status[t] = "COMPLETED" => status'[t] = "COMPLETED"
                /\ status[t] \in {"NEEDS_REVIEW", "CANCELLED"}
                        => status'[t] \in {"NEEDS_REVIEW", "CANCELLED"},
           ~stalled /\ run # "CANCELLED" => \A t \in Tasks \ missed : Agrees(t)'
    PROVE  RunIInv'
<1> USE DEF RunIInv, core, link
<1>1. Core!TypeOK' /\ stalled' \in BOOLEAN
  BY DEF Core!TypeOK
<1>2. CoreFits' /\ TasksNeverAhead'
  BY DEF CoreFits, TasksNeverAhead
<1>3. claimed = Tasks
  BY DEF ClaimFits, Unbegun
<1>4. ~Unbegun'
  BY OneRunEvent DEF Unbegun, RunTypes
<1>5. ClaimFits'
  BY <1>3, <1>4 DEF ClaimFits
<1>6. Agree'
  BY DEF Agree
<1>7. EndAgrees'
  <2>1. unread # <<RunEvent("run.completed")>> /\ unread # <<RunEvent("run.cancelled")>>
    OBVIOUS
  <2> QED
    BY <2>1 DEF EndAgrees
<1> QED
  BY <1>1, <1>2, <1>5, <1>6, <1>7

\* A step that leaves the tasks alone and says nothing.
LEMMA SilentStepsCarry ==
    ASSUME RunIInv, RunnerIInv', LateFits', unread = <<>>, UNCHANGED <<core, link>>,
           \/ SeeCancel \/ Snapshot \/ DecideCancelled \/ DecideUnfinished \/ JobEnds
    PROVE  RunIInv'
<1>1. /\ UNCHANGED <<status, attempt, run, cancelled, work, unread>>
      /\ pc # "idle" /\ pc' # "idle"
  BY DEF SeeCancel, Snapshot, DecideCancelled, DecideUnfinished, JobEnds, store, control, final
<1>2. StoredFits' /\ UnreadFits'
  BY <1>1 DEF RunIInv, StoredFits, UnreadFits, EventIsTrue
<1>3. ~stalled /\ run # "CANCELLED" => \A t \in Tasks \ missed : Agrees(t)'
  BY <1>1, AgreeNow DEF Agrees, TaskFits, core
<1> QED
  BY <1>1, <1>2, <1>3, WorkerCarries

\* A cancel may come before the run has begun.
LEMMA CancelCarries ==
    ASSUME RunIInv, RunnerIInv', LateFits', unread = <<>>, UNCHANGED <<core, link>>, Cancel
    PROVE  RunIInv'
<1> USE DEF RunIInv, core, link
<1>1. UNCHANGED <<status, attempt, run, work, unread, pc>> /\ cancelled' = TRUE
  BY DEF Cancel, store, final
<1>2. StoredFits' /\ UnreadFits' /\ ClaimFits' /\ EndAgrees' /\ TasksNeverAhead'
  BY <1>1 DEF StoredFits, UnreadFits, EventIsTrue, ClaimFits, Unbegun, EndAgrees, TasksNeverAhead
<1>3. Core!TypeOK' /\ stalled' \in BOOLEAN /\ CoreFits'
  BY <1>1 DEF Core!TypeOK, CoreFits
<1>4. Agree'
  BY <1>1 DEF Agree, Agrees, TaskFits
<1> QED
  BY <1>2, <1>3, <1>4

\* The run begins, and says so before anything else happens.
LEMMA BeginCarries ==
    ASSUME RunIInv, RunnerIInv', LateFits', unread = <<>>, UNCHANGED <<core, link>>, RunBegin
    PROVE  RunIInv'
<1> USE DEF RunIInv, core, link
<1>1. /\ UNCHANGED <<status, attempt, cancelled, work>> /\ pc = "idle" /\ pc' = "loop"
      /\ run' = "RUNNING" /\ unread' = <<RunEvent("run.started")>>
  BY DEF RunBegin, control
<1>2. Unbegun /\ Unbegun'
  BY <1>1 DEF Unbegun
<1>3. ClaimFits'
  BY <1>1, <1>2 DEF ClaimFits
<1>4. UnreadFits'
  BY <1>1, OneRunEvent DEF UnreadFits, EventIsTrue, RunTypes
<1>5. StoredFits' /\ EndAgrees' /\ TasksNeverAhead'
  BY <1>1 DEF StoredFits, EndAgrees, TasksNeverAhead
<1>6. Core!TypeOK' /\ stalled' \in BOOLEAN /\ CoreFits'
  BY <1>1 DEF Core!TypeOK, CoreFits
<1>7. Agree'
  <2>1. \A t \in Tasks : ~About(unread'[1], t)
    BY <1>1, OneRunEvent DEF About, RunTypes, TaskTypes
  <2>2. \A t \in Tasks : TaskFits(taskStatus[t], t)'
    BY <1>1, <1>2 DEF ClaimFits, TaskFits
  <2> QED
    BY <1>1, <2>1, <2>2 DEF Agree, Agrees
<1> QED
  BY <1>3, <1>4, <1>5, <1>6, <1>7

\* The run ends, and says so.
LEMMA EndCarries ==
    ASSUME RunIInv, RunnerIInv', LateFits', unread = <<>>, UNCHANGED <<core, link>>,
           DecideFailed \/ DecideCompleted \/ AllCancelled
    PROVE  RunIInv'
<1> USE DEF RunIInv, core, link
<1>1. PICK end \in {<<"FAILED", "run.failed">>, <<"COMPLETED", "run.completed">>,
                    <<"CANCELLED", "run.cancelled">>} :
        /\ run' = end[1] /\ unread' = <<RunEvent(end[2])>>
        /\ end[1] = "CANCELLED" => cancelled
  BY DEF DecideFailed, DecideCompleted, AllCancelled, EndRun, RunnerIInv, CancelComesFirst
<1>2. /\ UNCHANGED <<status, attempt, cancelled, work>>
      /\ pc \in {"decide", "cancelling"} /\ pc' = "returned"
  BY DEF DecideFailed, DecideCompleted, AllCancelled, EndRun, control
<1>3. /\ Len(unread') = 1 /\ DOMAIN unread' = {1} /\ unread' \in Seq(Event)
      /\ unread'[1].type = end[2]
  BY <1>1, OneRunEvent DEF RunTypes
<1>4. UnreadFits'
  BY <1>1, <1>2, <1>3 DEF UnreadFits, EventIsTrue
<1>5. claimed = Tasks /\ ~Unbegun'
  BY <1>2 DEF ClaimFits, Unbegun
<1>6. ClaimFits'
  BY <1>3, <1>5 DEF ClaimFits
<1>7. StoredFits' /\ TasksNeverAhead'
  BY <1>2 DEF StoredFits, TasksNeverAhead
<1>8. Core!TypeOK' /\ stalled' \in BOOLEAN /\ CoreFits'
  BY <1>2 DEF Core!TypeOK, CoreFits
<1>9. Agree'
  <2>1. ~stalled /\ run # "CANCELLED" => \A t \in Tasks \ missed : TaskFits(taskStatus[t], t)'
    BY <1>2, AgreeNow DEF TaskFits
  <2>2. run # "CANCELLED"
    BY <1>2 DEF RunnerIInv, EndFits
  <2>3. \A t \in Tasks : ~About(unread'[1], t)
    BY <1>3 DEF About, TaskTypes
  <2> QED
    BY <1>3, <2>1, <2>2, <2>3 DEF Agree, Agrees
<1>10. EndAgrees'
  BY <1>1 DEF EndAgrees
<1> QED
  BY <1>4, <1>6, <1>7, <1>8, <1>9, <1>10

\* A cancelled task is out of reach of what the core is told.
LEMMA CancelTaskCarries ==
    ASSUME RunIInv, RunnerIInv', LateFits', unread = <<>>, UNCHANGED <<core, link>>,
           NEW t \in Tasks, CancelTask(t)
    PROVE  RunIInv'
<1> USE DEF RunIInv
<1>1. /\ UNCHANGED <<attempt, run, cancelled, work, unread>> /\ pc # "idle" /\ pc' # "idle"
      /\ \/ status' = status
         \/ status[t] # "COMPLETED" /\ status' = [status EXCEPT ![t] = "CANCELLED"]
  BY DEF CancelTask, control
<1>2. \A x \in Tasks : \/ status'[x] = status[x]
                       \/ status[x] # "COMPLETED" /\ status'[x] = "CANCELLED"
  BY <1>1 DEF RunnerIInv, TypeOK
<1>3. StoredFits' /\ UnreadFits'
  BY <1>1, <1>2 DEF StoredFits, UnreadFits, EventIsTrue
<1>4. ~stalled /\ run # "CANCELLED" => \A x \in Tasks \ missed : Agrees(x)'
  BY <1>1, <1>2, AgreeNow DEF Agrees, TaskFits, core
<1> QED
  BY <1>1, <1>2, <1>3, <1>4, WorkerCarries

\* An attempt runs only in a run that has begun.
LEMMA ExecutorHasBegun ==
    ASSUME RunIInv, RunnerIInv', LateFits', unread = <<>>, UNCHANGED <<core, link>>,
           NEW t \in Tasks, Executor(t)
    PROVE  pc # "idle" /\ pc' # "idle" /\ UNCHANGED <<attempt, run, cancelled>>
<1>1. work[t].at # "none"
  BY DEF Executor, Begin, Return, Store, Emit, Requeue, Cascade
<1>2. status[t] # "PENDING"
  BY <1>1 DEF RunIInv, RunnerIInv, AttemptFits
<1>3. pc # "idle"
  BY <1>2 DEF RunIInv, ClaimFits, Unbegun
<1> QED
  BY <1>3, ExecutorsFrame

\* The steps of an attempt before it has stored anything, and the requeue.
LEMMA AttemptCarries ==
    ASSUME RunIInv, RunnerIInv', LateFits', unread = <<>>, UNCHANGED <<core, link>>,
           NEW t \in Tasks, Begin(t) \/ Return(t) \/ Requeue(t)
    PROVE  RunIInv'
<1> USE DEF RunIInv
<1>1. pc # "idle" /\ pc' # "idle" /\ UNCHANGED <<attempt, run, cancelled>>
  BY ExecutorHasBegun DEF Executor
<1>2. /\ unread' = unread
      /\ \A x \in Tasks : x # t => status'[x] = status[x] /\ work'[x] = work[x]
      /\ work[t].at # "stored" /\ work'[t].at # "stored"
      /\ \/ status'[t] = status[t]
         \/ status[t] = "PLANNING" /\ status'[t] = "RUNNING"
  <2>1. CASE Begin(t)
    BY <2>1 DEF Begin, Moves, Finishes, Idle, control, RunnerIInv, TypeOK, AttemptFits, Work
  <2>2. CASE Return(t)
    <3>1. PICK outcome \in Outcomes :
            work' = [work EXCEPT ![t] = [at |-> "returned", outcome |-> outcome,
                                         sawCancel |-> cancelled]]
      BY <2>2 DEF Return
    <3> QED
      BY <2>2, <3>1 DEF Return, store, RunnerIInv, TypeOK
  <2>3. CASE Requeue(t)
    BY <2>3 DEF Requeue, Finishes, Idle, store, RunnerIInv, TypeOK
  <2> QED
    BY <2>1, <2>2, <2>3
<1>3. StoredFits'
  BY <1>2 DEF StoredFits
<1>4. UnreadFits'
  BY <1>1, <1>2 DEF UnreadFits
<1>5. ~stalled /\ run # "CANCELLED" => \A x \in Tasks \ missed : Agrees(x)'
  <2> SUFFICES ASSUME ~stalled, run # "CANCELLED", NEW x \in Tasks \ missed PROVE TaskFits(taskStatus[x], x)'
    BY <1>2 DEF Agrees
  <2>1. TaskFits(taskStatus[x], x) /\ taskStatus' = taskStatus
    BY AgreeNow DEF core
  <2> QED
    BY <1>2, <2>1 DEF TaskFits
<1> QED
  BY <1>1, <1>2, <1>3, <1>4, <1>5, WorkerCarries

\* An attempt stores its outcome; nobody has been told.
LEMMA StoreCarries ==
    ASSUME RunIInv, RunnerIInv', LateFits', unread = <<>>, UNCHANGED <<core, link>>,
           NEW t \in Tasks, Store(t)
    PROVE  RunIInv'
<1> USE DEF RunIInv
<1> DEFINE to == IF work[t].sawCancel THEN "CANCELLED"
                 ELSE IF work[t].outcome \in {"retryable", "final"} THEN "FAILED"
                 ELSE work[t].outcome
<1>1. pc # "idle" /\ pc' # "idle" /\ UNCHANGED <<attempt, run, cancelled>>
  BY ExecutorHasBegun DEF Executor
<1>2. /\ to \in {"CANCELLED", "FAILED", "COMPLETED", "NEEDS_REVIEW"}
      /\ status[t] \in {"RUNNING", "CANCELLED"} /\ work[t].at = "returned"
      /\ unread' = unread
  BY DEF Store, control, RunnerIInv, TypeOK, AttemptFits, Work, Outcomes
<1>3. /\ \A x \in Tasks : x # t => status'[x] = status[x] /\ work'[x] = work[x]
      /\ \/ /\ status[t] = "RUNNING" /\ status'[t] = to
            /\ work'[t] = [work[t] EXCEPT !.at = "stored"]
         \/ status[t] = "CANCELLED" /\ status'[t] = "CANCELLED" /\ work'[t] = Idle
         \/ /\ status[t] = "CANCELLED" /\ status'[t] = "CANCELLED" /\ work[t].sawCancel
            /\ work'[t] = [work[t] EXCEPT !.at = "stored"]
  BY <1>2 DEF Store, Moves, Finishes, RunnerIInv, TypeOK
<1>4. StoredFits'
  <2>1. \A x \in Tasks : x # t => StoredFits!(x)'
    BY <1>3 DEF StoredFits
  <2>2. work[t] \in Work
    BY DEF RunnerIInv, TypeOK
  <2>3. StoredFits!(t)'
    BY <1>2, <1>3, <2>2 DEF Idle, Work
  <2> QED
    BY <2>1, <2>3 DEF StoredFits
<1>5. UnreadFits'
  BY <1>1, <1>2 DEF UnreadFits
<1>6. ~stalled /\ run # "CANCELLED" => \A x \in Tasks \ missed : Agrees(x)'
  <2> SUFFICES ASSUME ~stalled, run # "CANCELLED", NEW x \in Tasks \ missed PROVE TaskFits(taskStatus[x], x)'
    BY <1>2 DEF Agrees
  <2>1. TaskFits(taskStatus[x], x) /\ taskStatus' = taskStatus
    BY AgreeNow DEF core
  <2>2. work[t] \in Work
    BY DEF RunnerIInv, TypeOK
  <2> QED
    BY <1>2, <1>3, <2>1, <2>2 DEF TaskFits, Work
<1> HIDE DEF to
<1>7. \A x \in Tasks :
        /\ status[x] = "COMPLETED" => status'[x] = "COMPLETED"
        /\ status[x] \in {"NEEDS_REVIEW", "CANCELLED"}
                        => status'[x] \in {"NEEDS_REVIEW", "CANCELLED"}
  BY <1>2, <1>3
<1> QED
  BY <1>1, <1>2, <1>4, <1>5, <1>6, <1>7, WorkerCarries

\* What was stored is reported, and nothing else.
LEMMA EmitCarries ==
    ASSUME RunIInv, RunnerIInv', LateFits', unread = <<>>, UNCHANGED <<core, link>>,
           NEW t \in Tasks, Emit(t)
    PROVE  RunIInv'
<1> USE DEF RunIInv
<1>1. pc # "idle" /\ pc' # "idle" /\ UNCHANGED <<attempt, run, cancelled>>
  BY ExecutorHasBegun DEF Executor
<1>2. /\ work[t].at = "stored" /\ status' = status
      /\ unread' = <<TaskEvent(EventOf(t), t)>>
      /\ \A x \in Tasks : x # t => work'[x] = work[x]
      /\ work'[t].at # "stored"
  BY DEF Emit, Moves, Finishes, Idle, store, RunnerIInv, TypeOK, Work
<1>3. work[t].outcome \in Outcomes /\ work[t].sawCancel \in BOOLEAN
  BY <1>2 DEF RunnerIInv, TypeOK, AttemptFits, Work
<1>4. /\ EventOf(t) \in TaskTypes
      /\ EventOf(t) # "task.started"
      /\ EventOf(t) = "task.cancelled" => work[t].sawCancel
      /\ EventOf(t) = "task.completed" => ~work[t].sawCancel /\ work[t].outcome = "COMPLETED"
      /\ EventOf(t) = "review.requested"
            => ~work[t].sawCancel /\ work[t].outcome = "NEEDS_REVIEW"
      /\ EventOf(t) = "task.failed" => Fails(t)
  BY <1>3 DEF EventOf, Fails, Outcomes, TaskTypes
<1>5. /\ EventOf(t) = "task.cancelled" => status[t] = "CANCELLED" /\ cancelled
      /\ EventOf(t) = "task.completed" => status[t] = "COMPLETED"
      /\ EventOf(t) = "review.requested" => status[t] \in {"NEEDS_REVIEW", "CANCELLED"}
      /\ EventOf(t) = "task.failed" => status[t] \in {"FAILED", "CANCELLED"}
  BY <1>2, <1>4 DEF StoredFits, RunnerIInv, AttemptFits, CancelComesFirst
<1> PICK k, e : k = EventOf(t) /\ e = TaskEvent(k, t)
  OBVIOUS
<1>6. /\ unread' \in Seq(Event) /\ Len(unread') = 1 /\ DOMAIN unread' = {1}
      /\ unread'[1] = e /\ e.type = k /\ e.task = t
  BY <1>2, <1>4, OneEvent
<1>7. EventIsTrue(e)' /\ e.type \notin RunTypes
  BY <1>1, <1>2, <1>4, <1>5, <1>6 DEF EventIsTrue, TaskTypes, RunTypes
<1>8. UnreadFits'
  BY <1>6, <1>7 DEF UnreadFits
<1>9. StoredFits'
  BY <1>2 DEF StoredFits
<1>10. ~stalled /\ run # "CANCELLED" => \A x \in Tasks \ missed : Agrees(x)'
  <2> SUFFICES ASSUME ~stalled, run # "CANCELLED", NEW x \in Tasks \ missed PROVE Agrees(x)'
    OBVIOUS
  <2>1. CASE x # t
    <3>1. TaskFits(taskStatus[x], x) /\ taskStatus' = taskStatus
      BY AgreeNow DEF core
    <3>2. TaskFits(taskStatus[x], x)'
      BY <1>2, <2>1, <3>1 DEF TaskFits
    <3>3. ~About(e, x)
      BY <1>6, <2>1 DEF About
    <3> QED
      BY <1>6, <3>2, <3>3 DEF Agrees
  <2>2. CASE x = t
    <3>1. TaskFits(Core!TaskTarget[k], t)'
      BY <1>2, <1>4, <1>5, Targets DEF TaskFits, TaskTypes
    <3>2. About(e, t)
      BY <1>4, <1>6 DEF About
    <3> QED
      BY <1>6, <2>2, <3>1, <3>2 DEF Agrees
  <2> QED
    BY <2>1, <2>2
<1>11. \A i \in DOMAIN unread' : unread'[i].type # "run.started"
  BY <1>6, <1>7 DEF RunTypes
<1> QED
  BY <1>1, <1>2, <1>8, <1>9, <1>10, <1>11, WorkerCarries

\* A final failure takes what waits below it along, and says so of each.
LEMMA CascadeCarries ==
    ASSUME RunIInv, RunnerIInv', LateFits', unread = <<>>, UNCHANGED <<core, link>>,
           NEW t \in Tasks, Cascade(t)
    PROVE  RunIInv'
<1> USE DEF RunIInv
<1> DEFINE hit == {x \in Downstream(t) : status[x] = "PENDING"}
<1>1. pc # "idle" /\ pc' # "idle" /\ UNCHANGED <<attempt, run, cancelled>>
  BY ExecutorHasBegun DEF Executor
<1>2. /\ work[t].at = "failed" /\ hit \in SUBSET Tasks
      /\ \A x \in hit : status[x] = "PENDING"
      /\ status' = [x \in Tasks |-> IF x \in hit THEN "FAILED" ELSE status[x]]
      /\ work' = [work EXCEPT ![t] = Idle]
      /\ unread' = [i \in 1 .. Cardinality(hit) |-> TaskEvent("task.failed", SetToSeq(hit)[i])]
  BY DEF Cascade, Finishes, Downstream
<1> HIDE DEF hit
<1>3. /\ unread' \in Seq(Event)
      /\ \A i \in DOMAIN unread' : unread'[i].type = "task.failed" /\ unread'[i].task \in hit
      /\ \A x \in hit : \E i \in DOMAIN unread' : About(unread'[i], x)
  <2>1. "task.failed" \in TaskTypes
    BY DEF TaskTypes
  <2>2. PICK q : q = unread'
    OBVIOUS
  <2>3. q = EventsOf("task.failed", hit)
    BY <1>2, <2>2 DEF EventsOf
  <2>4. hit \in SUBSET Tasks
    BY <1>2
  <2>5. /\ q \in Seq(Event)
        /\ \A i \in DOMAIN q : q[i].type = "task.failed" /\ q[i].task \in hit
        /\ \A x \in hit : \E i \in DOMAIN q : About(q[i], x)
    BY <2>1, <2>3, <2>4, EventsOfSet
  <2> QED
    BY <2>2, <2>5
<1>4. status[t] \in {"FAILED", "CANCELLED"}
  BY <1>2 DEF RunnerIInv, AttemptFits
<1>5. run # "COMPLETED"
  BY <1>4 DEF RunnerIInv, EndFits
<1>6. UnreadFits'
  BY <1>1, <1>3, <1>5 DEF UnreadFits, EventIsTrue, RunTypes
<1>7. \A x \in Tasks : work'[x].at # "stored" => work[x].at # "stored"
  BY <1>2 DEF RunnerIInv, TypeOK, Idle
<1>8. \A x \in Tasks : /\ work'[x].at = "stored" <=> work[x].at = "stored"
                       /\ work'[x].at = "stored" => work'[x] = work[x]
                       /\ x \notin hit => status'[x] = status[x]
                       /\ x \in hit => status[x] = "PENDING" /\ status'[x] = "FAILED"
                                       /\ work[x].at = "none"
  BY <1>2 DEF RunnerIInv, TypeOK, Idle, AttemptFits
<1>9. StoredFits'
  BY <1>8 DEF StoredFits
<1>10. ~stalled /\ run # "CANCELLED" => \A x \in Tasks \ missed : Agrees(x)'
  <2> SUFFICES ASSUME ~stalled, run # "CANCELLED", NEW x \in Tasks \ missed PROVE Agrees(x)'
    OBVIOUS
  <2>1. TaskFits(taskStatus[x], x) /\ taskStatus' = taskStatus
    BY AgreeNow DEF core
  <2>2. CASE x \notin hit
    <3>1. TaskFits(taskStatus[x], x)'
      BY <1>8, <2>1, <2>2 DEF TaskFits
    <3> QED
      BY <1>3, <2>2, <3>1 DEF Agrees, About
  <2>3. CASE x \in hit
    <3>1. TaskFits(Core!TaskTarget["task.failed"], x)'
      BY <1>8, <2>3, Targets DEF TaskFits
    <3> QED
      BY <1>3, <2>3, <3>1 DEF Agrees
  <2> QED
    BY <2>2, <2>3
<1> QED
  BY <1>1, <1>3, <1>6, <1>8, <1>9, <1>10, WorkerCarries

\* An iteration starts tasks, and says so of each; what it requeues the core
\* goes on showing as failed.
LEMMA IterateCarries ==
    ASSUME RunIInv, RunnerIInv', LateFits', unread = <<>>, UNCHANGED <<core, link>>, Iterate
    PROVE  RunIInv'
<1> USE DEF RunIInv
<1>1. PICK started \in Starts, due \in (IF Backoff THEN SUBSET requeueAt ELSE {requeueAt}) :
        /\ status' = [t \in Tasks |-> IF t \in started THEN "PLANNING"
                                      ELSE IF t \in due /\ status[t] = "FAILED"
                                           THEN "PENDING" ELSE status[t]]
        /\ attempt' = [t \in Tasks |-> IF t \in started THEN attempt[t] + 1
                                       ELSE attempt[t]]
        /\ work' = [t \in Tasks |-> IF t \in started THEN [Idle EXCEPT !.at = "queued"]
                                    ELSE work[t]]
        /\ unread' = [i \in 1 .. Cardinality(started) |->
                        TaskEvent("task.started", SetToSeq(started)[i])]
        /\ pc' = IF Quiescent(inflight \cup started, due) THEN "finalize" ELSE "loop"
  BY DEF Iterate, Iteration
<1>2. pc = "loop" /\ pc' # "idle" /\ UNCHANGED <<run, cancelled>>
  BY <1>1 DEF Iterate, Iteration
<1>3. /\ started \in SUBSET Tasks /\ due \subseteq requeueAt
      /\ \A t \in started : status[t] = "PENDING"
  BY StartsAreReady DEF Ready
<1>4. /\ unread' \in Seq(Event)
      /\ \A i \in DOMAIN unread' : unread'[i].type = "task.started" /\ unread'[i].task \in started
      /\ \A x \in started : \E i \in DOMAIN unread' : About(unread'[i], x)
  <2>1. "task.started" \in TaskTypes
    BY DEF TaskTypes
  <2>2. PICK q : q = unread'
    OBVIOUS
  <2>3. q = EventsOf("task.started", started)
    BY <1>1, <2>2 DEF EventsOf
  <2>4. started \in SUBSET Tasks
    BY <1>3
  <2>5. /\ q \in Seq(Event)
        /\ \A i \in DOMAIN q : q[i].type = "task.started" /\ q[i].task \in started
        /\ \A x \in started : \E i \in DOMAIN q : About(q[i], x)
    BY <2>1, <2>3, <2>4, EventsOfSet
  <2> QED
    BY <2>2, <2>5
<1>5. run # "COMPLETED"
  BY <1>2 DEF RunnerIInv, EndFits
<1>6. \A x \in Tasks :
        /\ x \in started => /\ status[x] = "PENDING" /\ status'[x] = "PLANNING"
                            /\ attempt'[x] > 0 /\ work'[x].at = "queued"
        /\ x \notin started => /\ work'[x] = work[x] /\ attempt'[x] = attempt[x]
                               /\ \/ status'[x] = status[x]
                                  \/ /\ status[x] = "FAILED" /\ status'[x] = "PENDING"
                                     /\ work[x].at = "none"
  BY <1>1, <1>3 DEF RunnerIInv, TypeOK, Idle, RetryFits
<1>7. UnreadFits'
  BY <1>2, <1>3, <1>4, <1>5, <1>6 DEF UnreadFits, EventIsTrue, RunTypes
<1>8. StoredFits'
  BY <1>6 DEF StoredFits
<1>9. ~stalled /\ run # "CANCELLED" => \A x \in Tasks \ missed : Agrees(x)'
  <2> SUFFICES ASSUME ~stalled, run # "CANCELLED", NEW x \in Tasks \ missed PROVE Agrees(x)'
    OBVIOUS
  <2>1. TaskFits(taskStatus[x], x) /\ taskStatus' = taskStatus
    BY AgreeNow DEF core
  <2>2. CASE x \notin started
    <3>1. TaskFits(taskStatus[x], x)'
      BY <1>6, <2>1, <2>2 DEF TaskFits
    <3> QED
      BY <1>4, <2>2, <3>1 DEF Agrees, About
  <2>3. CASE x \in started
    <3>1. TaskFits(Core!TaskTarget["task.started"], x)'
      BY <1>6, <2>3, Targets DEF TaskFits
    <3> QED
      BY <1>4, <2>3, <3>1 DEF Agrees
  <2> QED
    BY <2>2, <2>3
<1> QED
  BY <1>2, <1>4, <1>6, <1>7, <1>8, <1>9, WorkerCarries

\* The worker steps on its own.
LEMMA WorkerKeeps ==
    ASSUME RunIInv, RunnerIInv', LateFits', Worker PROVE RunIInv'
<1>1. unread = <<>> /\ UNCHANGED <<core, link>>
  BY DEF Worker, Step
<1>2. CASE Scheduler
  BY <1>1, <1>2, SilentStepsCarry, BeginCarries, EndCarries, CancelTaskCarries, IterateCarries
     DEF Scheduler
<1>3. CASE \E t \in Tasks : Executor(t)
  BY <1>1, <1>3, AttemptCarries, StoreCarries, EmitCarries, CascadeCarries DEF Executor
<1>4. CASE Cancel
  BY <1>1, <1>4, CancelCarries
<1> QED
  BY <1>2, <1>3, <1>4 DEF Worker, Step

\* What applying a task's event does: nothing, when the core has that status;
\* otherwise a move with its cascade and its rollup.
LEMMA CoreTaskStep ==
    ASSUME Core!TypeOK, NEW t \in Tasks, NEW k \in TaskTypes, Core!ApplyTaskEvent(k, t),
           NEW s, s = Core!TaskTarget[k]
    PROVE  /\ Core!TypeOK'
           /\ \/ taskStatus[t] = s /\ UNCHANGED core
              \/ /\ <<taskStatus[t], s>> \in Core!TaskTransitions
                 /\ taskStatus' = Core!After(t, s)
                 /\ runStatus' = Core!RolledUp(Core!After(t, s))
                 /\ claimed' = claimed
<1> USE DEF core, Core!vars, Core!Replay
<1>1. s \in Core!TaskStatus
  BY Targets DEF TaskTypes, Core!TaskStatus
<1>2. /\ \/ taskStatus[t] = s /\ UNCHANGED core
         \/ Core!Move(t, s)
      /\ checkpoint' \in SUBSET Tasks /\ errorRef' \in SUBSET Tasks
      /\ retries' \in [Tasks -> 0 .. MaxAttempts]
  <2>1. CASE k = "task.started"
    <3>1. Core!TaskStarted(t) /\ s = "RUNNING"
      BY <2>1, Targets DEF Core!ApplyTaskEvent
    <3> QED
      BY <3>1, PoolAssumption
         DEF Core!TaskStarted, Core!RecordRetry, Core!ClearError, Core!TypeOK
  <2>2. CASE k = "task.completed"
    <3>1. Core!TaskCompleted(t) /\ s = "COMPLETED"
      BY <2>2, Targets DEF Core!ApplyTaskEvent
    <3> QED
      BY <3>1 DEF Core!TaskCompleted, Core!ClearCheckpoint, Core!TypeOK
  <2>3. CASE k = "task.failed"
    <3>1. Core!TaskFailed(t) /\ s = "FAILED"
      BY <2>3, Targets DEF Core!ApplyTaskEvent
    <3> QED
      BY <3>1 DEF Core!TaskFailed, Core!CarriedError, Core!TypeOK
  <2>4. CASE k = "task.cancelled"
    <3>1. Core!TaskCancelled(t) /\ s = "CANCELLED"
      BY <2>4, Targets DEF Core!ApplyTaskEvent
    <3> QED
      BY <3>1 DEF Core!TaskCancelled, Core!TypeOK
  <2>5. CASE k = "review.requested"
    <3>1. Core!ReviewRequested(t) /\ s = "NEEDS_REVIEW"
      BY <2>5, Targets DEF Core!ApplyTaskEvent
    <3> QED
      BY <3>1 DEF Core!ReviewRequested, Core!TypeOK
  <2> QED
    BY <2>1, <2>2, <2>3, <2>4, <2>5 DEF TaskTypes
<1>3. CASE UNCHANGED core /\ taskStatus[t] = s
  BY <1>3 DEF Core!TypeOK
<1>4. CASE Core!Move(t, s)
  <2>1. /\ <<taskStatus[t], s>> \in Core!TaskTransitions
        /\ taskStatus' = Core!After(t, s)
        /\ runStatus' = Core!RolledUp(Core!After(t, s))
        /\ claimed' = claimed
    BY <1>4 DEF Core!Move, Core!MayMove
  <2>2. Core!After(t, s) \in [Tasks -> Core!TaskStatus]
    BY <1>1 DEF Core!After, Core!TypeOK, Core!TaskStatus
  <2>3. Core!RolledUp(Core!After(t, s)) \in Core!RunStatus
    BY DEF Core!RolledUp, Core!RollupTarget, Core!RunStatus, Core!TypeOK
  <2> QED
    BY <1>2, <2>1, <2>2, <2>3 DEF Core!TypeOK
<1> QED
  BY <1>2, <1>3, <1>4

\* What applying an event of the run does.
LEMMA CoreRunStep ==
    ASSUME Core!TypeOK, NEW k \in RunTypes, Core!ApplyRunEvent(k)
    PROVE  /\ Core!TypeOK'
           /\ k = "run.started" =>
                /\ claimed' = claimed \cup {t \in Tasks : taskStatus[t] = "PENDING"}
                /\ runStatus' = "running"
                /\ taskStatus' = [t \in Tasks |->
                        IF t \in claimed /\ taskStatus[t] = "PAUSED" THEN "RUNNING" ELSE taskStatus[t]]
           /\ k # "run.started" => claimed' = claimed
           /\ k = "run.completed" => runStatus' = "completed" /\ taskStatus' = taskStatus
           /\ k = "run.failed" => runStatus' = "failed" /\ taskStatus' = taskStatus
           /\ k = "run.cancelled" =>
                /\ runStatus' = "cancelled"
                /\ taskStatus' = [t \in Tasks |->
                        IF t \in claimed /\ taskStatus[t] \notin Core!TerminalTask
                        THEN "CANCELLED" ELSE taskStatus[t]]
<1> USE DEF Core!TypeOK, Core!RunEvent, Core!RunStatus
<1>1. CASE k = "run.started"
  <2>1. Core!RunStarted
    BY <1>1 DEF Core!ApplyRunEvent
  <2> QED
    BY <1>1, <2>1 DEF Core!RunStarted, Core!TaskStatus
<1>2. CASE k = "run.completed"
  <2>1. Core!RunCompleted
    BY <1>2 DEF Core!ApplyRunEvent
  <2> QED
    BY <1>2, <2>1 DEF Core!RunCompleted
<1>3. CASE k = "run.failed"
  <2>1. Core!RunFailed
    BY <1>3 DEF Core!ApplyRunEvent
  <2> QED
    BY <1>3, <2>1 DEF Core!RunFailed
<1>4. CASE k = "run.cancelled"
  <2>1. Core!RunCancelled
    BY <1>4 DEF Core!ApplyRunEvent
  <2> QED
    BY <1>4, <2>1 DEF Core!RunCancelled, Core!TaskStatus
<1> QED
  BY <1>1, <1>2, <1>3, <1>4 DEF RunTypes

\* Reading takes the first event away and leaves the worker alone.
LEMMA ReadFrame ==
    ASSUME RunIInv, Read
    PROVE  /\ UNCHANGED <<status, attempt, run, inflight, requeueAt, cancelled, pc, open,
                          anyFailed, work, job>>
           /\ StoredFits' /\ UnreadFits'
           /\ unread \in Seq(Event) /\ unread # <<>> /\ unread' = Tail(unread)
           /\ 1 \in DOMAIN unread /\ Head(unread) = unread[1] /\ unread[1] \in Event
           /\ \A i \in DOMAIN unread' : i + 1 \in DOMAIN unread /\ unread'[i] = unread[i + 1]
           /\ \A i \in DOMAIN unread : i # 1 => i - 1 \in DOMAIN unread' /\ unread'[i - 1] = unread[i]
           /\ unread[1].type \in RunTypes => unread' = <<>>
<1> USE DEF RunIInv
<1>1. /\ UNCHANGED <<status, attempt, run, inflight, requeueAt, cancelled, pc, open,
                     anyFailed, work, job>>
      /\ unread # <<>> /\ unread' = Tail(unread)
  BY DEF Read, store, control, final
<1>2. unread \in Seq(Event)
  BY DEF UnreadFits
<1> HIDE DEF Event
<1>3. /\ 1 \in DOMAIN unread /\ Head(unread) = unread[1] /\ unread[1] \in Event
      /\ unread' \in Seq(Event) /\ Len(unread') = Len(unread) - 1 /\ Len(unread) \in Nat
      /\ \A i \in DOMAIN unread' : i + 1 \in DOMAIN unread /\ unread'[i] = unread[i + 1]
      /\ \A i \in DOMAIN unread : i # 1 => i - 1 \in DOMAIN unread' /\ unread'[i - 1] = unread[i]
  BY <1>1, <1>2
<1>4. unread[1].type \in RunTypes => unread' = <<>>
  BY <1>1, <1>2, <1>3 DEF UnreadFits
<1>5. StoredFits'
  BY <1>1 DEF StoredFits
<1>6. UnreadFits'
  <2>2. \A i \in DOMAIN unread' : unread'[i].type \in RunTypes => Len(unread') = 1
    BY <1>3 DEF UnreadFits
  <2>3. \A i \in DOMAIN unread' :
            /\ unread[i + 1].type = "task.started"     => attempt'[unread[i + 1].task] > 0
            /\ unread[i + 1].type = "task.completed"   => status'[unread[i + 1].task] = "COMPLETED"
            /\ unread[i + 1].type = "review.requested"
                    => status'[unread[i + 1].task] \in {"NEEDS_REVIEW", "CANCELLED"}
            /\ unread[i + 1].type \in {"task.cancelled", "run.cancelled"} => cancelled'
            /\ unread[i + 1].type = "run.completed" => run' = "COMPLETED"
            /\ unread[i + 1].type = "run.cancelled" => run' = "CANCELLED"
            /\ unread[i + 1].type = "run.failed" => run' = "FAILED"
    BY <1>1, <1>3 DEF UnreadFits, EventIsTrue
  <2>4. \A i \in DOMAIN unread' : EventIsTrue(unread[i])'
    BY <1>3, <2>3 DEF EventIsTrue
  <2> QED
    BY <1>1, <1>3, <2>2, <2>4 DEF UnreadFits
<1> QED
  BY <1>1, <1>2, <1>3, <1>4, <1>5, <1>6

\* While an event of a task is unread, the run has claimed its tasks.
LEMMA HasClaimed ==
    ASSUME RunIInv, unread # <<>>, unread[1].type # "run.started"
    PROVE  claimed = Tasks /\ ~Unbegun
           /\ \A i \in DOMAIN unread : unread[i].type # "run.started"
<1>1. ~Unbegun
  <2>1. <<RunEvent("run.started")>>[1].type = "run.started"
    BY DEF RunEvent
  <2> QED
    BY <2>1 DEF RunIInv, ClaimFits, Unbegun
<1> QED
  BY <1>1 DEF RunIInv, ClaimFits

\* A refused event, and what comes after it.
LEMMA StallKeeps ==
    ASSUME RunIInv, RunnerIInv', LateFits', Stall \/ Unheard
    PROVE  RunIInv'
<1> USE DEF RunIInv, core, link
<1>1. Read /\ UNCHANGED core /\ stalled' = TRUE
  BY DEF Stall, Unheard
<1>2. unread[1].type # "run.started"
  <2>1. CASE Stall
    <3>1. ~Accepted(unread[1])
      BY <1>1, <2>1, ReadFrame DEF Stall
    <3>2. SUFFICES ASSUME unread[1].type = "run.started" PROVE FALSE
      OBVIOUS
    <3>3. ~Core!RunMayMove(runStatus, "running")
      BY <3>1, <3>2, Targets
         DEF Accepted, RunTypes, Core!AcceptsRunEvent, Core!RunTarget
    <3>4. Unbegun
      BY <1>1, <3>2, ReadFrame DEF ClaimFits
    <3> QED
      BY <3>3, <3>4 DEF ClaimFits, Core!RunMayMove
  <2>2. CASE Unheard
    <3>1. ~Unbegun
      BY <2>2 DEF Unheard, ClaimFits
    <3> QED
      BY <1>1, <3>1, ReadFrame DEF ClaimFits
  <2> QED
    BY <2>1, <2>2
<1>3. claimed = Tasks /\ ~Unbegun /\ \A i \in DOMAIN unread : unread[i].type # "run.started"
  BY <1>1, <1>2, ReadFrame, HasClaimed
<1>4. \A i \in DOMAIN unread' : unread'[i].type # "run.started"
  BY <1>1, <1>3, ReadFrame
<1>5. ~Unbegun'
  <2>1. <<RunEvent("run.started")>>[1].type = "run.started" /\ 1 \in DOMAIN <<RunEvent("run.started")>>
    BY DEF RunEvent
  <2>2. pc' # "idle"
    BY <1>1, <1>3, ReadFrame DEF Unbegun
  <2> QED
    BY <1>4, <2>1, <2>2 DEF Unbegun
<1>6. ClaimFits'
  BY <1>1, <1>3, <1>4, <1>5 DEF ClaimFits
<1>7. Core!TypeOK' /\ CoreFits' /\ TasksNeverAhead'
  BY <1>1, ReadFrame DEF Core!TypeOK, CoreFits, TasksNeverAhead
<1>8. Agree' /\ EndAgrees'
  BY <1>1 DEF Agree, EndAgrees
<1> QED
  BY <1>1, <1>6, <1>7, <1>8, ReadFrame

\* The event of a task is projected.
LEMMA ProjectTaskKeeps ==
    ASSUME RunIInv, RunnerIInv', LateFits', Project, Head(unread).type \in TaskTypes
    PROVE  RunIInv'
<1> USE DEF RunIInv
<1>1. /\ Read /\ ~stalled /\ UNCHANGED <<stalled, missed>> /\ Apply(unread[1])
      /\ missed = {}
  BY ReadFrame DEF Project, link, LateFits
<1> PICK e, k, t, s : e = unread[1] /\ k = e.type /\ t = e.task /\ s = Core!TaskTarget[k]
  OBVIOUS
<1>2. k \in TaskTypes /\ t \in Tasks /\ EventIsTrue(e)
  BY <1>1, ReadFrame DEF UnreadFits, Event, TaskTypes, RunTypes
<1>3. Core!ApplyTaskEvent(k, t)
  BY <1>1, <1>2, Targets DEF Apply
<1>4. /\ Core!TypeOK'
      /\ \/ taskStatus[t] = s /\ UNCHANGED core
         \/ /\ <<taskStatus[t], s>> \in Core!TaskTransitions
            /\ taskStatus' = Core!After(t, s)
            /\ runStatus' = Core!RolledUp(Core!After(t, s))
            /\ claimed' = claimed
  BY <1>2, <1>3, CoreTaskStep
<1>5. /\ s \in {"RUNNING", "COMPLETED", "FAILED", "CANCELLED", "NEEDS_REVIEW"}
      /\ s = "RUNNING" => attempt[t] > 0
      /\ s = "COMPLETED" => status[t] = "COMPLETED"
      /\ s = "NEEDS_REVIEW" => status[t] \in {"NEEDS_REVIEW", "CANCELLED"}
      /\ s = "CANCELLED" => cancelled
  BY <1>2, Targets DEF TaskTypes, EventIsTrue
<1>6. claimed = Tasks /\ ~Unbegun /\ \A i \in DOMAIN unread : unread[i].type # "run.started"
  BY <1>1, <1>2, HasClaimed, ReadFrame DEF TaskTypes
<1>7. claimed' = Tasks
  BY <1>4, <1>6 DEF core
<1>8. /\ taskStatus'[t] = s
      /\ \A x \in Tasks : x # t => \/ taskStatus'[x] = taskStatus[x]
                                   \/ /\ s = "FAILED" /\ taskStatus[x] = "PENDING"
                                      /\ taskStatus'[x] = "FAILED"
  BY <1>2, <1>4 DEF Core!After, core
<1>9. ClaimFits'
  <2>1. \A i \in DOMAIN unread' : unread'[i].type # "run.started"
    BY <1>1, <1>6, ReadFrame
  <2>2. <<RunEvent("run.started")>>[1].type = "run.started" /\ 1 \in DOMAIN <<RunEvent("run.started")>>
    BY DEF RunEvent
  <2>3. pc' # "idle"
    BY <1>1, <1>6, ReadFrame DEF Unbegun
  <2>4. ~Unbegun'
    BY <2>1, <2>2, <2>3 DEF Unbegun
  <2> QED
    BY <1>7, <2>1, <2>4 DEF ClaimFits
<1>10. TasksNeverAhead'
  BY <1>1, <1>5, <1>8, ReadFrame DEF TasksNeverAhead
<1>11. CoreFits'
  <2>1. \A x \in Tasks : taskStatus'[x] \in {"PENDING", "RUNNING", "NEEDS_REVIEW",
                                             "COMPLETED", "FAILED", "CANCELLED"}
    BY <1>5, <1>8 DEF CoreFits
  <2>2. \A x \in Tasks : taskStatus'[x] = "CANCELLED" => cancelled
    BY <1>5, <1>8 DEF CoreFits
  <2>3. runStatus' # "paused" /\ (runStatus' = "cancelled" => cancelled)
    <3>1. CASE UNCHANGED core
      BY <3>1 DEF core, CoreFits
    <3>2. CASE runStatus' = Core!RolledUp(taskStatus')
      BY <1>6, <2>2, <3>2 DEF CoreFits, Core!RolledUp, Core!RollupTarget, Core!AnyIs
    <3> QED
      BY <1>4, <3>1, <3>2
  <2> QED
    BY <1>1, <2>1, <2>2, <2>3, ReadFrame DEF CoreFits
<1>12. Agree'
  <2> SUFFICES ASSUME run # "CANCELLED", NEW x \in Tasks PROVE Agrees(x)'
    BY <1>1, ReadFrame DEF Agree
  <2>1. Agrees(x) /\ Agrees(t)
    BY <1>1, <1>2 DEF Agree
  <2>2. \A v : TaskFits(v, x)' <=> TaskFits(v, x)
    BY <1>1, ReadFrame DEF TaskFits
  <2>3. \A i \in DOMAIN unread' : About(unread'[i], x)
            => TaskFits(Core!TaskTarget[unread'[i].type], x)
    BY <1>1, <2>1, ReadFrame DEF Agrees
  <2>4. (\A i \in DOMAIN unread' : ~About(unread'[i], x)) => TaskFits(taskStatus'[x], x)
    <3>1. CASE x = t
      <4>1. TaskFits(s, t)
        BY <1>1, <1>2, <2>1, ReadFrame DEF Agrees, About
      <4> QED
        BY <1>8, <3>1, <4>1
    <3>2. CASE x # t
      <4>1. SUFFICES ASSUME \A i \in DOMAIN unread' : ~About(unread'[i], x)
                     PROVE  TaskFits(taskStatus'[x], x)
        OBVIOUS
      <4>2. \A i \in DOMAIN unread : ~About(unread[i], x)
        <5>1. ~About(unread[1], x)
          BY <3>2 DEF About
        <5> QED
          BY <1>1, <4>1, <5>1, ReadFrame
      <4>3. TaskFits(taskStatus[x], x)
        BY <2>1, <4>2 DEF Agrees
      <4> QED
        BY <1>8, <3>2, <4>3 DEF TaskFits
    <3> QED
      BY <3>1, <3>2
  <2> QED
    BY <2>2, <2>3, <2>4 DEF Agrees
<1>13. EndAgrees'
  <2>0. /\ unread # <<RunEvent("run.completed")>> /\ unread # <<RunEvent("run.cancelled")>>
        /\ run' = run
    <3>1. /\ <<RunEvent("run.completed")>>[1].type \notin TaskTypes
          /\ <<RunEvent("run.cancelled")>>[1].type \notin TaskTypes
      BY DEF RunEvent, TaskTypes
    <3> QED
      BY <1>1, <1>2, <3>1, ReadFrame
  <2>1. CASE UNCHANGED core
    BY <1>1, <2>0, <2>1 DEF EndAgrees, core
  <2>2. CASE /\ <<taskStatus[t], s>> \in Core!TaskTransitions
             /\ runStatus' = Core!RolledUp(taskStatus')
    <3>1. run # "CANCELLED"
      <4>1. taskStatus[t] \notin Core!TerminalTask
        BY <2>2 DEF Core!TaskTransitions, Core!TerminalTask
      <4> QED
        BY <1>1, <1>2, <2>0, <4>1 DEF EndAgrees
    <3>2. CASE run = "COMPLETED"
      <4>1. unread' = <<>>
        <5>1. Len(unread) <= 1
          BY <3>2 DEF UnreadFits
        <5> HIDE DEF Event
        <5> QED
          BY <1>1, <5>1, ReadFrame
      <4>2. \A x \in Tasks : TaskFits(taskStatus[x], x)'
        BY <1>1, <1>12, <3>1, <4>1, ReadFrame DEF Agree, Agrees
      <4>3. \A x \in Tasks : status'[x] \in {"COMPLETED", "NEEDS_REVIEW"}
        BY <1>1, <3>2, ReadFrame DEF RunnerIInv, EndFits
      <4>4. \A x \in Tasks : taskStatus'[x] \in {"RUNNING", "COMPLETED", "NEEDS_REVIEW"}
        BY <4>2, <4>3 DEF TaskFits
      <4>5. runStatus # "paused" /\ claimed # {} /\ claimed = Tasks
        BY <1>2, <1>6 DEF CoreFits
      <4>6. \/ runStatus' = "completed"
            \/ runStatus' = "needs_review" /\ \E x \in Tasks : taskStatus'[x] = "NEEDS_REVIEW"
            \/ runStatus' = "running" /\ \E x \in Tasks : taskStatus'[x] = "RUNNING"
        BY <2>2, <4>4, <4>5
           DEF Core!RolledUp, Core!RollupTarget, Core!AnyIs, Core!AllSettled, Core!SettledTask,
               Core!TerminalTask
      <4> QED
        BY <2>0, <3>2, <4>6 DEF EndAgrees
    <3>3. CASE run # "COMPLETED"
      BY <2>0, <3>1, <3>3 DEF EndAgrees
    <3> QED
      BY <3>2, <3>3
  <2> QED
    BY <1>4, <2>1, <2>2
<1> QED
  BY <1>1, <1>4, <1>9, <1>10, <1>11, <1>12, <1>13, ReadFrame

\* The event of the run is projected.
LEMMA ProjectRunKeeps ==
    ASSUME RunIInv, RunnerIInv', LateFits', Project, Head(unread).type \in RunTypes
    PROVE  RunIInv'
<1> USE DEF RunIInv
<1>1. /\ Read /\ ~stalled /\ UNCHANGED <<stalled, missed>> /\ Apply(unread[1])
      /\ missed = {}
  BY ReadFrame DEF Project, link, LateFits
<1> PICK e, k : e = unread[1] /\ k = e.type
  OBVIOUS
<1>2. k \in RunTypes /\ EventIsTrue(e) /\ unread' = <<>>
  BY <1>1, ReadFrame DEF UnreadFits
<1>3. Core!ApplyRunEvent(k)
  BY <1>1, <1>2, Targets DEF Apply
<1>4. /\ Core!TypeOK'
      /\ k = "run.started" =>
           /\ claimed' = claimed \cup {t \in Tasks : taskStatus[t] = "PENDING"}
           /\ runStatus' = "running"
           /\ taskStatus' = [t \in Tasks |->
                   IF t \in claimed /\ taskStatus[t] = "PAUSED" THEN "RUNNING" ELSE taskStatus[t]]
      /\ k # "run.started" => claimed' = claimed
      /\ k = "run.completed" => runStatus' = "completed" /\ taskStatus' = taskStatus
      /\ k = "run.failed" => runStatus' = "failed" /\ taskStatus' = taskStatus
      /\ k = "run.cancelled" =>
           /\ runStatus' = "cancelled"
           /\ taskStatus' = [t \in Tasks |->
                   IF t \in claimed /\ taskStatus[t] \notin Core!TerminalTask
                   THEN "CANCELLED" ELSE taskStatus[t]]
  BY <1>2, <1>3, CoreRunStep
<1>5. \A t \in Tasks :
        /\ k # "run.cancelled" => taskStatus'[t] = taskStatus[t]
        /\ k = "run.cancelled" => taskStatus'[t] = taskStatus[t] \/ taskStatus'[t] = "CANCELLED"
  BY <1>2, <1>4 DEF CoreFits, RunTypes
<1>6. /\ k = "run.cancelled" => cancelled /\ run = "CANCELLED"
      /\ k = "run.completed" => run = "COMPLETED"
      /\ k = "run.failed" => run = "FAILED"
  BY <1>2 DEF EventIsTrue
<1>7. claimed' = Tasks /\ pc # "idle"
  <2>1. CASE k = "run.started"
    <3>1. Unbegun /\ pc # "idle"
      BY <1>1, <2>1, ReadFrame DEF ClaimFits
    <3>2. claimed \subseteq Tasks /\ \A t \in Tasks : taskStatus[t] = "PENDING"
      BY <3>1 DEF ClaimFits, Core!TypeOK
    <3> QED
      BY <1>4, <2>1, <3>1, <3>2
  <2>2. CASE k # "run.started"
    BY <1>1, <1>4, <2>2, HasClaimed, ReadFrame DEF Unbegun
  <2> QED
    BY <2>1, <2>2
<1>8. ClaimFits'
  <2>1. ~Unbegun'
    BY <1>1, <1>2, <1>7, ReadFrame DEF Unbegun
  <2> QED
    BY <1>2, <1>7, <2>1 DEF ClaimFits
<1>9. TasksNeverAhead'
  BY <1>1, <1>5, ReadFrame DEF TasksNeverAhead
<1>10. CoreFits'
  <2>1. runStatus' # "paused" /\ (runStatus' = "cancelled" => k = "run.cancelled")
    BY <1>2, <1>4 DEF RunTypes
  <2> QED
    BY <1>1, <1>5, <1>6, <2>1, ReadFrame DEF CoreFits
<1>11. Agree'
  <2> SUFFICES ASSUME run # "CANCELLED", NEW x \in Tasks PROVE Agrees(x)'
    BY <1>1, ReadFrame DEF Agree
  <2>1. taskStatus'[x] = taskStatus[x]
    BY <1>5, <1>6
  <2>2. \A i \in DOMAIN unread : i = 1
    BY <1>1, <1>2, ReadFrame
  <2>3. ~About(unread[1], x)
    BY <1>2 DEF About, TaskTypes, RunTypes
  <2>4. TaskFits(taskStatus[x], x)
    BY <1>1, <2>2, <2>3 DEF Agree, Agrees
  <2>5. TaskFits(taskStatus[x], x)'
    BY <1>1, <2>1, <2>4, ReadFrame DEF TaskFits
  <2> QED
    BY <1>2, <2>5 DEF Agrees
<1>12. EndAgrees'
  <2>1. CASE k = "run.cancelled"
    <3>1. run = "CANCELLED" /\ run' = run /\ claimed = Tasks
      BY <1>1, <1>4, <1>6, <1>7, <2>1, ReadFrame
    <3>2. \A t \in Tasks : taskStatus'[t] \in Core!TerminalTask
      BY <1>4, <2>1, <3>1 DEF Core!TerminalTask
    <3> QED
      BY <1>4, <2>1, <3>1, <3>2 DEF EndAgrees
  <2>2. CASE k = "run.completed"
    BY <1>1, <1>4, <1>6, <2>2, ReadFrame DEF EndAgrees
  <2>3. CASE k = "run.failed" \/ k = "run.started"
    <3>1. k = "run.started" => Unbegun
      BY <1>1, ReadFrame DEF ClaimFits
    <3>2. run' = run /\ run \notin {"COMPLETED", "CANCELLED"}
      BY <1>1, <1>6, <2>3, <3>1, ReadFrame DEF ClaimFits
    <3> QED
      BY <3>2 DEF EndAgrees
  <2> QED
    BY <1>2, <2>1, <2>2, <2>3 DEF RunTypes
<1> QED
  BY <1>1, <1>4, <1>8, <1>9, <1>10, <1>11, <1>12, ReadFrame

\* The job is retired, and a report that comes after that is not read.
LEMMA RetireKeeps ==
    ASSUME RunIInv, RunnerIInv', LateFits', Retire \/ Miss
    PROVE  RunIInv'
<1> USE DEF RunIInv, core, link
<1>1. CASE Retire
  <2>1. UNCHANGED <<rvars, core, stalled, missed>>
    BY <1>1 DEF Retire
  <2> QED
    BY <2>1 DEF rvars, Core!TypeOK, StoredFits, UnreadFits, EventIsTrue, CoreFits, ClaimFits,
           Unbegun, Agree, Agrees, TaskFits, EndAgrees, TasksNeverAhead
<1>2. CASE Miss
  <2>1. Read /\ UNCHANGED <<core, stalled>> /\ missed' = missed \cup {unread[1].task}
    BY <1>2, ReadFrame DEF Miss
  <2>2. /\ pc = "ended" /\ unread[1].type \in TaskTypes
        /\ \A i \in DOMAIN unread : unread[i].type \in TaskTypes
    BY <1>2, <2>1, ReadFrame DEF Miss, LateFits
  <2>3. claimed = Tasks /\ ~Unbegun /\ ~Unbegun'
    BY <2>1, <2>2, HasClaimed, ReadFrame DEF TaskTypes, Unbegun
  <2>4. ClaimFits'
    BY <2>1, <2>2, <2>3, ReadFrame DEF ClaimFits
  <2>5. Core!TypeOK' /\ stalled' \in BOOLEAN /\ CoreFits' /\ TasksNeverAhead'
    BY <2>1, ReadFrame DEF Core!TypeOK, CoreFits, TasksNeverAhead
  <2>6. Agree'
    <3> SUFFICES ASSUME ~stalled, run # "CANCELLED", NEW x \in Tasks \ missed' PROVE Agrees(x)'
      BY <2>1, ReadFrame DEF Agree
    <3>1. Agrees(x) /\ ~About(unread[1], x)
      BY <2>1 DEF Agree, About
    <3>2. \A v : TaskFits(v, x)' <=> TaskFits(v, x)
      BY <2>1, ReadFrame DEF TaskFits
    <3>3. \A i \in DOMAIN unread' : About(unread'[i], x)
              => TaskFits(Core!TaskTarget[unread'[i].type], x)
      BY <2>1, <3>1, ReadFrame DEF Agrees
    <3>4. (\A i \in DOMAIN unread' : ~About(unread'[i], x)) => TaskFits(taskStatus[x], x)
      BY <2>1, <3>1, ReadFrame DEF Agrees
    <3> QED
      BY <2>1, <3>2, <3>3, <3>4 DEF Agrees
  <2>7. EndAgrees'
    <3>1. /\ <<RunEvent("run.completed")>>[1].type \notin TaskTypes
          /\ <<RunEvent("run.cancelled")>>[1].type \notin TaskTypes
      BY DEF RunEvent, TaskTypes
    <3>2. /\ unread # <<RunEvent("run.completed")>> /\ unread # <<RunEvent("run.cancelled")>>
      BY <2>2, <3>1
    <3> QED
      BY <2>1, <3>2, ReadFrame DEF EndAgrees
  <2> QED
    BY <2>1, <2>4, <2>5, <2>6, <2>7, ReadFrame
<1> QED
  BY <1>1, <1>2

\* Behind the job's end only attempts speak, and only then is anything missed.
LEMMA LateKeeps == ASSUME RunIInv, [RRNext]_allvars PROVE LateFits'
<1> USE DEF RunIInv, LateFits, link
<1>1. CASE Worker
  <2>1. unread = <<>> /\ UNCHANGED link
    BY <1>1 DEF Worker, Step
  <2>2. CASE Scheduler
    <3>1. pc # "ended" /\ (pc' = "ended" => unread' = unread)
      BY <2>2 DEF Scheduler, RunBegin, SeeCancel, Iterate, Iteration, Snapshot, DecideCancelled,
             DecideFailed, DecideCompleted, DecideUnfinished, CancelTask, AllCancelled, EndRun,
             JobEnds
    <3> QED
      BY <2>1, <3>1
  <2>3. CASE \E t \in Tasks : Executor(t)
    <3>1. PICK t \in Tasks : Executor(t)
      BY <2>3
    <3>2. pc' = pc
      BY <3>1, ExecutorsFrame
    <3>3. \A i \in DOMAIN unread' : unread'[i].type \in TaskTypes
      <4>1. CASE Emit(t)
        <5>1. EventOf(t) \in TaskTypes
          BY DEF EventOf, TaskTypes
        <5> QED
          BY <4>1, <5>1, OneEvent DEF Emit
      <4>2. CASE Cascade(t)
        BY <4>2 DEF Cascade, TaskEvent, TaskTypes
      <4>3. CASE Begin(t) \/ Return(t) \/ Store(t) \/ Requeue(t)
        BY <2>1, <4>3 DEF Begin, Return, Store, Requeue
      <4> QED
        BY <3>1, <4>1, <4>2, <4>3 DEF Executor
    <3> QED
      BY <2>1, <3>2, <3>3
  <2>4. CASE Cancel
    BY <2>1, <2>4 DEF Cancel
  <2> QED
    BY <1>1, <2>2, <2>3, <2>4 DEF Worker, Step
<1>2. CASE Project \/ Stall \/ Unheard
  <2>1. Read /\ UNCHANGED <<retired, missed>>
    BY <1>2 DEF Project, Stall, Unheard
  <2> QED
    BY <2>1, ReadFrame
<1>3. CASE Retire
  BY <1>3 DEF Retire, rvars
<1>4. CASE Miss
  <2>1. Read /\ retired' = retired /\ missed' = missed \cup {unread[1].task} /\ retired
    BY <1>4, ReadFrame DEF Miss
  <2>2. unread[1].task \in Tasks
    BY <2>1, ReadFrame DEF Event, TaskTypes, RunTypes
  <2> QED
    BY <2>1, <2>2, ReadFrame
<1>5. CASE UNCHANGED allvars
  BY <1>5 DEF allvars, rvars
<1> QED
  BY <1>1, <1>2, <1>3, <1>4, <1>5 DEF RRNext, Terminated, allvars

\* No run in the core without tasks of its own, and nothing else known of it.
LEMMA InitHoldsRunIInv == RRInit => RunIInv
<1> SUFFICES ASSUME RRInit PROVE RunIInv
  OBVIOUS
<1> USE DEF RRInit, Core!Init
<1>1. RunnerIInv
  BY InitHoldsRunnerIInv
<1>2. Core!TypeOK /\ stalled \in BOOLEAN
  <2>1. 0 \in 0 .. MaxAttempts
    BY PoolAssumption
  <2>2. retries \in [Tasks -> 0 .. MaxAttempts]
    BY <2>1
  <2>3. taskStatus \in [Tasks -> Core!TaskStatus] /\ runStatus \in Core!RunStatus
    BY DEF Core!TaskStatus, Core!RunStatus
  <2> QED
    BY <2>2, <2>3 DEF Core!TypeOK
<1>3. StoredFits /\ UnreadFits /\ CoreFits /\ EndAgrees /\ TasksNeverAhead
  BY DEF Init, StoredFits, UnreadFits, CoreFits, EndAgrees, TasksNeverAhead, Idle
<1>4. ClaimFits /\ Agree
  BY DEF Init, ClaimFits, Unbegun, Agree, Agrees, TaskFits
<1>5. LateFits
  <2>1. retired = FALSE /\ missed = {} /\ unread = <<>> /\ pc = "idle"
    BY DEF Init
  <2> QED
    BY <2>1 DEF LateFits
<1> QED
  BY <1>1, <1>2, <1>3, <1>4, <1>5 DEF RunIInv

\* The composition is the runner with a reader: it implements DagRunner, so
\* every theorem about the runner holds in it.
THEOREM ImplementsRunner == RRSpec => Spec
<1>1. RRInit => Init
  BY DEF RRInit
<1>2. [RRNext]_allvars => [Next]_rvars
  <2>1. ASSUME UNCHANGED allvars \/ Retire PROVE UNCHANGED rvars
    BY <2>1 DEF allvars, Retire
  <2>2. ASSUME RRNext, ~Retire PROVE Next
    BY <2>2 DEF RRNext, Next, Worker, Project, Stall, Unheard, Retire, Miss
  <2> QED
    BY <2>1, <2>2
<1> QED
  BY <1>1, <1>2, PTL DEF RRSpec, Spec

\* The inductive invariant of the composition.
LEMMA RunIInvHolds == RRSpec => []RunIInv
<1>1. RunIInv /\ RunnerIInv' /\ [RRNext]_allvars => RunIInv'
  <2> SUFFICES ASSUME RunIInv, RunnerIInv', [RRNext]_allvars PROVE RunIInv'
    OBVIOUS
  <2>0. LateFits'
    BY LateKeeps
  <2>1. CASE Worker
    BY <2>0, <2>1, WorkerKeeps
  <2>2. CASE Project
    <3>1. Head(unread).type \in TaskTypes \cup RunTypes
      BY <2>2, ReadFrame DEF Project, Event
    <3> QED
      BY <2>0, <2>2, <3>1, ProjectTaskKeeps, ProjectRunKeeps
  <2>3. CASE Stall \/ Unheard
    BY <2>0, <2>3, StallKeeps
  <2>4. CASE Retire \/ Miss
    BY <2>0, <2>4, RetireKeeps
  <2>5. CASE UNCHANGED allvars
    BY <2>0, <2>5 DEF RunIInv, allvars, rvars, core, link, Core!TypeOK, StoredFits, UnreadFits, EventIsTrue,
           CoreFits, ClaimFits, Unbegun, Agree, Agrees, TaskFits, EndAgrees, TasksNeverAhead
  <2> QED
    BY <2>1, <2>2, <2>3, <2>4, <2>5 DEF RRNext, Terminated, allvars
<1> QED
  BY <1>1, InitHoldsRunIInv, ImplementsRunner, RunnerIInvHolds, PTL DEF RRSpec

\* What the core shows of a task or of the run is never more than the worker
\* has done, whatever is still unread or was refused (apply_in_tx and
\* rollup_run in orchestrator.rs, behind _complete of dag/runner.py).
THEOREM CoreIsNeverAheadHolds == RRSpec => []CoreIsNeverAhead
<1>1. RunIInv => CoreIsNeverAhead
  BY DEF RunIInv, CoreIsNeverAhead, RRTypeOK, RunnerIInv, CoreFits, LateFits, CancelledOnlyByUser
<1> QED
  BY <1>1, RunIInvHolds, PTL

\* At rest, core and worker tell the same of every task, but for a failure the
\* core passed on to a task the worker never started, and for a report that came
\* after the job was retired (_complete in dag/runner.py, pump_cycle in state.rs).
THEOREM RestAgreesHolds == RRSpec => []RestAgrees
<1>1. RunIInv => RestAgrees
  <2> SUFFICES ASSUME RunIInv, Quiet, ~stalled, ~cancelled, NEW t \in Tasks \ missed
               PROVE  \/ taskStatus[t] = status[t]
                      \/ taskStatus[t] = "FAILED" /\ status[t] = "PENDING"
    BY DEF RestAgrees
  <2> USE DEF RunIInv, Quiet
  <2>1. unread = <<>> /\ work[t] = Idle /\ work[t].at = "none"
    BY DEF Idle
  <2>2. status[t] # "CANCELLED" /\ status[t] \notin {"PLANNING", "RUNNING"}
    BY <2>1 DEF RunnerIInv, CancelComesFirst, AttemptFits, AtWork
  <2>3. run # "CANCELLED"
    BY DEF RunnerIInv, CancelComesFirst
  <2> QED
    BY <2>1, <2>2, <2>3, AgreeNow DEF TaskFits, RunnerIInv, TypeOK
<1> QED
  BY <1>1, RunIInvHolds, PTL

\* A run that the worker completed or cancelled ends so in the core, also when
\* the last attempts report after the run's own event; it is left running only
\* when one of them reports after the job was retired.
THEOREM RunsEndAlikeHolds == RRSpec => []RunsEndAlike
<1>1. RunIInv => RunsEndAlike
  <2> SUFFICES ASSUME RunIInv, Quiet, ~stalled
               PROVE  /\ run = "COMPLETED" =>
                            \/ runStatus = "completed"
                            \/ /\ runStatus = "needs_review"
                               /\ \E t \in Tasks : status[t] = "NEEDS_REVIEW"
                            \/ /\ runStatus = "running"
                               /\ \E t \in missed : taskStatus[t] = "RUNNING"
                      /\ run = "CANCELLED" => runStatus = "cancelled"
    BY DEF RunsEndAlike
  <2> USE DEF RunIInv, Quiet
  <2>1. unread = <<>> /\ \A t \in Tasks : work[t].at = "none"
    BY DEF Idle
  <2>2. /\ unread # <<RunEvent("run.completed")>> /\ unread # <<RunEvent("run.cancelled")>>
    BY <2>1
  <2>3. CASE run = "COMPLETED"
    <3>1. \A t \in Tasks : status[t] \in {"COMPLETED", "NEEDS_REVIEW"}
      BY <2>3 DEF RunnerIInv, EndFits
    <3>2. \A t \in Tasks \ missed : taskStatus[t] = status[t]
      BY <2>1, <2>3, <3>1, AgreeNow DEF TaskFits
    <3>3. \A t \in Tasks : taskStatus[t] = "NEEDS_REVIEW" => status[t] = "NEEDS_REVIEW"
      BY <3>1 DEF TasksNeverAhead
    <3> QED
      BY <2>2, <2>3, <3>1, <3>2, <3>3 DEF EndAgrees
  <2>4. CASE run = "CANCELLED"
    BY <2>2, <2>4 DEF EndAgrees
  <2> QED
    BY <2>3, <2>4
<1> QED
  BY <1>1, RunIInvHolds, PTL

\* What the core does in the composition is the projection: an event it reads
\* is one of apply_in_tx's steps or moves nothing, and nothing else moves it.
\* TaskOrchestrator is told of any events in any order; the worker's are some.
THEOREM ImplementsProjection == RRSpec => Core!Spec
<1>1. RRInit => Core!Init
  BY DEF RRInit
<1>2. RunIInv /\ [RRNext]_allvars => [Core!Next]_(Core!vars)
  <2> SUFFICES ASSUME RunIInv, [RRNext]_allvars PROVE Core!Next \/ UNCHANGED Core!vars
    OBVIOUS
  <2>1. CASE Project
    <3>1. Apply(unread[1]) /\ unread[1] \in Event
      BY <2>1, ReadFrame DEF Project
    <3>2. CASE unread[1].type \in TaskTypes
      <4>1. unread[1].task \in Tasks
        BY <3>1, <3>2 DEF Event, TaskTypes, RunTypes
      <4>2. Core!ApplyTaskEvent(unread[1].type, unread[1].task)
        BY <3>1, <3>2, Targets DEF Apply
      <4> QED
        BY <3>2, <4>1, <4>2 DEF TaskTypes, Core!ApplyTaskEvent, Core!Next
    <3>3. CASE unread[1].type \in RunTypes
      <4>1. Core!ApplyRunEvent(unread[1].type)
        BY <3>1, <3>3, Targets DEF Apply
      <4> QED
        BY <3>3, <4>1 DEF RunTypes, Core!ApplyRunEvent, Core!Next
    <3> QED
      BY <3>1, <3>2, <3>3 DEF Event
  <2>2. CASE Worker \/ Stall \/ Unheard \/ Retire \/ Miss \/ UNCHANGED core
    BY <2>2 DEF Worker, Stall, Unheard, Retire, Miss, core, Core!vars
  <2> QED
    BY <2>1, <2>2 DEF RRNext, allvars, core
<1> QED
  BY <1>1, <1>2, RunIInvHolds, PTL DEF RRSpec, Core!Spec

(* The theorems about the projection, of the core of the composition: the     *)
(* dependencies of a worker's plan are all 'completed-or-skipped'.            *)
Projection == INSTANCE TaskOrchestratorProofs WITH
                  SkipOk <- Deps, MaxRetries <- MaxAttempts

\* TaskOrchestratorProofs and this module speak of the same projection.
LEMMA SameProjection == Core!Spec => Projection!Spec
<1>1. Core!Init => Projection!Init
  BY DEF Core!Init, Projection!Init
<1>2. [Core!Next]_(Core!vars) => [Projection!Next]_(Projection!vars)
  BY DEF Core!Next, Projection!Next, Core!TaskStatus, Projection!TaskStatus,
         Core!RunStatus, Projection!RunStatus, Core!TerminalTask,
         Projection!TerminalTask, Core!SettledTask, Projection!SettledTask,
         Core!TerminalRun, Projection!TerminalRun, Core!TaskTransitions,
         Projection!TaskTransitions, Core!RunMayMove, Projection!RunMayMove,
         Core!Satisfied, Projection!Satisfied, Core!Startable, Projection!Startable,
         Core!Dependents, Projection!Dependents, Core!Downstream,
         Projection!Downstream, Core!AllSettled, Projection!AllSettled, Core!AnyIs,
         Projection!AnyIs, Core!RollupTarget, Projection!RollupTarget,
         Core!RollupLegal, Projection!RollupLegal, Core!RolledUp,
         Projection!RolledUp, Core!After, Projection!After, Core!MayMove,
         Projection!MayMove, Core!Move, Projection!Move, Core!Replay,
         Projection!Replay, Core!SetCheckpoint, Projection!SetCheckpoint,
         Core!ClearCheckpoint, Projection!ClearCheckpoint, Core!RecordRetry,
         Projection!RecordRetry, Core!ClearError, Projection!ClearError,
         Core!CarriedError, Projection!CarriedError, Core!TaskCreated,
         Projection!TaskCreated, Core!TaskStarted, Projection!TaskStarted,
         Core!TaskCheckpoint, Projection!TaskCheckpoint, Core!TaskCompleted,
         Projection!TaskCompleted, Core!TaskFailed, Projection!TaskFailed,
         Core!TaskSkipped, Projection!TaskSkipped, Core!TaskCancelled,
         Projection!TaskCancelled, Core!ReviewRequested, Projection!ReviewRequested,
         Core!RunEvent, Projection!RunEvent, Core!RunStarted, Projection!RunStarted,
         Core!RunPaused, Projection!RunPaused, Core!RunCancelled,
         Projection!RunCancelled, Core!RunCompleted, Projection!RunCompleted,
         Core!RunFailed, Projection!RunFailed, Core!vars, Projection!vars
<1> QED
  BY <1>1, <1>2, PTL DEF Core!Spec, Projection!Spec

\* In the core of a real run no task waits behind a failed one, none is at work
\* without its inputs, and the run's status is true of its tasks, however far
\* the core lags behind the worker (cascade_dependency_failure,
\* ensure_startable and rollup_run in orchestrator.rs).
THEOREM CoreKeepsItsPromises ==
    RRSpec => [](/\ Core!NoPendingBelowFailed
                 /\ Core!ActiveTaskHasInputs
                 /\ Core!RunAgreesWithTasks)
<1>1. Deps \subseteq Tasks \X Tasks /\ Deps \subseteq Deps /\ MaxAttempts \in Nat
  BY DagAssumption, PoolAssumption
<1>2. Projection!Spec => [](/\ Projection!NoPendingBelowFailed
                           /\ Projection!ActiveTaskHasInputs
                           /\ Projection!RunAgreesWithTasks)
  <2>1. Projection!Spec => []Projection!NoPendingBelowFailed
    BY <1>1, Projection!NoPendingBelowFailedHolds
  <2>2. Projection!Spec => []Projection!ActiveTaskHasInputs
    BY <1>1, Projection!ActiveTaskHasInputsHolds
  <2>3. Projection!Spec => []Projection!RunAgreesWithTasks
    BY <1>1, Projection!RunAgreesWithTasksHolds
  <2> QED
    BY <2>1, <2>2, <2>3, PTL
<1>3. /\ Projection!NoPendingBelowFailed => Core!NoPendingBelowFailed
      /\ Projection!ActiveTaskHasInputs => Core!ActiveTaskHasInputs
  BY DEF Core!NoPendingBelowFailed, Projection!NoPendingBelowFailed,
         Core!ActiveTaskHasInputs, Projection!ActiveTaskHasInputs, Core!Satisfied,
         Projection!Satisfied
<1>4. Projection!RunAgreesWithTasks => Core!RunAgreesWithTasks
  BY DEF Core!RunAgreesWithTasks, Projection!RunAgreesWithTasks,
         Core!ParkedRunHasReview, Projection!ParkedRunHasReview,
         Core!CancelledRunIsClosed, Projection!CancelledRunIsClosed,
         Core!ClosedTasksCloseRun, Projection!ClosedTasksCloseRun,
         Core!FailedRunHasOpenTask, Projection!FailedRunHasOpenTask, Core!AnyIs,
         Projection!AnyIs, Core!TerminalTask, Projection!TerminalTask,
         Core!TerminalRun, Projection!TerminalRun
<1> QED
  BY <1>2, <1>3, <1>4, ImplementsProjection, SameProjection, PTL

\* Whatever the worker reports, and cancels, a task that the core shows as
\* terminal stays as it is, and so does a cancelled run (the bulk writes of
\* run_event and the cascade, which never ask the transition table).
THEOREM CoreNeverReopens == RRSpec => Core!ClosedStaysClosed
<1>1. Deps \subseteq Tasks \X Tasks /\ Deps \subseteq Deps /\ MaxAttempts \in Nat
  BY DagAssumption, PoolAssumption
<1>2. Projection!Spec => Projection!ClosedStaysClosed
  BY <1>1, Projection!ClosedStaysClosedHolds
<1> DEFINE Kept == /\ \A t \in Tasks : taskStatus[t] \in Core!TerminalTask
                                        => taskStatus'[t] = taskStatus[t]
                   /\ runStatus = "cancelled" => runStatus' = "cancelled"
<1>3. [/\ \A t \in Tasks : taskStatus[t] \in Projection!TerminalTask
                           => taskStatus'[t] = taskStatus[t]
       /\ runStatus = "cancelled" => runStatus' = "cancelled"]_(Projection!vars)
      => [Kept]_(Core!vars)
  BY DEF Core!TerminalTask, Projection!TerminalTask, Core!vars, Projection!vars
<1> QED
  BY <1>2, <1>3, ImplementsProjection, SameProjection, PTL
     DEF Core!ClosedStaysClosed, Projection!ClosedStaysClosed
=============================================================================
