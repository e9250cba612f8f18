----------------------------- MODULE DagRunner -----------------------------
(***************************************************************************)
(* The worker's DAG runner (dag/runner.py) driving one run inside one job  *)
(* (jobs.py): the scheduler thread, one executor thread per attempt, and   *)
(* the HTTP thread that cancels.  One step is what a thread does between   *)
(* two points at which another thread can act: an iteration of the loop    *)
(* holds the condition throughout; an attempt discards itself from         *)
(* inflight, writes the store, appends its event and arranges its retry in *)
(* four separate steps, as _complete does.                                 *)
(*                                                                         *)
(* The events the threads append are read in order; nothing in the runner  *)
(* depends on the reader, so the reader is taken to be prompt: no thread   *)
(* steps while an event is unread.                                         *)
(*                                                                         *)
(* The readiness hook of a driven plan (orchestrator.py, _readiness) holds *)
(* back NORMALIZE tasks only, and the core's plans have none (commands.rs, *)
(* worker_runtime_type), so it does not appear.  The paths through pause,  *)
(* resume, retry_task and resolve_review have no caller in the application *)
(* and are left out.  Progress events (task.progress, also what a requeue   *)
(* becomes for the core) move no status there and are left out too.        *)
(***************************************************************************)
EXTENDS Integers, Sequences, FiniteSets, SequencesExt

CONSTANTS
    Tasks,        \* the tasks of the run
    Deps,         \* <<task, upstream>>
    ReviewTasks,  \* the tasks whose handler may ask for a review (VALIDATE)
    MaxWorkers,   \* size of the thread pool
    MaxAttempts,  \* max_attempts of every task
    Backoff       \* whether a requeue may not be due yet (backoff_seconds > 0)

ASSUME DagAssumption == Deps \subseteq Tasks \X Tasks /\ ReviewTasks \subseteq Tasks
ASSUME PlanAssumption == IsFiniteSet(Tasks)   \* a plan lists so many
ASSUME PoolAssumption == MaxWorkers \in Nat \ {0} /\ MaxAttempts \in Nat \ {0}
ASSUME BackoffAssumption == Backoff \in BOOLEAN

VARIABLES
    status,     \* the store: task -> status
    attempt,    \* the store: task -> attempts started
    run,        \* the store: the run's status
    inflight,   \* _RunControl.inflight
    requeueAt,  \* the keys of _RunControl.requeue_at
    cancelled,  \* _RunControl.cancelled
    pc,         \* where the scheduler thread is
    open,       \* _finalize: the tasks its snapshot saw open (then: still to cancel)
    anyFailed,  \* _finalize: its snapshot saw a FAILED task
    work,       \* task -> where its attempt is
    job,        \* the job's terminal status, or "none"
    unread      \* events appended and not yet read

store   == <<status, attempt, run>>
control == <<inflight, requeueAt, cancelled>>
final   == <<open, anyFailed>>
rvars   == <<status, attempt, run, inflight, requeueAt, cancelled, pc, open,
             anyFailed, work, job, unread>>

Status    == {"PENDING", "PLANNING", "RUNNING", "VALIDATING", "COMPLETED",
              "NEEDS_REVIEW", "PAUSED", "FAILED", "CANCELLED"}
RunStates == {"PENDING", "RUNNING", "COMPLETED", "FAILED", "CANCELLED"}

\* What _finalize cancels and what it counts as unfinished.
OpenStatus == {"PENDING", "PAUSED", "PLANNING", "RUNNING", "VALIDATING"}

Outcomes == {"COMPLETED", "NEEDS_REVIEW", "retryable", "final"}
Idle     == [at |-> "none", outcome |-> "none", sawCancel |-> FALSE]
Work     == [at : {"none", "queued", "handling", "returned", "stored", "failed"},
             outcome : Outcomes \cup {"none"},
             sawCancel : BOOLEAN]

TaskEvent(type, t) == [type |-> type, task |-> t]
RunEvent(type)     == [type |-> type]

TypeOK ==
    /\ status \in [Tasks -> Status]
    /\ attempt \in [Tasks -> 0 .. MaxAttempts]
    /\ run \in RunStates
    /\ inflight \subseteq Tasks /\ requeueAt \subseteq Tasks /\ open \subseteq Tasks
    /\ cancelled \in BOOLEAN /\ anyFailed \in BOOLEAN
    /\ pc \in {"idle", "loop", "finalize", "decide", "cancelling",
               "returned", "raised", "ended"}
    /\ work \in [Tasks -> Work]
    /\ job \in {"none", "RUNNING", "NEEDS_REVIEW", "COMPLETED", "FAILED", "CANCELLED"}

-----------------------------------------------------------------------------
(* dag/graph.py *)

Ready == {t \in Tasks :
            /\ status[t] = "PENDING"
            /\ \A u \in Tasks : <<t, u>> \in Deps => status[u] = "COMPLETED"}

Dependents(u) == {t \in Tasks : <<t, u>> \in Deps}

Downstream(u) ==
    {t \in Tasks : \A S \in SUBSET Tasks :
        (Dependents(u) \subseteq S /\ \A s \in S : Dependents(s) \subseteq S)
            => t \in S}

-----------------------------------------------------------------------------
(* The scheduler thread.                                                   *)

\* The first steps of run(); nothing is interrupted in a run that is new.
RunBegin ==
    /\ pc = "idle"
    /\ pc' = "loop"
    /\ run' = "RUNNING"
    /\ unread' = <<RunEvent("run.started")>>
    /\ UNCHANGED <<status, attempt, control, final, work, job>>

SeeCancel ==
    /\ pc = "loop" /\ cancelled
    /\ pc' = "finalize"
    /\ UNCHANGED <<store, control, final, work, job, unread>>

\* _submit_ready: as many ready tasks as there are free slots.
Starts ==
    {S \in SUBSET Ready :
        LET free == MaxWorkers - Cardinality(inflight)
        IN  Cardinality(S) = IF free < Cardinality(Ready)
                             THEN (IF free < 0 THEN 0 ELSE free)
                             ELSE Cardinality(Ready)}

\* Mutant: what is still inflight does not keep the loop going.
QuiescentButForHandlers(active, due) == Ready = {} /\ due = {}

\* Nothing is inflight, nothing was ready and nothing was due: the loop is left.
Quiescent(active, due) == active = {} /\ Ready = {} /\ due = {}

\* Under the condition: submit, then requeue what is due.  Requeued tasks are
\* PENDING for the next iteration to find.
Iteration ==
    /\ \E started \in Starts, due \in IF Backoff THEN SUBSET requeueAt ELSE {requeueAt} :
        /\ status' = [t \in Tasks |-> IF t \in started THEN "PLANNING"
                                      ELSE IF t \in due /\ status[t] = "FAILED"
                                           THEN "PENDING" ELSE status[t]]
        /\ attempt' = [t \in Tasks |-> IF t \in started THEN attempt[t] + 1
                                       ELSE attempt[t]]
        /\ inflight' = inflight \cup started
        /\ requeueAt' = requeueAt \ due
        /\ work' = [t \in Tasks |-> IF t \in started THEN [Idle EXCEPT !.at = "queued"]
                                    ELSE work[t]]
        /\ unread' = [i \in 1 .. Cardinality(started) |->
                        TaskEvent("task.started", SetToSeq(started)[i])]
        /\ pc' = IF Quiescent(inflight \cup started, due) THEN "finalize" ELSE "loop"
    /\ UNCHANGED <<run, cancelled, final, job>>

Iterate == pc = "loop" /\ ~cancelled /\ Iteration

\* _finalize lists the tasks first and asks for the cancel flag afterwards.
Snapshot ==
    /\ pc = "finalize"
    /\ pc' = "decide"
    /\ open' = {t \in Tasks : status[t] \in OpenStatus}
    /\ anyFailed' = \E t \in Tasks : status[t] = "FAILED"
    /\ UNCHANGED <<store, control, work, job, unread>>

DecideCancelled ==
    /\ pc = "decide" /\ cancelled
    /\ pc' = "cancelling"
    /\ UNCHANGED <<store, control, final, work, job, unread>>

\* Mutant: the run ends without an event.
EndRunSilently(to, type) ==
    /\ pc' = "returned"
    /\ run' = to
    /\ open' = {} /\ anyFailed' = FALSE
    /\ UNCHANGED <<status, attempt, control, work, job, unread>>

EndRun(to, type) ==
    /\ pc' = "returned"
    /\ run' = to
    /\ unread' = <<RunEvent(type)>>
    /\ open' = {} /\ anyFailed' = FALSE
    /\ UNCHANGED <<status, attempt, control, work, job>>

DecideFailed ==
    /\ pc = "decide" /\ ~cancelled /\ anyFailed
    /\ EndRun("FAILED", "run.failed")

\* Mutant: no failure is success.
DecideCompletedAnyway ==
    /\ pc = "decide" /\ ~cancelled /\ ~anyFailed
    /\ EndRun("COMPLETED", "run.completed")

DecideCompleted ==
    /\ pc = "decide" /\ ~cancelled /\ ~anyFailed /\ open = {}
    /\ EndRun("COMPLETED", "run.completed")

\* "keep the loop honest: not quiescent yet" -- but there is no loop left.
DecideUnfinished ==
    /\ pc = "decide" /\ ~cancelled /\ ~anyFailed /\ open # {}
    /\ pc' = "returned"
    /\ open' = {}
    /\ UNCHANGED <<store, control, anyFailed, work, job, unread>>

\* Cancelling what the snapshot saw open; a task that an executor closed in
\* the meantime makes the transition illegal, and the error ends the job.
CancelTask(t) ==
    /\ pc = "cancelling" /\ t \in open
    /\ \/ /\ status[t] \notin {"COMPLETED", "CANCELLED"}
          /\ status' = [status EXCEPT ![t] = "CANCELLED"]
          /\ open' = open \ {t}
          /\ UNCHANGED pc
       \/ /\ status[t] \in {"COMPLETED", "CANCELLED"}
          /\ pc' = "raised"
          /\ open' = {}
          /\ UNCHANGED status
    /\ UNCHANGED <<attempt, run, control, anyFailed, work, job, unread>>

AllCancelled ==
    /\ pc = "cancelling" /\ open = {}
    /\ EndRun("CANCELLED", "run.cancelled")

\* _execute_job after run(): the mapped status becomes the job's terminal
\* status, whatever it is.
JobEnds ==
    /\ pc \in {"returned", "raised"}
    /\ pc' = "ended"
    /\ job' = IF pc = "raised" THEN "FAILED"
              ELSE IF \E t \in Tasks : status[t] = "NEEDS_REVIEW" THEN "NEEDS_REVIEW"
              ELSE run
    /\ UNCHANGED <<store, control, final, work, unread>>

-----------------------------------------------------------------------------
(* The executor threads: _execute and _complete.                           *)

Moves(t, at) == work' = [work EXCEPT ![t].at = at]
Finishes(t)  == work' = [work EXCEPT ![t] = Idle]

InPool == {t \in Tasks : work[t].at \notin {"none", "queued"}}

\* A task that _finalize cancelled while it was queued cannot become RUNNING:
\* the thread dies, and inflight keeps the task.
Begin(t) ==
    /\ work[t].at = "queued"
    /\ Cardinality(InPool) < MaxWorkers
    /\ \/ /\ status[t] # "CANCELLED"
          /\ status' = [status EXCEPT ![t] = "RUNNING"]
          /\ Moves(t, "handling")
       \/ /\ status[t] = "CANCELLED"
          /\ Finishes(t)
          /\ UNCHANGED status
    /\ UNCHANGED <<attempt, run, control, pc, final, job, unread>>

\* Mutants: the attempt stays in inflight; or is requeued before it is stored.
ReturnKeepingInflight(t) ==
    /\ work[t].at = "handling"
    /\ \E outcome \in Outcomes :
        /\ outcome = "NEEDS_REVIEW" => t \in ReviewTasks
        /\ work' = [work EXCEPT ![t] = [at |-> "returned", outcome |-> outcome,
                                        sawCancel |-> cancelled]]
    /\ UNCHANGED <<store, control, pc, final, job, unread>>
ReturnRequeueing(t) ==
    /\ work[t].at = "handling"
    /\ \E outcome \in Outcomes :
        /\ outcome = "NEEDS_REVIEW" => t \in ReviewTasks
        /\ work' = [work EXCEPT ![t] = [at |-> "returned", outcome |-> outcome,
                                        sawCancel |-> cancelled]]
        /\ requeueAt' = IF outcome = "retryable" /\ attempt[t] < MaxAttempts
                        THEN requeueAt \cup {t} ELSE requeueAt
    /\ inflight' = inflight \ {t}
    /\ UNCHANGED <<store, cancelled, pc, final, job, unread>>

\* The handler has returned or raised; the attempt leaves inflight and reads
\* the cancel flag, under the condition.
Return(t) ==
    /\ work[t].at = "handling"
    /\ \E outcome \in Outcomes :
        /\ outcome = "NEEDS_REVIEW" => t \in ReviewTasks
        /\ work' = [work EXCEPT ![t] = [at |-> "returned", outcome |-> outcome,
                                        sawCancel |-> cancelled]]
    /\ inflight' = inflight \ {t}
    /\ UNCHANGED <<store, requeueAt, cancelled, pc, final, job, unread>>

\* The store transition.  When _finalize cancelled the task meanwhile, the
\* outcome is an illegal transition and the thread dies with it; an attempt
\* that saw the cancel dies only if it had read the status before.
Store(t) ==
    /\ work[t].at = "returned"
    /\ LET to == IF work[t].sawCancel THEN "CANCELLED"
                 ELSE IF work[t].outcome \in {"retryable", "final"} THEN "FAILED"
                 ELSE work[t].outcome
       IN  \/ /\ status[t] # "CANCELLED"
              /\ status' = [status EXCEPT ![t] = to]
              /\ Moves(t, "stored")
           \/ /\ status[t] = "CANCELLED"
              /\ Finishes(t)
              /\ UNCHANGED status
           \/ /\ status[t] = "CANCELLED" /\ work[t].sawCancel
              /\ Moves(t, "stored")
              /\ UNCHANGED status
    /\ UNCHANGED <<attempt, run, control, pc, final, job, unread>>

Fails(t) == ~work[t].sawCancel /\ work[t].outcome \in {"retryable", "final"}

\* Mutants: the event tells the handler's outcome, cancelled or not; or a review
\* counts as done.
EventOfOutcome(t) ==
    IF work[t].outcome \in {"retryable", "final"} THEN "task.failed"
    ELSE IF work[t].outcome = "NEEDS_REVIEW" THEN "review.requested"
    ELSE "task.completed"
EventWithoutReview(t) ==
    IF work[t].sawCancel THEN "task.cancelled"
    ELSE IF Fails(t) THEN "task.failed"
    ELSE "task.completed"

EventOf(t) ==
    IF work[t].sawCancel THEN "task.cancelled"
    ELSE IF Fails(t) THEN "task.failed"
    ELSE IF work[t].outcome = "NEEDS_REVIEW" THEN "review.requested"
    ELSE "task.completed"

\* The event, after the store has the transition.
Emit(t) ==
    /\ work[t].at = "stored"
    /\ unread' = <<TaskEvent(EventOf(t), t)>>
    /\ IF Fails(t) THEN Moves(t, "failed") ELSE Finishes(t)
    /\ UNCHANGED <<store, control, pc, final, job>>

Retries(t) == work[t].outcome = "retryable" /\ attempt[t] < MaxAttempts

\* A failed attempt is requeued if it may be ...
Requeue(t) ==
    /\ work[t].at = "failed" /\ Retries(t)
    /\ requeueAt' = requeueAt \cup {t}
    /\ Finishes(t)
    /\ UNCHANGED <<store, inflight, cancelled, pc, final, job, unread>>

\* ... and otherwise fails the PENDING tasks downstream of it.
Cascade(t) ==
    /\ work[t].at = "failed" /\ ~Retries(t)
    /\ LET hit == {x \in Downstream(t) : status[x] = "PENDING"}
       IN  /\ status' = [x \in Tasks |-> IF x \in hit THEN "FAILED" ELSE status[x]]
           /\ unread' = [i \in 1 .. Cardinality(hit) |->
                            TaskEvent("task.failed", SetToSeq(hit)[i])]
    /\ Finishes(t)
    /\ UNCHANGED <<attempt, run, control, pc, final, job>>

-----------------------------------------------------------------------------
(* The HTTP thread.                                                        *)

\* cancel_job reads the run's status and sets the flag in two steps, so the
\* flag may land in a run that has just ended; not once the job has.
Cancel ==
    /\ ~cancelled /\ pc # "ended"
    /\ cancelled' = TRUE
    /\ UNCHANGED <<store, inflight, requeueAt, pc, final, work, job, unread>>

Scheduler == \/ RunBegin \/ SeeCancel \/ Iterate \/ Snapshot \/ DecideCancelled
             \/ DecideFailed \/ DecideCompleted \/ DecideUnfinished
             \/ (\E t \in Tasks : CancelTask(t))
             \/ AllCancelled \/ JobEnds

Executor(t) == \/ Begin(t) \/ Return(t) \/ Store(t) \/ Emit(t)
               \/ Requeue(t) \/ Cascade(t)

Step == unread = <<>> /\ (Scheduler \/ (\E t \in Tasks : Executor(t)) \/ Cancel)

\* The reader of the event log.
Read ==
    /\ unread # <<>>
    /\ unread' = Tail(unread)
    /\ UNCHANGED <<store, control, pc, final, work, job>>

Init ==
    /\ status = [t \in Tasks |-> "PENDING"]
    /\ attempt = [t \in Tasks |-> 0]
    /\ run = "PENDING"
    /\ inflight = {} /\ requeueAt = {} /\ cancelled = FALSE
    /\ pc = "idle"
    /\ open = {} /\ anyFailed = FALSE
    /\ work = [t \in Tasks |-> Idle]
    /\ job = "none"
    /\ unread = <<>>

\* The job is over and its threads are done.
Terminated ==
    /\ pc = "ended" /\ unread = <<>> /\ \A t \in Tasks : work[t] = Idle
    /\ UNCHANGED rvars

Next == Step \/ Read \/ Terminated

\* The loop wakes up every 50 ms; a pool thread runs what it was given; the
\* reader polls.  Nobody is obliged to cancel.
Fairness ==
    /\ WF_rvars(unread = <<>> /\ Scheduler)
    /\ \A t \in Tasks : WF_rvars(unread = <<>> /\ Executor(t))
    /\ WF_rvars(Read)

Spec     == Init /\ [][Next]_rvars
FairSpec == Spec /\ Fairness

-----------------------------------------------------------------------------
(* Safety.                                                                 *)

\* A task the runner has started keeps its inputs: whatever is planned or
\* running found all its dependencies COMPLETED, and they still are.
StartedTaskHasInputs ==
    \A t, u \in Tasks :
        <<t, u>> \in Deps /\ status[t] \in {"PLANNING", "RUNNING"}
            => status[u] = "COMPLETED"

\* The run is not declared over while a handler of it still runs: the
\* scheduler finds inflight empty only when every handler has returned.
NoHandlerOutlivesRun ==
    run \in {"COMPLETED", "FAILED"}
        => \A t \in Tasks : work[t].at \notin {"queued", "handling"}

\* At every point between the threads' steps: what runs has its inputs, and the
\* run is not over while something runs.
RunnerInv == TypeOK /\ StartedTaskHasInputs /\ NoHandlerOutlivesRun

\* A completed run left nothing undone, however its last attempts raced with
\* the scheduler's decision: every task completed, or awaits its review.
CompletedRunIsDone ==
    run = "COMPLETED" => \A t \in Tasks : status[t] \in {"COMPLETED", "NEEDS_REVIEW"}

\* A cancelled run comes to rest closed: once its threads are done, nothing is
\* left that looks started or startable.
CancelledRunComesToRest ==
    run = "CANCELLED" /\ (\A t \in Tasks : work[t] = Idle)
        => \A t \in Tasks : status[t] \notin OpenStatus

\* The end of a run is true of its tasks, however it came to it.
EndedRunIsDone == CompletedRunIsDone /\ CancelledRunComesToRest

\* Attempts of a task never overlap, retries included: a task is requeued
\* only when the thread of its failed attempt has nothing left to write.  And
\* once cancel() has returned, no further attempt starts.
AttemptsDoNotOverlap ==
    [][\A t \in Tasks : attempt'[t] # attempt[t] => work[t] = Idle /\ ~cancelled]_rvars

\* Every job ends, however its attempts fail and whenever it is cancelled:
\* retries are bounded, the loop cannot wait for a thread that died, and the
\* pool drains.
JobTerminates == <>(pc = "ended") /\ <>[](\A t \in Tasks : work[t] = Idle)

(* What the runner's documentation says and its code does not keep.        *)

\* "Drive the DAG until it completes, is cancelled, or is paused." (run())
DrivenToTheEnd ==
    pc = "ended" => \/ run \in {"COMPLETED", "FAILED", "CANCELLED"}
                    \/ job \in {"NEEDS_REVIEW", "FAILED"}
=============================================================================
