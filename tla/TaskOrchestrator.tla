-------------------------- MODULE TaskOrchestrator --------------------------
(***************************************************************************)
(* The Rust core's projection of the worker's event stream onto SQLite:    *)
(* orchestrator.rs, one plan and the run that executes it.  One action per *)
(* event type of apply_in_tx; a step is one committed write transaction.   *)
(*                                                                         *)
(* An event the code rejects rolls its transaction back and changes        *)
(* nothing, so it is no step here; Accepts says which events those are not *)
(* and the modules that compose this one use it to model a rejection.      *)
(*                                                                         *)
(* No order is assumed on the events: the code does not assume one either, *)
(* "out-of-order events are rejected with structured errors".              *)
(***************************************************************************)
EXTENDS Integers

CONSTANTS
    Tasks,       \* the tasks of the plan
    Deps,        \* <<task, upstream>> : task_dependencies rows
    SkipOk,      \* the rows whose condition is 'completed-or-skipped'
    MaxRetries   \* bound: how many retries of a task are explored

ASSUME DepsAssumption == Deps \subseteq Tasks \X Tasks /\ SkipOk \subseteq Deps
ASSUME MaxRetriesAssumption == MaxRetries \in Nat

VARIABLES
    taskStatus,  \* tasks.status
    claimed,     \* the tasks whose run_id is the run
    checkpoint,  \* the tasks that have a stored checkpoint
    errorRef,    \* the tasks that have an error_ref
    retries,     \* tasks.retry_count
    runStatus    \* runs.status

vars == <<taskStatus, claimed, checkpoint, errorRef, retries, runStatus>>

TaskStatus == {"PENDING", "PLANNING", "RUNNING", "VALIDATING", "NEEDS_REVIEW",
               "COMPLETED", "FAILED", "PAUSED", "CANCELLED", "SKIPPED"}

RunStatus == {"running", "paused", "needs_review",
              "completed", "failed", "cancelled"}

\* FAILED is not terminal: a failed task can be retried or closed.
TerminalTask == {"COMPLETED", "CANCELLED", "SKIPPED"}
SettledTask  == TerminalTask \cup {"FAILED"}
TerminalRun  == {"completed", "failed", "cancelled"}

TypeOK ==
    /\ taskStatus \in [Tasks -> TaskStatus]
    /\ claimed \subseteq Tasks
    /\ checkpoint \subseteq Tasks
    /\ errorRef \subseteq Tasks
    /\ retries \in [Tasks -> 0 .. MaxRetries]
    /\ runStatus \in RunStatus

-----------------------------------------------------------------------------
(* The transition tables; equal statuses are a replay, handled apart.      *)

TaskTransitions ==
    ({"PENDING"}      \X {"PLANNING", "RUNNING", "FAILED", "CANCELLED", "SKIPPED"})
    \cup ({"PLANNING"}     \X {"RUNNING", "FAILED", "CANCELLED", "SKIPPED"})
    \cup ({"RUNNING"}      \X {"VALIDATING", "COMPLETED", "NEEDS_REVIEW", "PAUSED",
                               "FAILED", "CANCELLED", "SKIPPED"})
    \cup ({"VALIDATING"}   \X {"COMPLETED", "NEEDS_REVIEW", "FAILED", "CANCELLED"})
    \cup ({"NEEDS_REVIEW"} \X {"COMPLETED", "RUNNING", "CANCELLED"})
    \cup ({"PAUSED"}       \X {"RUNNING", "CANCELLED"})
    \cup ({"FAILED"}       \X {"RUNNING", "CANCELLED", "COMPLETED"})

RunMayMove(from, to) ==
    \/ from = to
    \/ from \notin TerminalRun
    \/ from = "failed" /\ to = "running"

(* Dependency gating.                                                      *)

Satisfied(t, u, status) ==
    \/ status[u] = "COMPLETED"
    \/ <<t, u>> \in SkipOk /\ status[u] = "SKIPPED"

\* Mutant: any settled upstream will do.
StartableWhenSettled(t) ==
    \A u \in Tasks : <<t, u>> \in Deps => taskStatus[u] \in SettledTask

Startable(t) ==
    \A u \in Tasks : <<t, u>> \in Deps => Satisfied(t, u, taskStatus)

Dependents(u) == {t \in Tasks : <<t, u>> \in Deps}

\* Everything downstream of u, directly or not: the least set that holds the
\* direct dependents of u and is closed under dependents.
Downstream(u) ==
    {t \in Tasks : \A S \in SUBSET Tasks :
        (Dependents(u) \subseteq S /\ \A s \in S : Dependents(s) \subseteq S)
            => t \in S}

-----------------------------------------------------------------------------
(* The run rollup over the claimed tasks, as they will stand after the     *)
(* event.  A rollup whose target the run may not move to rejects the event.*)

AllSettled(status) == \A t \in claimed : status[t] \in SettledTask

AnyIs(status, s) == \E t \in claimed : status[t] = s

RollupTarget(status) ==
    IF AnyIs(status, "NEEDS_REVIEW") THEN "needs_review"
    ELSE IF ~AllSettled(status)      THEN "in flight"
    ELSE IF AnyIs(status, "FAILED")  THEN "failed"
    ELSE IF AnyIs(status, "CANCELLED") THEN "cancelled"
    ELSE "completed"

RollupLegal(status) ==
    \/ claimed = {}
    \/ RollupTarget(status) = "in flight"
    \/ RunMayMove(runStatus, RollupTarget(status))

\* Mutants: the in-flight answer is stored as it is; or the run is left alone.
RolledUpVerbatim(status) == IF claimed = {} THEN runStatus ELSE RollupTarget(status)
RolledUpWhenSettled(status) ==
    IF claimed = {} \/ RollupTarget(status) = "in flight" THEN runStatus
    ELSE RollupTarget(status)

\* An in-flight run reads running, unless it is paused; no legality check.
RolledUp(status) ==
    IF claimed = {} THEN runStatus
    ELSE IF RollupTarget(status) # "in flight" THEN RollupTarget(status)
    ELSE IF runStatus = "paused" THEN "paused" ELSE "running"

-----------------------------------------------------------------------------
(* transition_task with its cascade: a failing task takes every PENDING    *)
(* task downstream of it to FAILED.                                        *)

\* Mutants: the cascade stops at the direct dependents; or asks for no status.
AfterShallow(t, s) ==
    [x \in Tasks |->
        IF x = t THEN s
        ELSE IF s = "FAILED" /\ taskStatus[x] = "PENDING" /\ x \in Dependents(t)
             THEN "FAILED"
             ELSE taskStatus[x]]
AfterCareless(t, s) ==
    [x \in Tasks |->
        IF x = t \/ (s = "FAILED" /\ x \in Downstream(t)) THEN s ELSE taskStatus[x]]

After(t, s) ==
    [x \in Tasks |->
        IF x = t THEN s
        ELSE IF s = "FAILED" /\ taskStatus[x] = "PENDING" /\ x \in Downstream(t)
             THEN "FAILED"
             ELSE taskStatus[x]]

MayMove(t, s) ==
    /\ <<taskStatus[t], s>> \in TaskTransitions
    /\ RollupLegal(After(t, s))

Move(t, s) ==
    /\ MayMove(t, s)
    /\ taskStatus' = After(t, s)
    /\ runStatus' = RolledUp(After(t, s))
    /\ UNCHANGED claimed

\* The event repeats the status the task has: success, nothing written.
Replay(t, s) == taskStatus[t] = s /\ UNCHANGED vars

-----------------------------------------------------------------------------
(* What the events write beside the status.                                *)

SetCheckpoint(t)   == checkpoint' = checkpoint \cup {t}
ClearCheckpoint(t) == checkpoint' = checkpoint \ {t}
RecordRetry(t)     == retries' = [retries EXCEPT ![t] = @ + 1]
ClearError(t)      == errorRef' = errorRef \ {t}

\* A failure's event carries an error, or it does not.
CarriedError(t) == {{}, {t}}

-----------------------------------------------------------------------------
(* The task events.                                                        *)

\* Nothing but a PENDING task can "become" PENDING.
TaskCreated(t) == Replay(t, "PENDING")

\* The dependency gate stands before the replay test.  FAILED -> RUNNING is a
\* retry: counted, and the stale error is dropped.
TaskStarted(t) ==
    /\ Startable(t)
    /\ \/ Replay(t, "RUNNING")
       \/ /\ taskStatus[t] # "FAILED"
          /\ Move(t, "RUNNING")
          /\ UNCHANGED <<checkpoint, errorRef, retries>>
       \/ /\ taskStatus[t] = "FAILED"
          /\ retries[t] < MaxRetries
          /\ Move(t, "RUNNING")
          /\ RecordRetry(t)
          /\ ClearError(t)
          /\ UNCHANGED checkpoint

\* task.progress and task.checkpoint: any status, no transition, no rollup.
TaskCheckpoint(t) ==
    /\ SetCheckpoint(t)
    /\ UNCHANGED <<taskStatus, claimed, errorRef, retries, runStatus>>

\* task.completed and review.resolved.
TaskCompleted(t) ==
    \/ Replay(t, "COMPLETED")
    \/ /\ Move(t, "COMPLETED")
       /\ ClearCheckpoint(t)
       /\ UNCHANGED <<errorRef, retries>>

\* The cascade always stores an error.
TaskFailed(t) ==
    \/ Replay(t, "FAILED")
    \/ /\ Move(t, "FAILED")
       /\ \E carried \in CarriedError(t) :
            errorRef' = errorRef \cup carried
                        \cup {x \in Tasks \ {t} : taskStatus'[x] # taskStatus[x]}
       /\ UNCHANGED <<checkpoint, retries>>

TaskSkipped(t) ==
    \/ Replay(t, "SKIPPED")
    \/ /\ Move(t, "SKIPPED")
       /\ UNCHANGED <<checkpoint, errorRef, retries>>

\* task.cancelled, and task.skipped with outcome=cancelled.
TaskCancelled(t) ==
    \/ Replay(t, "CANCELLED")
    \/ /\ Move(t, "CANCELLED")
       /\ UNCHANGED <<checkpoint, errorRef, retries>>

ReviewRequested(t) ==
    \/ Replay(t, "NEEDS_REVIEW")
    \/ /\ Move(t, "NEEDS_REVIEW")
       /\ UNCHANGED <<checkpoint, errorRef, retries>>

-----------------------------------------------------------------------------
(* The run events: they write the run status and then its tasks, in bulk,  *)
(* without asking the task table.                                          *)

RunEvent(to, status) ==
    /\ RunMayMove(runStatus, to)
    /\ runStatus' = to
    /\ taskStatus' = status
    /\ UNCHANGED <<checkpoint, errorRef, retries>>

\* Claims the PENDING tasks nobody has, then resumes the run's paused ones.
RunStarted ==
    /\ claimed' = claimed \cup {t \in Tasks : taskStatus[t] = "PENDING"}
    /\ RunEvent("running",
                [t \in Tasks |-> IF t \in claimed /\ taskStatus[t] = "PAUSED"
                                 THEN "RUNNING" ELSE taskStatus[t]])

RunPaused ==
    /\ RunEvent("paused",
                [t \in Tasks |-> IF t \in claimed /\ taskStatus[t] = "RUNNING"
                                 THEN "PAUSED" ELSE taskStatus[t]])
    /\ UNCHANGED claimed

RunCancelled ==
    /\ RunEvent("cancelled",
                [t \in Tasks |-> IF t \in claimed /\ taskStatus[t] \notin TerminalTask
                                 THEN "CANCELLED" ELSE taskStatus[t]])
    /\ UNCHANGED claimed

RunCompleted == RunEvent("completed", taskStatus) /\ UNCHANGED claimed

RunFailed == RunEvent("failed", taskStatus) /\ UNCHANGED claimed

-----------------------------------------------------------------------------
(* Dispatch on the event: apply_in_tx.  A task event is [type, task], a    *)
(* run event [type].  Other types carry no projection.                     *)

ApplyTaskEvent(type, t) ==
    CASE type = "task.created"     -> TaskCreated(t)
      [] type = "task.started"     -> TaskStarted(t)
      [] type = "task.checkpoint"  -> TaskCheckpoint(t)
      [] type = "task.completed"   -> TaskCompleted(t)
      [] type = "review.resolved"  -> TaskCompleted(t)
      [] type = "task.failed"      -> TaskFailed(t)
      [] type = "task.skipped"     -> TaskSkipped(t)
      [] type = "task.cancelled"   -> TaskCancelled(t)
      [] type = "review.requested" -> ReviewRequested(t)
      [] OTHER                     -> UNCHANGED vars

ApplyRunEvent(type) ==
    CASE type = "run.started"   -> RunStarted
      [] type = "run.paused"    -> RunPaused
      [] type = "run.completed" -> RunCompleted
      [] type = "run.failed"    -> RunFailed
      [] type = "run.cancelled" -> RunCancelled
      [] OTHER                  -> UNCHANGED vars

TaskTarget == [type \in {"task.created", "task.started", "task.completed",
                         "review.resolved", "task.failed", "task.skipped",
                         "task.cancelled", "review.requested"} |->
    CASE type = "task.created"     -> "PENDING"
      [] type = "task.started"     -> "RUNNING"
      [] type \in {"task.completed", "review.resolved"} -> "COMPLETED"
      [] type = "task.failed"      -> "FAILED"
      [] type = "task.skipped"     -> "SKIPPED"
      [] type = "task.cancelled"   -> "CANCELLED"
      [] type = "review.requested" -> "NEEDS_REVIEW"]

RunTarget == [type \in {"run.started", "run.paused", "run.completed",
                        "run.failed", "run.cancelled"} |->
    CASE type = "run.started"   -> "running"
      [] type = "run.paused"    -> "paused"
      [] type = "run.completed" -> "completed"
      [] type = "run.failed"    -> "failed"
      [] type = "run.cancelled" -> "cancelled"]

AcceptsTaskEvent(type, t) ==
    type \in DOMAIN TaskTarget =>
        /\ type = "task.started" => Startable(t)
        /\ taskStatus[t] = TaskTarget[type] \/ MayMove(t, TaskTarget[type])

AcceptsRunEvent(type) ==
    type \in DOMAIN RunTarget => RunMayMove(runStatus, RunTarget[type])

-----------------------------------------------------------------------------

\* The run row is inserted running; its tasks are unclaimed and PENDING
\* (run_start refuses a plan of which that is not so).
Init ==
    /\ taskStatus = [t \in Tasks |-> "PENDING"]
    /\ claimed = {}
    /\ checkpoint = {}
    /\ errorRef = {}
    /\ retries = [t \in Tasks |-> 0]
    /\ runStatus = "running"

Next ==
    \/ \E t \in Tasks :
        \/ TaskCreated(t) \/ TaskStarted(t) \/ TaskCheckpoint(t)
        \/ TaskCompleted(t) \/ TaskFailed(t) \/ TaskSkipped(t)
        \/ TaskCancelled(t) \/ ReviewRequested(t)
    \/ RunStarted \/ RunPaused \/ RunCompleted \/ RunFailed \/ RunCancelled

Spec == Init /\ [][Next]_vars

-----------------------------------------------------------------------------
(* Safety.                                                                 *)

\* No task waits behind a failed one: when a task fails, everything PENDING
\* downstream of it fails with it, so no dependent is left PENDING for an
\* upstream that may never complete (cascade_dependency_failure).
NoPendingBelowFailed ==
    \A t, u \in Tasks :
        <<t, u>> \in Deps /\ taskStatus[u] = "FAILED" => taskStatus[t] # "PENDING"

\* A task that is at work, paused or under review has all its inputs: no
\* order of events takes a task past ensure_startable, and what it read as
\* satisfied stays satisfied while the task is active.
ActiveTaskHasInputs ==
    \A t, u \in Tasks :
        /\ <<t, u>> \in Deps
        /\ taskStatus[t] \in {"RUNNING", "VALIDATING", "PAUSED", "NEEDS_REVIEW"}
        => Satisfied(t, u, taskStatus)

\* A run that reads needs_review has a task to review: resolving, restarting
\* or cancelling the last one always takes the run out of needs_review.
ParkedRunHasReview ==
    runStatus = "needs_review" => AnyIs(taskStatus, "NEEDS_REVIEW")

\* A cancelled run has no open task left, whichever of run.cancelled and the
\* rollup of the last task closed it, and whatever arrives afterwards.
CancelledRunIsClosed ==
    runStatus = "cancelled" => \A t \in claimed : taskStatus[t] \in TerminalTask

\* A run whose tasks are all terminal is itself terminal: no run is left
\* active (and blocks the next run of its plan) with nothing to wait for.
ClosedTasksCloseRun ==
    /\ claimed # {}
    /\ \A t \in claimed : taskStatus[t] \in TerminalTask
    => runStatus \in TerminalRun

\* A failed run keeps something to retry: some task of it is not terminal
\* (the rollup rejects the event that would close the last one), so a run
\* that run.started reopens always has work left.
FailedRunHasOpenTask ==
    runStatus = "failed" /\ claimed # {}
        => \E t \in claimed : taskStatus[t] \notin TerminalTask

\* What a run says of itself is so, of every one of its tasks: the four have to
\* hold together, as each keeps the others true (rollup_run, run_event).
RunAgreesWithTasks ==
    /\ ParkedRunHasReview
    /\ CancelledRunIsClosed
    /\ ClosedTasksCloseRun
    /\ FailedRunHasOpenTask

\* The error of a failed attempt does not outlive it: only a failed task, or
\* one closed after it failed, shows an error_ref; a retried one does not.
ErrorOnlyAfterFailure ==
    \A t \in errorRef : taskStatus[t] \in {"FAILED", "COMPLETED", "CANCELLED"}

\* Terminal is terminal, for the bulk writes of run events and the cascade
\* too, which never ask the transition table; and a cancelled run stays so.
ClosedStaysClosed ==
    [][/\ \A t \in Tasks : taskStatus[t] \in TerminalTask
                            => taskStatus'[t] = taskStatus[t]
       /\ runStatus = "cancelled" => runStatus' = "cancelled"]_vars

\* A stored checkpoint survives failure, retry, pause, review and
\* cancellation: only the step that completes its task drops it.
CheckpointKeptUntilDone ==
    [][\A t \in checkpoint \ checkpoint' :
            taskStatus[t] # "COMPLETED" /\ taskStatus'[t] = "COMPLETED"]_vars
=============================================================================
