----------------------- MODULE TaskOrchestratorProofs -----------------------
(***************************************************************************)
(* Machine-checked proofs about TaskOrchestrator, for every plan: any set  *)
(* of tasks, any dependency relation on it, any mix of conditions.         *)
(*                                                                         *)
(* Every step is one of three kinds (StepKinds): it leaves the statuses    *)
(* alone, it moves one task (with the cascade and the rollup), or it is a  *)
(* run event.  Each invariant is proved along these kinds.                 *)
(***************************************************************************)
EXTENDS TaskOrchestrator, TLAPS

-----------------------------------------------------------------------------
(* The operators the model is built from.                                  *)

\* The cascade reaches the direct dependents of the failed task.
LEMMA DownstreamHasDependents ==
    ASSUME NEW u \in Tasks
    PROVE  Dependents(u) \subseteq Downstream(u)
BY DEF Dependents, Downstream

\* The cascade does not stop half way: what it reaches, it passes.
LEMMA DownstreamIsClosed ==
    ASSUME NEW u \in Tasks, NEW x \in Downstream(u)
    PROVE  Dependents(x) \subseteq Downstream(u)
<1> SUFFICES ASSUME NEW y \in Dependents(x),
                    NEW S \in SUBSET Tasks,
                    Dependents(u) \subseteq S,
                    \A s \in S : Dependents(s) \subseteq S
             PROVE  y \in S
  BY DEF Downstream, Dependents
<1>1. x \in S
  BY DEF Downstream
<1> QED
  BY <1>1

\* A rollup yields a run status, or "in flight".
LEMMA RollupTargetType ==
    ASSUME NEW status
    PROVE  RollupTarget(status) \in RunStatus \cup {"in flight"}
BY DEF RollupTarget, RunStatus

\* A task moves only out of a status that is not terminal.
LEMMA MovesLeaveOpenStatuses ==
    ASSUME NEW t \in Tasks, NEW s, <<taskStatus[t], s>> \in TaskTransitions
    PROVE  /\ taskStatus[t] \notin TerminalTask
           /\ s \in TaskStatus \ {"PENDING"}
           /\ taskStatus[t] # s
BY DEF TaskTransitions, TerminalTask, TaskStatus

\* What a move does to the status of each task.
LEMMA AfterValues ==
    ASSUME TypeOK, NEW t \in Tasks, NEW s \in TaskStatus, NEW x \in Tasks
    PROVE  /\ After(t, s) \in [Tasks -> TaskStatus]
           /\ x = t => After(t, s)[x] = s
           /\ x # t => \/ After(t, s)[x] = taskStatus[x]
                       \/ /\ taskStatus[x] = "PENDING"
                          /\ s = "FAILED"
                          /\ x \in Downstream(t)
                          /\ After(t, s)[x] = "FAILED"
           /\ x # t /\ s = "FAILED" /\ x \in Downstream(t)
                => After(t, s)[x] # "PENDING"
BY DEF After, TypeOK, TaskStatus

-----------------------------------------------------------------------------
(* The kinds of steps.                                                     *)

RunStep == RunStarted \/ RunPaused \/ RunCancelled \/ RunCompleted \/ RunFailed

\* A step that moves a task; one that moves it to RUNNING passed the gate.
MoveStep(t, s) == Move(t, s) /\ (s = "RUNNING" => Startable(t))

\* What a step of the projection may be.
LEMMA StepKinds ==
    ASSUME [Next]_vars
    PROVE  \/ UNCHANGED <<taskStatus, claimed, runStatus>>
           \/ \E t \in Tasks, s \in TaskStatus : MoveStep(t, s)
           \/ RunStep
<1>1. ASSUME NEW t \in Tasks,
             \/ TaskCreated(t) \/ TaskStarted(t) \/ TaskCheckpoint(t)
             \/ TaskCompleted(t) \/ TaskFailed(t) \/ TaskSkipped(t)
             \/ TaskCancelled(t) \/ ReviewRequested(t)
      PROVE  \/ UNCHANGED <<taskStatus, claimed, runStatus>>
             \/ \E s \in TaskStatus : MoveStep(t, s)
  <2>1. CASE TaskCreated(t)
    BY <2>1 DEF TaskCreated, Replay, vars
  <2>2. CASE TaskStarted(t)
    BY <2>2 DEF TaskStarted, RecordRetry, ClearError, Replay, vars, MoveStep, TaskStatus
  <2>3. CASE TaskCheckpoint(t)
    BY <2>3 DEF TaskCheckpoint, SetCheckpoint
  <2>4. CASE TaskCompleted(t)
    BY <2>4 DEF TaskCompleted, ClearCheckpoint, Replay, vars, MoveStep, TaskStatus
  <2>5. CASE TaskFailed(t)
    BY <2>5 DEF TaskFailed, CarriedError, Replay, vars, MoveStep, TaskStatus
  <2>6. CASE TaskSkipped(t)
    BY <2>6 DEF TaskSkipped, Replay, vars, MoveStep, TaskStatus
  <2>7. CASE TaskCancelled(t)
    BY <2>7 DEF TaskCancelled, Replay, vars, MoveStep, TaskStatus
  <2>8. CASE ReviewRequested(t)
    BY <2>8 DEF ReviewRequested, Replay, vars, MoveStep, TaskStatus
  <2> QED
    BY <1>1, <2>1, <2>2, <2>3, <2>4, <2>5, <2>6, <2>7, <2>8
<1>2. CASE UNCHANGED vars
  BY <1>2 DEF vars
<1> QED
  BY <1>1, <1>2 DEF Next, RunStep

-----------------------------------------------------------------------------
(* Type correctness.                                                       *)

\* Every reachable state is a well-typed database: statuses of the schema's
\* CHECK constraints, references of the plan's own tasks, bounded retries.
THEOREM TypeCorrect == Spec => []TypeOK
<1>1. Init => TypeOK
  BY MaxRetriesAssumption DEF Init, TypeOK, TaskStatus, RunStatus
<1>2. TypeOK /\ [Next]_vars => TypeOK'
  <2> SUFFICES ASSUME TypeOK, [Next]_vars PROVE TypeOK'
    OBVIOUS
  <2>1. taskStatus' \in [Tasks -> TaskStatus] /\ claimed' \subseteq Tasks
                                              /\ runStatus' \in RunStatus
    <3>1. CASE UNCHANGED <<taskStatus, claimed, runStatus>>
      BY <3>1 DEF TypeOK
    <3>2. ASSUME NEW t \in Tasks, NEW s \in TaskStatus, MoveStep(t, s)
          PROVE  taskStatus' \in [Tasks -> TaskStatus] /\ claimed' \subseteq Tasks
                                                       /\ runStatus' \in RunStatus
      <4>1. RolledUp(After(t, s)) \in RunStatus
        BY RollupTargetType DEF RolledUp, TypeOK, RunStatus
      <4> QED
        BY <3>2, <4>1, AfterValues DEF MoveStep, Move, TypeOK
    <3>3. CASE RunStep
      BY <3>3 DEF RunStep, RunStarted, RunPaused, RunCancelled, RunCompleted,
                  RunFailed, RunEvent, TypeOK, TaskStatus, RunStatus
    <3> QED
      BY <3>1, <3>2, <3>3, StepKinds
  <2>2. checkpoint' \subseteq Tasks /\ errorRef' \subseteq Tasks
    BY DEF Next, vars, TypeOK, TaskCreated, TaskStarted, RecordRetry, ClearError,
           TaskCheckpoint, SetCheckpoint,
           TaskCompleted, ClearCheckpoint, TaskFailed, CarriedError, TaskSkipped,
           TaskCancelled,
           ReviewRequested, Replay, RunStarted, RunPaused, RunCancelled,
           RunCompleted, RunFailed, RunEvent
  <2>3. retries' \in [Tasks -> 0 .. MaxRetries]
    <3>1. ASSUME NEW t \in Tasks, retries[t] < MaxRetries,
                 retries' = [retries EXCEPT ![t] = @ + 1]
          PROVE  retries' \in [Tasks -> 0 .. MaxRetries]
      BY <3>1, MaxRetriesAssumption DEF TypeOK
    <3>2. CASE UNCHANGED retries
      BY <3>2 DEF TypeOK
    <3> QED
      BY <3>1, <3>2 DEF Next, vars, TaskCreated, TaskStarted, RecordRetry,
                        ClearError, TaskCheckpoint, SetCheckpoint,
             TaskCompleted, ClearCheckpoint, TaskFailed, CarriedError, TaskSkipped,
             TaskCancelled,
             ReviewRequested, Replay, RunStarted, RunPaused, RunCancelled,
             RunCompleted, RunFailed, RunEvent
  <2> QED
    BY <2>1, <2>2, <2>3 DEF TypeOK
<1> QED
  BY <1>1, <1>2, PTL DEF Spec

-----------------------------------------------------------------------------
(* Nothing leaves a terminal status.                                       *)

\* No step moves a terminal task.
LEMMA TerminalTaskKept ==
    ASSUME TypeOK, [Next]_vars, NEW t \in Tasks, taskStatus[t] \in TerminalTask
    PROVE  taskStatus'[t] = taskStatus[t]
<1>1. CASE UNCHANGED <<taskStatus, claimed, runStatus>>
  BY <1>1
<1>2. ASSUME NEW x \in Tasks, NEW s \in TaskStatus, MoveStep(x, s)
      PROVE  taskStatus'[t] = taskStatus[t]
  <2>1. t # x
    BY <1>2, MovesLeaveOpenStatuses DEF MoveStep, Move, MayMove
  <2> QED
    BY <1>2, <2>1, AfterValues DEF MoveStep, Move, TerminalTask
<1>3. CASE RunStep
  BY <1>3 DEF RunStep, RunStarted, RunPaused, RunCancelled, RunCompleted,
              RunFailed, RunEvent, TerminalTask
<1> QED
  BY <1>1, <1>2, <1>3, StepKinds

\* The rollup may not take a cancelled run anywhere else.
LEMMA CancelledRunKept ==
    ASSUME TypeOK, CancelledRunIsClosed, [Next]_vars, runStatus = "cancelled"
    PROVE  runStatus' = "cancelled"
<1>1. CASE UNCHANGED <<taskStatus, claimed, runStatus>>
  BY <1>1
<1>2. ASSUME NEW t \in Tasks, NEW s \in TaskStatus, MoveStep(t, s)
      PROVE  runStatus' = "cancelled"
  <2> DEFINE status == After(t, s)
  <2>1. CASE claimed = {}
    BY <1>2, <2>1 DEF MoveStep, Move, RolledUp
  <2>2. CASE claimed # {}
    <3>1. \A x \in claimed : status[x] \in TerminalTask
      BY <1>2, MovesLeaveOpenStatuses, AfterValues
         DEF MoveStep, Move, MayMove, CancelledRunIsClosed, TypeOK, TerminalTask
    <3>2. RollupTarget(status) # "in flight"
      BY <3>1 DEF RollupTarget, AllSettled, SettledTask
    <3>3. RunMayMove("cancelled", RollupTarget(status))
      BY <1>2, <2>2, <3>2 DEF MoveStep, Move, MayMove, RollupLegal
    <3>4. RollupTarget(status) = "cancelled"
      BY <3>3 DEF RunMayMove, TerminalRun
    <3> QED
      BY <1>2, <2>2, <3>4 DEF MoveStep, Move, RolledUp
  <2> QED
    BY <2>1, <2>2
<1>3. CASE RunStep
  BY <1>3 DEF RunStep, RunStarted, RunPaused, RunCancelled, RunCompleted,
              RunFailed, RunEvent, RunMayMove, TerminalRun
<1> QED
  BY <1>1, <1>2, <1>3, StepKinds

-----------------------------------------------------------------------------
(* The dependency graph.                                                   *)

\* No task is left PENDING behind a failed one, whatever the plan's graph.
\* Inductive as it stands: a move to FAILED takes everything PENDING below
\* it along, and no step makes a task PENDING.
THEOREM NoPendingBelowFailedHolds == Spec => []NoPendingBelowFailed
<1>1. Init => NoPendingBelowFailed
  BY DEF Init, NoPendingBelowFailed
<1>2. TypeOK /\ NoPendingBelowFailed /\ [Next]_vars => NoPendingBelowFailed'
  <2> SUFFICES ASSUME TypeOK, NoPendingBelowFailed, [Next]_vars,
                      NEW t \in Tasks, NEW u \in Tasks,
                      <<t, u>> \in Deps, taskStatus'[u] = "FAILED"
               PROVE  taskStatus'[t] # "PENDING"
    BY DEF NoPendingBelowFailed
  <2>1. CASE UNCHANGED <<taskStatus, claimed, runStatus>>
    BY <2>1 DEF NoPendingBelowFailed
  <2>2. ASSUME NEW x \in Tasks, NEW s \in TaskStatus, MoveStep(x, s)
        PROVE  taskStatus'[t] # "PENDING"
    <3>1. taskStatus' = After(x, s) /\ s # "PENDING"
      BY <2>2, MovesLeaveOpenStatuses DEF MoveStep, Move, MayMove
    <3>2. CASE t = x
      BY <3>1, <3>2, AfterValues
    <3>3. CASE t # x /\ u = x
      <4>1. s = "FAILED" /\ t \in Downstream(x)
        BY <3>1, <3>3, AfterValues, DownstreamHasDependents DEF Dependents
      <4> QED
        BY <3>1, <3>3, <4>1, AfterValues
    <3>4. CASE t # x /\ u # x /\ taskStatus[u] = "FAILED"
      <4>1. taskStatus[t] # "PENDING"
        BY <3>4 DEF NoPendingBelowFailed
      <4>2. taskStatus'[t] \in {taskStatus[t], "FAILED"}
        BY <3>1, <3>4, AfterValues
      <4> QED
        BY <4>1, <4>2
    <3>5. CASE t # x /\ u # x /\ taskStatus[u] # "FAILED"
      <4>1. s = "FAILED" /\ u \in Downstream(x)
        BY <3>1, <3>5, AfterValues
      <4>2. t \in Downstream(x)
        BY <4>1, DownstreamIsClosed DEF Dependents
      <4> QED
        BY <3>1, <3>5, <4>1, <4>2, AfterValues
    <3> QED
      BY <3>2, <3>3, <3>4, <3>5
  <2>3. CASE RunStep
    BY <2>3 DEF RunStep, RunStarted, RunPaused, RunCancelled, RunCompleted,
                RunFailed, RunEvent, NoPendingBelowFailed, TypeOK
  <2> QED
    BY <2>1, <2>2, <2>3, StepKinds
<1> QED
  BY <1>1, <1>2, TypeCorrect, PTL DEF Spec

\* A task at work has all its inputs, whatever the order of events.  What a
\* started task found satisfied is terminal, and nothing terminal moves.
THEOREM ActiveTaskHasInputsHolds == Spec => []ActiveTaskHasInputs
<1>1. Init => ActiveTaskHasInputs
  BY DEF Init, ActiveTaskHasInputs
<1>2. TypeOK /\ ActiveTaskHasInputs /\ [Next]_vars => ActiveTaskHasInputs'
  <2> DEFINE Active == {"RUNNING", "VALIDATING", "PAUSED", "NEEDS_REVIEW"}
  <2> SUFFICES ASSUME TypeOK, ActiveTaskHasInputs, [Next]_vars,
                      NEW t \in Tasks, NEW u \in Tasks,
                      <<t, u>> \in Deps, taskStatus'[t] \in Active
               PROVE  Satisfied(t, u, taskStatus')
    BY DEF ActiveTaskHasInputs, Satisfied
  <2>1. Satisfied(t, u, taskStatus) => Satisfied(t, u, taskStatus')
    BY TerminalTaskKept DEF Satisfied, TerminalTask
  <2>2. taskStatus[t] \in Active => Satisfied(t, u, taskStatus)
    BY DEF ActiveTaskHasInputs
  <2>3. CASE UNCHANGED <<taskStatus, claimed, runStatus>>
    BY <2>1, <2>2, <2>3
  <2>4. ASSUME NEW x \in Tasks, NEW s \in TaskStatus, MoveStep(x, s)
        PROVE  Satisfied(t, u, taskStatus)
    <3>1. CASE t # x
      <4>1. taskStatus'[t] \in {taskStatus[t], "FAILED"}
        BY <2>4, <3>1, AfterValues DEF MoveStep, Move
      <4> QED
        BY <2>2, <4>1
    <3>2. CASE t = x /\ s = "RUNNING"
      BY <2>4, <3>2 DEF MoveStep, Startable
    <3>3. CASE t = x /\ s # "RUNNING"
      <4>1. s \in Active /\ <<taskStatus[t], s>> \in TaskTransitions
        BY <2>4, <3>3, AfterValues DEF MoveStep, Move, MayMove
      <4>2. taskStatus[t] \in Active
        BY <3>3, <4>1 DEF TaskTransitions
      <4> QED
        BY <2>2, <4>2
    <3> QED
      BY <3>1, <3>2, <3>3
  <2>5. CASE RunStep
    <3>1. taskStatus[t] \in Active
      BY <2>5 DEF RunStep, RunStarted, RunPaused, RunCancelled, RunCompleted,
                  RunFailed, RunEvent, TypeOK
    <3> QED
      BY <2>1, <2>2, <3>1
  <2> QED
    BY <2>1, <2>3, <2>4, <2>5, StepKinds
<1> QED
  BY <1>1, <1>2, TypeCorrect, PTL DEF Spec

-----------------------------------------------------------------------------
(* The run against its tasks.                                              *)

\* What the status a rollup gives says about the tasks it was taken from.
LEMMA RollupSays ==
    ASSUME claimed # {}, NEW status
    PROVE  /\ RolledUp(status) = "needs_review"
                => \E t \in claimed : status[t] = "NEEDS_REVIEW"
           /\ RolledUp(status) = "cancelled"
                => \A t \in claimed : status[t] \in TerminalTask
           /\ RolledUp(status) = "failed"
                => \E t \in claimed : status[t] \notin TerminalTask
           /\ (\A t \in claimed : status[t] \in TerminalTask)
                => RolledUp(status) \in TerminalRun
BY DEF RolledUp, RollupTarget, AnyIs, AllSettled, SettledTask, TerminalTask,
       TerminalRun

\* The run status and the tasks agree in four ways at once: a parked run has
\* a review, a cancelled run is closed, closed tasks close their run, and a
\* failed run has work left.  The last two need each other: run.started may
\* reopen a failed run, and only because it has an open task is the reopened
\* run not one that nothing will ever close.
THEOREM RunAgreesWithTasksHolds == Spec => []RunAgreesWithTasks
<1> USE DEF RunAgreesWithTasks
<1>1. Init => RunAgreesWithTasks
  BY DEF Init, ParkedRunHasReview, CancelledRunIsClosed, ClosedTasksCloseRun,
         FailedRunHasOpenTask
<1>2. TypeOK /\ RunAgreesWithTasks /\ [Next]_vars => RunAgreesWithTasks'
  <2> SUFFICES ASSUME TypeOK, RunAgreesWithTasks, [Next]_vars
               PROVE  RunAgreesWithTasks'
    OBVIOUS
  <2>1. CASE UNCHANGED <<taskStatus, claimed, runStatus>>
    BY <2>1 DEF ParkedRunHasReview, CancelledRunIsClosed, ClosedTasksCloseRun,
                FailedRunHasOpenTask, AnyIs
  <2>2. ASSUME NEW t \in Tasks, NEW s \in TaskStatus, MoveStep(t, s)
        PROVE  RunAgreesWithTasks'
    <3>1. claimed' = claimed /\ runStatus' = RolledUp(taskStatus')
      BY <2>2 DEF MoveStep, Move
    <3>2. CASE claimed = {}
      <4>1. runStatus' = runStatus
        BY <3>1, <3>2 DEF RolledUp
      <4> QED
        BY <3>1, <3>2, <4>1 DEF ParkedRunHasReview, CancelledRunIsClosed,
              ClosedTasksCloseRun, FailedRunHasOpenTask, AnyIs
    <3>3. CASE claimed # {}
      BY <3>1, <3>3, RollupSays DEF ParkedRunHasReview, CancelledRunIsClosed,
              ClosedTasksCloseRun, FailedRunHasOpenTask, AnyIs
    <3> QED
      BY <3>2, <3>3
  <2>3. CASE RunStarted
    <3>1. runStatus' = "running" /\ claimed \subseteq claimed'
      BY <2>3 DEF RunStarted, RunEvent
    <3>2. ClosedTasksCloseRun'
      <4> SUFFICES ASSUME claimed' # {},
                          \A t \in claimed' : taskStatus'[t] \in TerminalTask
                   PROVE  FALSE
        BY DEF ClosedTasksCloseRun
      <4>1. \A t \in claimed' : taskStatus[t] \in TerminalTask
        BY <2>3 DEF RunStarted, RunEvent, TerminalTask, TypeOK
      <4>2. claimed' = claimed
        BY <2>3, <4>1 DEF RunStarted, TerminalTask
      <4>3. runStatus \in TerminalRun /\ runStatus # "failed"
        BY <4>1, <4>2 DEF ClosedTasksCloseRun, FailedRunHasOpenTask
      <4> QED
        BY <2>3, <4>3 DEF RunStarted, RunEvent, RunMayMove, TerminalRun
    <3> QED
      BY <3>1, <3>2 DEF ParkedRunHasReview, CancelledRunIsClosed,
                        FailedRunHasOpenTask
  <2>4. CASE RunPaused
    <3>1. runStatus' = "paused" /\ claimed' = claimed
      BY <2>4 DEF RunPaused, RunEvent
    <3>2. ClosedTasksCloseRun'
      BY <2>4, <3>1 DEF RunPaused, RunEvent, RunMayMove, ClosedTasksCloseRun,
                        TerminalRun, TerminalTask, TypeOK
    <3> QED
      BY <3>1, <3>2 DEF ParkedRunHasReview, CancelledRunIsClosed,
                        FailedRunHasOpenTask
  <2>5. CASE RunCancelled
    <3>1. runStatus' = "cancelled" /\ claimed' = claimed
      BY <2>5 DEF RunCancelled, RunEvent
    <3>2. CancelledRunIsClosed'
      BY <2>5, <3>1 DEF RunCancelled, RunEvent, CancelledRunIsClosed,
                        TerminalTask, TypeOK
    <3> QED
      BY <3>1, <3>2 DEF ParkedRunHasReview, ClosedTasksCloseRun,
                        FailedRunHasOpenTask, TerminalRun
  <2>6. CASE RunCompleted
    BY <2>6 DEF RunCompleted, RunEvent, ParkedRunHasReview, CancelledRunIsClosed,
                ClosedTasksCloseRun, FailedRunHasOpenTask, TerminalRun
  <2>7. CASE RunFailed
    <3>1. /\ runStatus' = "failed"
          /\ UNCHANGED <<taskStatus, claimed>>
          /\ RunMayMove(runStatus, "failed")
      BY <2>7 DEF RunFailed, RunEvent
    <3>2. FailedRunHasOpenTask'
      BY <3>1 DEF RunMayMove, FailedRunHasOpenTask, ClosedTasksCloseRun
    <3> QED
      BY <3>1, <3>2 DEF ParkedRunHasReview, CancelledRunIsClosed,
                        ClosedTasksCloseRun, TerminalRun
  <2> QED
    BY <2>1, <2>2, <2>3, <2>4, <2>5, <2>6, <2>7, StepKinds DEF RunStep
<1> QED
  BY <1>1, <1>2, TypeCorrect, PTL DEF Spec

\* The four, each by its name.
COROLLARY RunStatusIsTruthful ==
    Spec => /\ []ParkedRunHasReview
            /\ []CancelledRunIsClosed
            /\ []ClosedTasksCloseRun
            /\ []FailedRunHasOpenTask
<1>1. RunAgreesWithTasks => /\ ParkedRunHasReview
                            /\ CancelledRunIsClosed
                            /\ ClosedTasksCloseRun
                            /\ FailedRunHasOpenTask
  BY DEF RunAgreesWithTasks
<1> QED
  BY <1>1, RunAgreesWithTasksHolds, PTL

-----------------------------------------------------------------------------
(* Nothing closed is reopened.                                             *)

\* Terminal tasks never move, in no event order, under bulk writes too, and
\* a cancelled run never reads anything else.
THEOREM ClosedStaysClosedHolds == Spec => ClosedStaysClosed
<1>1. ASSUME TypeOK, CancelledRunIsClosed, [Next]_vars
      PROVE  /\ \A t \in Tasks : taskStatus[t] \in TerminalTask
                                    => taskStatus'[t] = taskStatus[t]
             /\ runStatus = "cancelled" => runStatus' = "cancelled"
  BY <1>1, TerminalTaskKept, CancelledRunKept
<1>2. RunAgreesWithTasks => CancelledRunIsClosed
  BY DEF RunAgreesWithTasks
<1> QED
  BY <1>1, <1>2, TypeCorrect, RunAgreesWithTasksHolds, PTL
     DEF Spec, ClosedStaysClosed

\* A stored checkpoint is dropped by one event alone, the one that completes
\* its task: a replayed completion drops nothing, no other event touches it.
THEOREM CheckpointKeptUntilDoneHolds == Spec => CheckpointKeptUntilDone
<1>1. ASSUME TypeOK, [Next]_vars, NEW x \in checkpoint \ checkpoint'
      PROVE  taskStatus[x] # "COMPLETED" /\ taskStatus'[x] = "COMPLETED"
  <2>1. PICK t \in Tasks : /\ Move(t, "COMPLETED")
                           /\ checkpoint' = checkpoint \ {t}
    BY <1>1 DEF Next, vars, TaskCreated, TaskStarted, RecordRetry, ClearError,
                TaskCheckpoint, SetCheckpoint,
                TaskCompleted, ClearCheckpoint, TaskFailed, CarriedError,
                TaskSkipped, TaskCancelled,
                ReviewRequested, Replay, RunStarted, RunPaused, RunCancelled,
                RunCompleted, RunFailed, RunEvent
  <2>2. x = t
    BY <1>1, <2>1
  <2>3. taskStatus[t] # "COMPLETED"
    BY <2>1, MovesLeaveOpenStatuses DEF Move, MayMove
  <2>4. taskStatus'[t] = "COMPLETED"
    BY <1>1, <2>1, AfterValues DEF Move, TaskStatus
  <2> QED
    BY <2>2, <2>3, <2>4
<1>2. TypeOK /\ [Next]_vars
        => [\A t \in checkpoint \ checkpoint' :
                taskStatus[t] # "COMPLETED" /\ taskStatus'[t] = "COMPLETED"]_vars
  BY <1>1
<1> QED
  BY <1>2, TypeCorrect, PTL DEF Spec, CheckpointKeptUntilDone

\* No retried or active task shows the error of an earlier attempt.
THEOREM ErrorOnlyAfterFailureHolds == Spec => []ErrorOnlyAfterFailure
<1> DEFINE Failed == {"FAILED", "COMPLETED", "CANCELLED"}
<1>1. Init => ErrorOnlyAfterFailure
  BY DEF Init, ErrorOnlyAfterFailure
<1>2. TypeOK /\ ErrorOnlyAfterFailure /\ [Next]_vars => ErrorOnlyAfterFailure'
  <2> SUFFICES ASSUME TypeOK, ErrorOnlyAfterFailure, [Next]_vars,
                      NEW x \in errorRef'
               PROVE  taskStatus'[x] \in Failed
    BY DEF ErrorOnlyAfterFailure
  <2>1. ASSUME NEW t \in Tasks, NEW s, Move(t, s), x \in errorRef,
               s = "RUNNING" => t # x \/ taskStatus[t] # "FAILED"
        PROVE  taskStatus'[x] \in Failed
    <3>1. taskStatus[x] \in Failed /\ x \in Tasks
      BY <2>1 DEF ErrorOnlyAfterFailure, TypeOK
    <3>2. s \in TaskStatus /\ taskStatus' = After(t, s)
                           /\ <<taskStatus[t], s>> \in TaskTransitions
      BY <2>1, MovesLeaveOpenStatuses DEF Move, MayMove
    <3>3. CASE t # x
      <4>1. taskStatus'[x] \in {taskStatus[x], "FAILED"}
        BY <3>1, <3>2, <3>3, AfterValues
      <4> QED
        BY <3>1, <4>1
    <3>4. CASE t = x
      <4>1. s \in Failed
        BY <2>1, <3>1, <3>2, <3>4 DEF TaskTransitions
      <4> QED
        BY <3>2, <3>4, <4>1, AfterValues
    <3> QED
      BY <3>3, <3>4
  <2>2. ASSUME NEW t \in Tasks, TaskStarted(t)
        PROVE  taskStatus'[x] \in Failed
    <3>1. CASE Replay(t, "RUNNING")
      BY <3>1 DEF Replay, vars, ErrorOnlyAfterFailure
    <3>2. CASE taskStatus[t] # "FAILED" /\ Move(t, "RUNNING") /\ UNCHANGED errorRef
      BY <2>1, <3>2
    <3>3. CASE Move(t, "RUNNING") /\ errorRef' = errorRef \ {t}
      BY <2>1, <3>3
    <3> QED
      BY <2>2, <3>1, <3>2, <3>3 DEF TaskStarted, RecordRetry, ClearError
  <2>3. ASSUME NEW t \in Tasks, TaskFailed(t)
        PROVE  taskStatus'[x] \in Failed
    <3>1. CASE Replay(t, "FAILED")
      BY <3>1 DEF Replay, vars, ErrorOnlyAfterFailure
    <3>2. CASE Move(t, "FAILED")
      <4>1. taskStatus' = After(t, "FAILED") /\ "FAILED" \in TaskStatus
        BY <3>2 DEF Move, TaskStatus
      <4>2. CASE x \in errorRef
        BY <2>1, <3>2, <4>2
      <4>3. CASE x \notin errorRef
        <5>1. ~Replay(t, "FAILED")
          BY <3>2 DEF Replay, Move, MayMove, TaskTransitions
        <5>2. x = t \/ (x \in Tasks \ {t} /\ taskStatus'[x] # taskStatus[x])
          BY <2>3, <4>3, <5>1 DEF TaskFailed, CarriedError
        <5>3. taskStatus'[x] = "FAILED"
          BY <4>1, <5>2, AfterValues
        <5> QED
          BY <5>3
      <4> QED
        BY <4>2, <4>3
    <3> QED
      BY <2>3, <3>1, <3>2 DEF TaskFailed, CarriedError
  <2>4. ASSUME NEW t \in Tasks,
               \/ TaskCreated(t) \/ TaskCheckpoint(t) \/ TaskCompleted(t)
               \/ TaskSkipped(t) \/ TaskCancelled(t) \/ ReviewRequested(t)
        PROVE  taskStatus'[x] \in Failed
    <3>1. errorRef' = errorRef
      BY <2>4 DEF TaskCreated, TaskCheckpoint, SetCheckpoint, TaskCompleted,
                  ClearCheckpoint, TaskSkipped,
                  TaskCancelled, ReviewRequested, Replay, vars
    <3>2. CASE UNCHANGED taskStatus
      BY <3>1, <3>2 DEF ErrorOnlyAfterFailure
    <3>3. CASE \E s \in {"COMPLETED", "SKIPPED", "CANCELLED", "NEEDS_REVIEW"} :
                  Move(t, s)
      BY <2>1, <3>1, <3>3
    <3> QED
      BY <2>4, <3>2, <3>3 DEF TaskCreated, TaskCheckpoint, SetCheckpoint,
                              TaskCompleted, ClearCheckpoint,
                  TaskSkipped, TaskCancelled, ReviewRequested, Replay, vars
  <2>5. CASE RunStep
    BY <2>5 DEF RunStep, RunStarted, RunPaused, RunCancelled, RunCompleted,
                RunFailed, RunEvent, ErrorOnlyAfterFailure, TypeOK, TerminalTask
  <2>6. CASE UNCHANGED vars
    BY <2>6 DEF vars, ErrorOnlyAfterFailure
  <2> QED
    BY <2>2, <2>3, <2>4, <2>5, <2>6 DEF Next, RunStep
<1> QED
  BY <1>1, <1>2, TypeCorrect, PTL DEF Spec
=============================================================================
