---------------------------- MODULE RunDelivery ----------------------------
(***************************************************************************)
(* How the core starts, supervises, delivers and recovers one run: the     *)
(* commands run_start and run_cancel, the worker supervisor, the event     *)
(* pump's cycle and the recovery at startup.  Each step is what a thread   *)
(* does under one of the two mutexes (database, supervisor), which the     *)
(* code never holds together; a crash of the worker or of the core may     *)
(* come between any two.                                                   *)
(*                                                                         *)
(* What the projection makes of the events is TaskOrchestrator's subject;  *)
(* here an event only moves the run's status or is refused.                *)
(***************************************************************************)
EXTENDS Integers, Sequences, FiniteSets

CONSTANTS
    MaxProjectionAttempts,  \* MAX_PROJECTION_ATTEMPTS
    MaxDeliveryAttempts,    \* MAX_DELIVERY_ATTEMPTS
    RearmCycles,            \* DELIVERY_REARM_CYCLES
    MaxLog,                 \* bound: events the worker's job appends
    MaxFaults,              \* bound: failing database writes, requests, restarts
    MaxWorkerDeaths,        \* bound: deaths of the worker alone
    MaxCoreDeaths           \* bound: deaths of the core

ASSUME AttemptsAssumption ==
    /\ MaxProjectionAttempts \in Nat \ {0} /\ MaxDeliveryAttempts \in Nat \ {0}
    /\ RearmCycles \in Nat \ {0}
ASSUME BoundsAssumption ==
    /\ MaxLog \in Nat /\ MaxFaults \in Nat
    /\ MaxWorkerDeaths \in Nat /\ MaxCoreDeaths \in Nat

VARIABLES
    \* the database
    row,          \* "none", "present" or "deleted": the run's row
    status,       \* runs.status
    delivery,     \* runs.delivery_status
    bound,        \* runs.worker_job_id is set
    ingested,     \* the run's result records are in the domain tables
    persisted,    \* the worker sequence numbers in the event log, in order
    localCancels, \* run.cancelled events the core itself appended
    notes,        \* run.result_delivery_failed events (counted up to 2)
    \* the core's memory
    core,         \* "up", or where a start-up is
    sup,          \* the supervisor: a transport is attached, none, budget spent
    job,          \* its ActiveJob entry
    cursor,       \* the last sequence acknowledged, and sent to the windows
    interrupted,  \* its InterruptedJob entry
    pump,         \* where the pump's cycle is
    fetched,      \* the last sequence of the fetched batch, 0 for none
    through,      \* the last sequence persisted when phase B is under way or done
    start,        \* where run_start is
    cancel,       \* where run_cancel is
    \* the worker
    alive,        \* the process lives
    known,        \* it knows the job
    log,          \* the events of the job
    cancelling,   \* the worker was told to cancel the job
    \* the bounds
    faults, deaths

db     == <<row, status, delivery, bound, ingested, persisted, localCancels, notes>>
memory == <<sup, job, cursor, interrupted>>
cycle  == <<pump, fetched, through>>
worker == <<alive, known, log, cancelling>>
vars   == <<db, core, memory, cycle, start, cancel, worker, faults, deaths>>

RunStatus   == {"running", "needs_review", "completed", "failed", "cancelled"}
TerminalRun == {"completed", "failed", "cancelled"}
RunEnd      == {"run.completed", "run.failed", "run.cancelled"}
EventType   == {"run.started", "review.requested", "rejected", "job.ended"} \cup RunEnd

\* is_terminal_job_event: the events that end a job, taken as one.
EndsJob(e) == e = "job.ended"

DeliveryStates == {"pending", "delivered", "failed"}

\* An InterruptedJob entry stays for the core's lifetime.
InterruptedJob == {"no", "pending", "converged"}

NoJob  == [tracked |-> FALSE, pending |-> FALSE, attempts |-> 0, failed |-> FALSE,
           cooldown |-> 0, refusals |-> 0, stalled |-> FALSE]
NewJob == [NoJob EXCEPT !.tracked = TRUE]
Job    == [tracked : BOOLEAN, pending : BOOLEAN, attempts : 0 .. MaxDeliveryAttempts,
           failed : BOOLEAN, cooldown : 0 .. RearmCycles,
           refusals : 0 .. MaxProjectionAttempts, stalled : BOOLEAN]

TypeOK ==
    /\ row \in {"none", "present", "deleted"} /\ status \in RunStatus
    /\ delivery \in DeliveryStates
    /\ bound \in BOOLEAN /\ ingested \in BOOLEAN
    /\ persisted \in Seq(1 .. MaxLog)
    /\ localCancels \in Nat /\ notes \in 0 .. 2
    /\ core \in {"up", "down", "cancelled", "recovering"}
    /\ sup \in {"ready", "stopped", "spent"}
    /\ job \in Job /\ cursor \in 0 .. MaxLog
    /\ interrupted \in InterruptedJob
    /\ pump \in {"fetch", "project", "acknowledge", "deliver", "ingest", "retire",
                 "give up", "converge", "confirm"}
    /\ fetched \in 0 .. MaxLog /\ through \in 0 .. MaxLog
    /\ start \in {"idle", "inserted", "refused", "submitted", "unbound", "undo", "done"}
    /\ cancel \in {"idle", "gone", "failed", "done"}
    /\ alive \in BOOLEAN /\ known \in BOOLEAN /\ cancelling \in BOOLEAN
    /\ log \in Seq(EventType) /\ Len(log) <= MaxLog
    /\ faults \in 0 .. MaxFaults /\ deaths \in [{"worker", "core"} -> Nat]

\* Something fails that may fail: a write, a request, an attempt to restart.
Fault == faults < MaxFaults /\ faults' = faults + 1
Fine  == UNCHANGED faults

-----------------------------------------------------------------------------
(* The rows the steps write.                                               *)

SetStatus(s)   == status' = s
SetDelivery(d) == delivery' = d
BindJob        == bound' = TRUE

\* An event of the worker goes into the run's log, behind the last.
AppendEvent(n) == persisted' = Append(persisted, n)

\* Runs::list_terminal_undelivered
Undelivered == row = "present" /\ status \in TerminalRun /\ delivery # "delivered"

\* The run of the job is there, and bound to it.
Ingestible == row = "present" /\ bound

-----------------------------------------------------------------------------
(* The projection, seen from here.                                         *)

Target(e) == CASE e = "run.started"      -> "running"
               [] e = "review.requested" -> "needs_review"
               [] e = "run.completed"    -> "completed"
               [] e = "run.failed"       -> "failed"
               [] e = "run.cancelled"    -> "cancelled"

\* Mutant: closed runs take any event.
ProjectedAnyway(st, e) ==
    IF st = "refused" \/ row # "present" \/ e = "rejected" THEN "refused"
    ELSE IF EndsJob(e) THEN st
    ELSE Target(e)

\* The status after event e, or "refused"; nothing is projected without a row.
Projected(st, e) ==
    IF st = "refused" \/ row # "present" \/ e = "rejected" THEN "refused"
    ELSE IF EndsJob(e) THEN st
    ELSE IF st = Target(e) \/ st \notin TerminalRun \/ (st = "failed" /\ Target(e) = "running")
         THEN Target(e) ELSE "refused"

\* The batch's events are persisted under one hold of the database's mutex, so
\* that no other writer comes between two of them; only a crash does.
DatabaseFree == ~ (pump = "project" /\ through > cursor)

-----------------------------------------------------------------------------
(* The supervisor.  A dead worker is noticed by the next call that needs   *)
(* one: its job becomes an interruption, and a fresh worker, which knows   *)
(* no job, is started within a budget.                                     *)

\* The outcomes of ensure_started, given the entry j of the job.  A start that
\* is refused may be tried again by the next call; a spent budget stays spent.
Attached(j) ==
    LET lost == sup = "ready" /\ ~alive
        left == IF lost THEN NoJob ELSE j
        seen == IF lost /\ j.tracked /\ interrupted = "no" THEN "pending" ELSE interrupted
        Outcome(ok, s, a, k) ==
            [ok |-> ok, sup |-> s, alive |-> a, known |-> k, job |-> left,
             interrupted |-> seen]
    IN  IF sup = "ready" /\ alive THEN {Outcome(TRUE, "ready", TRUE, known)}
        ELSE (IF sup = "spent" THEN {Outcome(FALSE, "spent", FALSE, FALSE)}
              ELSE {Outcome(TRUE, "ready", TRUE, FALSE)}
                   \cup IF faults < MaxFaults
                        THEN {Outcome(FALSE, s, FALSE, FALSE) : s \in {"stopped", "spent"}}
                        ELSE {})

\* The supervisor and the worker after outcome o, the job's entry being j.
Attach(o, j) ==
    /\ sup' = o.sup /\ alive' = o.alive /\ known' = o.known
    /\ job' = j /\ interrupted' = o.interrupted
    /\ UNCHANGED cursor

\* The worker of outcome o answers questions about the job.
Answers(o) == o.ok /\ o.known

\* A refused start counts as a fault, once.
AttachFault(o) == IF o.ok \/ sup = "spent" THEN Fine ELSE Fault

-----------------------------------------------------------------------------
(* The convergence of a run whose worker is gone (recovery.rs).            *)

\* converge_cancelled_run: the event, its projection and the delivery fact.
ConvergeCancelled ==
    /\ SetStatus("cancelled") /\ SetDelivery("failed")
    /\ localCancels' = localCancels + 1
    /\ UNCHANGED <<row, bound, ingested, persisted, notes>>

\* Mutant: only running runs are converged.
ConvergeRunningOnly ==
    IF row = "present" /\ status = "running" THEN ConvergeCancelled ELSE UNCHANGED db

\* converge_worker_lost_run
ConvergeWorkerLost ==
    IF row # "present" \/ status = "needs_review" THEN UNCHANGED db
    ELSE IF status = "running" THEN ConvergeCancelled
    ELSE IF delivery = "pending"
         THEN SetDelivery("failed")
              /\ UNCHANGED <<row, status, bound, ingested, persisted, localCancels, notes>>
         ELSE UNCHANGED db

-----------------------------------------------------------------------------
(* The pump's cycle: fetch, persist and project, acknowledge and emit,     *)
(* deliver, converge (phases A to E of pump_cycle).                        *)

Pumping(at) == core = "up" /\ pump = at

\* Mutant: the job is never armed again.
TickedNever == job

\* tick_delivery_cooldowns: a job whose cool-down has run out is armed again.
Ticked ==
    IF ~job.failed \/ job.cooldown = 0 THEN job
    ELSE IF job.cooldown > 1 THEN [job EXCEPT !.cooldown = @ - 1]
    ELSE [job EXCEPT !.cooldown = 0, !.failed = FALSE, !.attempts = 0]

\* A job that is not tracked, or stalled, is not polled ...
PumpSkip ==
    /\ Pumping("fetch") /\ (~job.tracked \/ job.stalled)
    /\ job' = Ticked
    /\ pump' = "deliver"
    /\ UNCHANGED <<db, core, sup, cursor, interrupted, fetched, through,
                   start, cancel, worker, faults, deaths>>

\* ... any other is: the batch is what lies behind the cursor, or the request
\* fails, as it always does at a worker that does not know the job.
PumpFetch ==
    /\ Pumping("fetch") /\ job.tracked /\ ~job.stalled
    /\ \E o \in Attached(Ticked) :
        /\ Attach(o, o.job)
        /\ \/ /\ Answers(o) /\ o.job.tracked /\ Len(log) > cursor
              /\ fetched' = Len(log) /\ through' = cursor
              /\ pump' = "project"
              /\ AttachFault(o)
           \/ /\ ~(Answers(o) /\ o.job.tracked /\ Len(log) > cursor)
              /\ pump' = "deliver"
              /\ AttachFault(o) /\ UNCHANGED <<fetched, through>>
           \/ /\ Answers(o) /\ o.job.tracked
              /\ pump' = "deliver"
              /\ Fault /\ UNCHANGED <<fetched, through>>
    /\ UNCHANGED <<db, core, start, cancel, log, cancelling, deaths>>

\* What the next event of the batch makes of the run.
NextStatus == Projected(status, log[through + 1])

\* Each event's log row and projection commit together ...
PumpProject ==
    /\ Pumping("project") /\ NextStatus # "refused"
    /\ SetStatus(NextStatus) /\ AppendEvent(through + 1)
    /\ through' = through + 1
    /\ pump' = IF through' = fetched THEN "acknowledge" ELSE "project"
    /\ UNCHANGED <<row, delivery, bound, ingested, localCancels, notes, core, memory,
                   fetched, start, cancel, worker, faults, deaths>>

\* ... and the first that is refused or fails to commit ends the batch.
PumpRefuse ==
    /\ Pumping("project")
    /\ IF NextStatus = "refused" THEN Fine ELSE Fault
    /\ pump' = "acknowledge"
    /\ UNCHANGED <<db, core, memory, fetched, through, start, cancel, worker, deaths>>

\* Mutant: nothing is acknowledged.
AcknowledgedNothing == cursor

\* The cursor moves to the last event persisted.
Acknowledged == through

\* note_projection_success, note_projection_failure: refusals in a row.
Refusals == (IF through > cursor THEN 0 ELSE job.refusals)
            + (IF through < fetched THEN 1 ELSE 0)

\* Persisted events are acknowledged and sent to the windows; a refused one
\* is counted, and enough of them stall the job.
PumpAcknowledge ==
    /\ Pumping("acknowledge")
    /\ job' = IF ~job.tracked THEN job
              ELSE [job EXCEPT
                      !.refusals = Refusals,
                      !.stalled = Refusals >= MaxProjectionAttempts,
                      !.pending = @ \/ \E i \in cursor + 1 .. through : EndsJob(log[i])]
    /\ cursor' = Acknowledged
    /\ pump' = "deliver"
    /\ fetched' = 0 /\ through' = 0
    /\ UNCHANGED <<db, core, sup, interrupted, start, cancel, worker, faults, deaths>>

\* note_delivery_failure: the entry after one more failed attempt.
Failed(j) ==
    IF ~j.tracked THEN j
    ELSE IF j.attempts + 1 >= MaxDeliveryAttempts
         THEN [j EXCEPT !.attempts = @ + 1, !.failed = TRUE, !.cooldown = RearmCycles]
         ELSE [j EXCEPT !.attempts = @ + 1]

\* Where the cycle goes on after it, the budget being exhausted or not.
AfterFailure(j) == IF Failed(j).tracked /\ ~Failed(j).failed THEN "converge" ELSE "give up"

PumpNothingToDeliver ==
    /\ Pumping("deliver") /\ ~(job.tracked /\ job.pending /\ ~job.failed)
    /\ pump' = "converge"
    /\ UNCHANGED <<db, core, memory, fetched, through, start, cancel, worker,
                   faults, deaths>>

\* Fetches the results of a job whose end is persisted.
PumpDeliver ==
    /\ Pumping("deliver") /\ job.tracked /\ job.pending /\ ~job.failed
    /\ \E o \in Attached(job) :
        \/ /\ Answers(o)
           /\ Attach(o, o.job)
           /\ pump' = "ingest"
           /\ AttachFault(o)
        \/ /\ ~Answers(o)
           /\ Attach(o, Failed(o.job))
           /\ pump' = AfterFailure(o.job)
           /\ AttachFault(o)
        \/ /\ Answers(o)
           /\ Attach(o, Failed(o.job))
           /\ pump' = AfterFailure(o.job)
           /\ Fault
    /\ UNCHANGED <<db, core, fetched, through, start, cancel, log, cancelling,
                   deaths>>

\* The records and the delivery fact commit together, for a run that is bound
\* to the job; a batch that fails leaves nothing.
PumpIngest ==
    /\ Pumping("ingest")
    /\ \/ /\ Ingestible
          /\ ingested' = TRUE /\ SetDelivery("delivered")
          /\ pump' = "retire"
          /\ Fine /\ UNCHANGED job
       \/ /\ UNCHANGED <<ingested, delivery>>
          /\ job' = Failed(job)
          /\ pump' = AfterFailure(job)
          /\ IF Ingestible THEN Fault ELSE Fine
    /\ UNCHANGED <<row, status, bound, persisted, localCancels, notes, core, sup, cursor,
                   interrupted, fetched, through, start, cancel, worker, deaths>>

PumpRetire ==
    /\ Pumping("retire")
    /\ job' = NoJob
    /\ pump' = "converge"
    /\ UNCHANGED <<db, core, sup, cursor, interrupted, fetched, through, start,
                   cancel, worker, faults, deaths>>

\* persist_delivery_failure: the durable fact; a failing write is only noted.
PumpGiveUp ==
    /\ Pumping("give up")
    /\ \/ /\ row = "present" /\ SetDelivery("failed") /\ Fine
       \/ /\ UNCHANGED delivery /\ (IF row = "present" THEN Fault ELSE Fine)
    /\ pump' = "converge"
    /\ UNCHANGED <<row, status, bound, ingested, persisted, localCancels, notes, core,
                   memory, fetched, through, start, cancel, worker, deaths>>

\* pending_interruptions
PendingInterruption == interrupted = "pending"

\* Mutant: a convergence that failed to persist is confirmed all the same.
PumpConvergeOnce ==
    /\ Pumping("converge")
    /\ \/ ~PendingInterruption /\ pump' = "fetch" /\ Fine /\ UNCHANGED db
       \/ PendingInterruption /\ pump' = "confirm" /\ Fine /\ ConvergeWorkerLost
       \/ PendingInterruption /\ pump' = "confirm" /\ Fault /\ UNCHANGED db
    /\ UNCHANGED <<core, memory, fetched, through, start, cancel, worker, deaths>>

\* A convergence that fails to persist stays pending for the next cycle.
PumpConverge ==
    /\ Pumping("converge")
    /\ \/ ~PendingInterruption /\ pump' = "fetch" /\ Fine /\ UNCHANGED db
       \/ PendingInterruption /\ pump' = "confirm" /\ Fine /\ ConvergeWorkerLost
       \/ PendingInterruption /\ pump' = "fetch" /\ Fault /\ UNCHANGED db
    /\ UNCHANGED <<core, memory, fetched, through, start, cancel, worker, deaths>>

PumpConfirm ==
    /\ Pumping("confirm")
    /\ interrupted' = "converged"
    /\ pump' = "fetch"
    /\ UNCHANGED <<db, core, sup, job, cursor, fetched, through, start, cancel,
                   worker, faults, deaths>>

Pump == PumpSkip \/ PumpFetch \/ PumpProject \/ PumpRefuse \/ PumpAcknowledge
        \/ PumpNothingToDeliver
        \/ PumpDeliver \/ PumpIngest \/ PumpRetire \/ PumpGiveUp \/ PumpConverge
        \/ PumpConfirm

-----------------------------------------------------------------------------
(* run_start: the row, the job, the binding, each under its own lock.      *)

\* Phase 1.  (One run of the plan at a time; here there is but one.)
StartInsert ==
    /\ core = "up" /\ start = "idle" /\ DatabaseFree
    /\ row' = "present"
    /\ start' = "inserted"
    /\ UNCHANGED <<status, delivery, bound, ingested, persisted, localCancels, notes,
                   core, memory, cycle, cancel, worker, faults, deaths>>

\* Phase 2.  The request may fail after the worker has taken the job.
StartSubmit ==
    /\ core = "up" /\ start = "inserted"
    /\ \E o \in Attached(job) :
        \/ /\ o.ok
           /\ Attach([o EXCEPT !.known = TRUE], NewJob)
           /\ start' = "submitted"
           /\ AttachFault(o)
        \/ /\ ~o.ok
           /\ Attach(o, o.job)
           /\ start' = "refused"
           /\ AttachFault(o)
        \/ /\ o.ok
           /\ \E taken \in BOOLEAN : Attach([o EXCEPT !.known = taken], o.job)
           /\ start' = "refused"
           /\ Fault
    /\ UNCHANGED <<db, core, cycle, cancel, log, cancelling, deaths>>

Deleted ==
    /\ row' = "deleted" /\ persisted' = <<>>
    /\ UNCHANGED <<status, delivery, bound, ingested, localCancels, notes>>

\* A failed submission removes the row, or else closes the run as failed.
StartCleanup ==
    /\ core = "up" /\ start = "refused" /\ DatabaseFree
    /\ start' = "done"
    /\ \/ Deleted /\ Fine
       \/ /\ SetStatus("failed")
          /\ UNCHANGED <<row, delivery, bound, ingested, persisted, localCancels, notes>>
          /\ Fault
    /\ UNCHANGED <<core, memory, cycle, cancel, worker, deaths>>

\* Phase 3.
StartBind ==
    /\ core = "up" /\ start = "submitted" /\ DatabaseFree
    /\ \/ BindJob /\ start' = "done" /\ Fine
       \/ UNCHANGED bound /\ start' = "unbound" /\ Fault
    /\ UNCHANGED <<row, status, delivery, ingested, persisted, localCancels, notes, core,
                   memory, cycle, cancel, worker, deaths>>

\* cancel_job of the supervisor: the worker is told if it knows the job.
CancelJob(o) == cancelling' = (cancelling \/ Answers(o))

\* A failed binding cancels the job and then removes the row, if it can.
StartUndo ==
    /\ core = "up" /\ start = "unbound"
    /\ \E o \in Attached(job) : Attach(o, o.job) /\ CancelJob(o) /\ AttachFault(o)
    /\ start' = "undo"
    /\ UNCHANGED <<db, core, cycle, cancel, log, deaths>>

StartDelete ==
    /\ core = "up" /\ start = "undo" /\ DatabaseFree
    /\ start' = "done"
    /\ (Deleted /\ Fine) \/ (UNCHANGED db /\ Fault)
    /\ UNCHANGED <<core, memory, cycle, cancel, worker, deaths>>

Start == StartInsert \/ StartSubmit \/ StartCleanup \/ StartBind \/ StartUndo \/ StartDelete

-----------------------------------------------------------------------------
(* run_get and run_cancel, for a run whose job the user has been shown.    *)

Shown == start = "done" /\ bound

\* run_get asks the worker, which is started if it must be.
RunGet ==
    /\ core = "up" /\ Shown
    /\ \E o \in Attached(job) : Attach(o, o.job) /\ AttachFault(o)
    /\ UNCHANGED <<db, core, cycle, start, cancel, log, cancelling, deaths>>

Cancel ==
    /\ core = "up" /\ cancel = "idle" /\ Shown
    /\ \E o \in Attached(job) :
        /\ Attach(o, o.job)
        /\ CancelJob(o)
        /\ cancel' = IF ~o.ok THEN "failed" ELSE IF o.known THEN "done" ELSE "gone"
        /\ AttachFault(o)
    /\ UNCHANGED <<db, core, cycle, start, log, deaths>>

\* The worker has no such job: the run is converged locally.
CancelConverge ==
    /\ core = "up" /\ cancel = "gone" /\ DatabaseFree
    /\ \/ ConvergeWorkerLost /\ cancel' = "done" /\ Fine
       \/ UNCHANGED db /\ cancel' = "failed" /\ Fault
    /\ UNCHANGED <<core, memory, cycle, start, worker, deaths>>

-----------------------------------------------------------------------------
(* The worker, and what can happen to the two processes.                   *)

\* What the job may append next.  Most jobs end their run and then end; some
\* end without (DagRunner), and the core refuses some events (ResearchRun).  A
\* thread that was about to report a task does so also after the job's end.
NextEvents ==
    LET Occurred(types) == \E i \in 1 .. Len(log) : log[i] \in types
    IN  IF ~known THEN {}
        ELSE IF log = <<>> THEN {"run.started"}
             \cup (IF cancelling THEN {"job.ended"} ELSE {})
        ELSE {"rejected"}
             \cup (IF Occurred(RunEnd) THEN {} ELSE {"review.requested"})
             \cup (IF Occurred({"job.ended"}) THEN {} ELSE {"job.ended"})
             \cup (IF Occurred(RunEnd \cup {"job.ended"}) THEN {}
                   ELSE {"run.completed", "run.failed"}
                        \cup IF cancelling THEN {"run.cancelled"} ELSE {})

Publish ==
    /\ alive /\ Len(log) < MaxLog
    /\ \E e \in NextEvents :
        /\ Len(log) = MaxLog - 1 /\ "job.ended" \in NextEvents => e = "job.ended"
        /\ log' = Append(log, e)
    /\ UNCHANGED <<db, core, memory, cycle, start, cancel, alive, known, cancelling,
                   faults, deaths>>

WorkerDies ==
    /\ alive /\ deaths["worker"] < MaxWorkerDeaths
    /\ deaths' = [deaths EXCEPT !["worker"] = @ + 1]
    /\ alive' = FALSE /\ known' = FALSE
    /\ UNCHANGED <<db, core, memory, cycle, start, cancel, log, cancelling, faults>>

\* A core comes up with an empty memory and no worker.
Empty ==
    /\ sup' = "stopped" /\ job' = NoJob /\ cursor' = 0 /\ interrupted' = "no"
    /\ pump' = "fetch" /\ fetched' = 0 /\ through' = 0

\* The core's death takes its memory and its child, the worker, with it.
CoreDies ==
    /\ core # "down" /\ deaths["core"] < MaxCoreDeaths
    /\ deaths' = [deaths EXCEPT !["core"] = @ + 1]
    /\ core' = "down" /\ Empty
    /\ start' = IF start = "idle" THEN "idle" ELSE "done"
    /\ cancel' = IF cancel = "gone" THEN "failed" ELSE cancel
    /\ alive' = FALSE /\ known' = FALSE
    /\ UNCHANGED <<db, log, cancelling, faults>>

\* Startup: what the last process left running is cancelled (the first half of
\* converge_interrupted_runs) ...
RecoverRunning ==
    /\ core = "down"
    /\ IF row = "present" /\ status = "running"
       THEN ConvergeCancelled /\ core' = "cancelled"
       ELSE UNCHANGED db /\ core' = "recovering"
    /\ UNCHANGED <<memory, cycle, start, cancel, worker, faults, deaths>>

\* ... and what it left undelivered is failed, with a note, unless the first
\* half has just done so (converge_undelivered_runs).
RecoverUndelivered ==
    /\ core \in {"cancelled", "recovering"}
    /\ core' = "up"
    /\ IF Undelivered /\ core # "cancelled"
       THEN SetDelivery("failed") /\ notes' = (IF notes < 2 THEN notes + 1 ELSE 2)
       ELSE UNCHANGED <<delivery, notes>>
    /\ UNCHANGED <<row, status, bound, ingested, persisted, localCancels, memory, cycle,
                   start, cancel, worker, faults, deaths>>

Recover == RecoverRunning \/ RecoverUndelivered

-----------------------------------------------------------------------------

Init ==
    /\ row = "none" /\ status = "running" /\ delivery = "pending" /\ bound = FALSE
    /\ ingested = FALSE /\ persisted = <<>> /\ localCancels = 0 /\ notes = 0
    /\ core = "up" /\ sup = "stopped" /\ job = NoJob /\ cursor = 0 /\ interrupted = "no"
    /\ pump = "fetch" /\ fetched = 0 /\ through = 0
    /\ start = "idle" /\ cancel = "idle"
    /\ alive = FALSE /\ known = FALSE /\ log = <<>> /\ cancelling = FALSE
    /\ faults = 0 /\ deaths = [p \in {"worker", "core"} |-> 0]

Next == Pump \/ Start \/ RunGet \/ Cancel \/ CancelConverge \/ Publish \/ WorkerDies \/ CoreDies
        \/ Recover

Spec == Init /\ [][Next]_vars

\* The pump's thread, a command once begun and a start-up once begun go on;
\* the user, the worker and the failures are under no obligation.
FairSpec == Spec /\ WF_vars(Pump) /\ WF_vars(Recover) /\ WF_vars(CancelConverge)
                 /\ WF_vars(Start /\ start # "idle")

-----------------------------------------------------------------------------
(* What should hold.                                                       *)

\* The event log of a run holds the worker's events in the worker's order,
\* each once, whatever was fetched twice, refused or failed to commit
\* (phases A to C of pump_cycle).
EventsPersistOnce == \A i \in 1 .. Len(persisted) : persisted[i] = i

\* A window is never sent an event the log does not hold (the emission of
\* pump_cycle, which follows the acknowledged cursor).
EmittedIsPersisted == row = "present" => cursor <= Len(persisted)

\* While the core is up, a bound run that still runs, or whose end is known
\* but whose results are not, is in someone's hands: the supervisor tracks its
\* job or an interruption waits to be converged.  The one way out is a job that
\* ended, and delivered, without having ended its run.
OpenRunIsHeld ==
    core = "up" /\ bound /\ (status = "running" \/ (status \in TerminalRun /\ delivery = "pending"))
        => job.tracked \/ interrupted = "pending" \/ (status = "running" /\ ingested)

\* A job leaves the supervisor only when its results are in, or as an
\* interruption (retire_job follows the ingestion).
UntrackedIsAccounted ==
    core = "up" /\ bound /\ ~job.tracked => ingested \/ interrupted # "no" \/ deaths["core"] > 0

\* The core cancels a run on its own account at most once, however many of
\* run_cancel, the pump and the startups find its worker gone.
OneConvergence == localCancels <= 1

\* What the database, the supervisor and the windows know of a run agrees, at
\* every point of the pump's cycle and of the commands beside it, whatever died
\* or was refused: the log is the worker's, no window is ahead of it, a job is
\* let go of only when it is accounted for, and the core cancels a run once.
DeliveryInv ==
    TypeOK /\ EventsPersistOnce /\ EmittedIsPersisted /\ UntrackedIsAccounted /\ OneConvergence

\* A run closed as completed or cancelled stays that way, also when events
\* fetched before it was closed are persisted after (run_event refuses them).
\* Task events, whose rollup can undo a completion, are ResearchRun's subject.
ClosedRunIsFinal ==
    [][row = "present" /\ status \in {"completed", "cancelled"} => status' = status]_vars

\* The results of a job that ended reach the domain tables, however often
\* fetching or storing them fails, unless one of the processes dies.
ResultsLand == bound /\ job.pending ~> ingested \/ interrupted # "no" \/ core # "up"

\* A run whose worker died does not stay running.
LostRunIsClosed ==
    bound /\ interrupted = "pending" /\ status = "running" ~> status # "running"
=============================================================================
