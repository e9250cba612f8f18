------------------------- MODULE RunDeliveryProofs -------------------------
(***************************************************************************)
(* What RunDelivery promises for every number of attempts, cycles, events, *)
(* faults and deaths.  One inductive invariant, DIInv, says for every point *)
(* of the pump's cycle and of run_start beside it where the log, the       *)
(* cursor, the supervisor's entry and the run's row stand to each other;   *)
(* with it the delivery implements EventLog.                               *)
(***************************************************************************)
EXTENDS RunDelivery, TLAPS

Closed  == {"completed", "cancelled"}
Early   == {"idle", "inserted", "refused"}
Reading == {"project", "acknowledge"}

\* A job that may still be tried has a try left.
JobOK(j) ==
    /\ j \in Job
    /\ ~j.failed => j.attempts < MaxDeliveryAttempts
    /\ ~j.stalled => j.refusals < MaxProjectionAttempts

\* The type invariant, by the kind of its values.
Stores ==
    /\ row \in {"none", "present", "deleted"} /\ status \in RunStatus
    /\ delivery \in DeliveryStates /\ interrupted \in InterruptedJob
    /\ sup \in {"ready", "stopped", "spent"}

Places ==
    /\ core \in {"up", "down", "cancelled", "recovering"}
    /\ pump \in {"fetch", "project", "acknowledge", "deliver", "ingest", "retire",
                 "give up", "converge", "confirm"}
    /\ start \in {"idle", "inserted", "refused", "submitted", "unbound", "undo", "done"}
    /\ cancel \in {"idle", "gone", "failed", "done"}

Flags == /\ bound \in BOOLEAN /\ ingested \in BOOLEAN
         /\ alive \in BOOLEAN /\ known \in BOOLEAN /\ cancelling \in BOOLEAN

Numbers ==
    /\ localCancels \in Nat /\ notes \in 0 .. 2 /\ faults \in 0 .. MaxFaults
    /\ cursor \in 0 .. MaxLog /\ fetched \in 0 .. MaxLog /\ through \in 0 .. MaxLog

Logs ==
    /\ persisted \in Seq(1 .. MaxLog) /\ Len(persisted) \in Nat
    /\ log \in Seq(EventType) /\ Len(log) \in 0 .. MaxLog

DeathsCounted ==
    /\ deaths \in [{"worker", "core"} -> Nat]
    /\ deaths["worker"] \in Nat /\ deaths["core"] \in Nat

JobFits ==
    /\ JobOK(job)
    /\ pump = "ingest" => ~job.failed
    /\ pump \in Reading => ~job.stalled

\* Before the job is the worker's, nobody has heard of the run.
StartFits ==
    /\ start = "idle" => row = "none"
    /\ start \notin {"idle", "done"} => row = "present" /\ core = "up"
    /\ start \in Early =>
          /\ status = "running" /\ ~job.tracked /\ interrupted = "no"
          /\ pump \in {"fetch", "deliver", "converge"}
          /\ localCancels = 0 /\ cursor = 0 /\ persisted = <<>>
    /\ bound => start = "done" /\ row = "present"
    /\ cancel # "idle" => start = "done"

\* Where the log, the cursor and the batch under way stand.
LogFits ==
    /\ row # "present" => persisted = <<>>
    /\ row = "present" => cursor <= Len(persisted)
    /\ row = "present" /\ pump \in Reading => Len(persisted) = through
    /\ row = "present" /\ pump \notin Reading /\ job.tracked => Len(persisted) = cursor
    /\ pump \in Reading => cursor <= through /\ through <= fetched /\ fetched <= Len(log)
    /\ pump = "project" => through < fetched

\* The core cancels on its own account only what is not cancelled yet.
CancelFits ==
    \/ localCancels = 0
    \/ localCancels = 1 /\ (status = "cancelled" \/ row # "present")

\* Nothing more is expected of the run.
Settled == status # "running" /\ (status \in TerminalRun => delivery # "pending")

\* In whose hands the run is.
HeldFits ==
    /\ job.tracked => interrupted = "no"
    /\ pump = "project" => job.tracked \/ interrupted = "pending"
    /\ pump = "retire" => ingested
    /\ pump = "confirm" => interrupted = "pending"
    /\ ingested => delivery # "pending"
    /\ row = "present" /\ (pump = "confirm" \/ interrupted = "converged") => Settled
    /\ core = "up" /\ (bound \/ start = "submitted") /\ ~job.tracked /\ interrupted = "no"
          => ingested \/ (deaths["core"] > 0 /\ Settled)

\* What a start-up has found so far.
RecoveryFits ==
    /\ core # "up" => deaths["core"] > 0
    /\ core = "cancelled" => status = "cancelled" /\ delivery = "failed"
    /\ core = "recovering" /\ row = "present" => status # "running"

DIInv ==
    /\ Stores /\ Places /\ Flags /\ Numbers /\ Logs /\ DeathsCounted /\ JobFits
    /\ StartFits /\ EventsPersistOnce /\ LogFits /\ CancelFits /\ HeldFits /\ RecoveryFits

-----------------------------------------------------------------------------
(* The helpers.                                                            *)

\* No job, and a job just submitted, may be tried.
LEMMA NoJobOK == /\ JobOK(NoJob) /\ ~NoJob.tracked /\ ~NoJob.failed /\ ~NoJob.stalled
                 /\ JobOK(NewJob) /\ NewJob.tracked /\ ~NewJob.failed /\ ~NewJob.stalled
<1>1. NoJob \in Job
  BY AttemptsAssumption DEF NoJob, Job
<1>2. /\ ~NoJob.tracked /\ ~NoJob.failed /\ ~NoJob.stalled /\ NoJob.attempts = 0
      /\ NoJob.refusals = 0
  BY DEF NoJob
<1>3. NewJob \in Job /\ NewJob.tracked /\ NewJob.failed = NoJob.failed
      /\ NewJob.stalled = NoJob.stalled /\ NewJob.attempts = NoJob.attempts
      /\ NewJob.refusals = NoJob.refusals
  BY <1>1 DEF NewJob, Job
<1> QED
  BY <1>1, <1>2, <1>3, AttemptsAssumption DEF JobOK

\* Changing the count, the mark and the cool-down of a job leaves a job.
LEMMA JobExcept ==
    ASSUME NEW j \in Job, NEW a \in 0 .. MaxDeliveryAttempts, NEW f \in BOOLEAN,
           NEW c \in 0 .. RearmCycles
    PROVE  /\ [j EXCEPT !.attempts = a, !.failed = f, !.cooldown = c] \in Job
           /\ [j EXCEPT !.cooldown = c, !.failed = f, !.attempts = a] \in Job
BY AttemptsAssumption DEF Job

\* A cycle's tick neither tracks nor stalls a job.
LEMMA TickedOK ==
    ASSUME JobOK(job)
    PROVE  JobOK(Ticked) /\ Ticked.tracked = job.tracked /\ Ticked.stalled = job.stalled
<1>1. CASE ~job.failed \/ job.cooldown = 0
  BY <1>1 DEF Ticked
<1>2. CASE job.failed /\ job.cooldown # 0 /\ job.cooldown > 1
  <2> DEFINE t == [job EXCEPT !.cooldown = @ - 1]
  <2>1. Ticked = t
    BY <1>2 DEF Ticked
  <2>2. t \in Job
    BY <1>2, AttemptsAssumption DEF JobOK, Job
  <2>3. /\ t.tracked = job.tracked /\ t.stalled = job.stalled /\ t.failed = job.failed
        /\ t.refusals = job.refusals
    BY DEF JobOK, Job
  <2> QED
    BY <1>2, <2>1, <2>2, <2>3 DEF JobOK
<1>3. CASE job.failed /\ job.cooldown # 0 /\ ~(job.cooldown > 1)
  <2> DEFINE t == [job EXCEPT !.cooldown = 0, !.failed = FALSE, !.attempts = 0]
  <2>1. Ticked = t
    BY <1>3 DEF Ticked
  <2>2. t \in Job
    <3>1. job \in Job /\ 0 \in 0 .. MaxDeliveryAttempts /\ 0 \in 0 .. RearmCycles
      BY AttemptsAssumption DEF JobOK
    <3> QED
      BY <3>1, JobExcept
  <2>3. /\ t.tracked = job.tracked /\ t.stalled = job.stalled /\ t.attempts = 0
        /\ t.refusals = job.refusals
    BY DEF JobOK, Job
  <2> QED
    BY <2>1, <2>2, <2>3, AttemptsAssumption DEF JobOK
<1> QED
  BY <1>1, <1>2, <1>3

\* A failed attempt leaves a try, or marks the job as failed.
LEMMA FailedOK ==
    ASSUME NEW j, JobOK(j), ~j.failed
    PROVE  JobOK(Failed(j)) /\ Failed(j).tracked = j.tracked /\ Failed(j).stalled = j.stalled
<1>1. CASE ~j.tracked
  BY <1>1 DEF Failed
<1>2. CASE j.tracked /\ j.attempts + 1 >= MaxDeliveryAttempts
  <2> DEFINE f == [j EXCEPT !.attempts = @ + 1, !.failed = TRUE, !.cooldown = RearmCycles]
  <2>1. Failed(j) = f
    BY <1>2 DEF Failed
  <2>2. f \in Job
    <3>1. j \in Job /\ j.attempts + 1 \in 0 .. MaxDeliveryAttempts /\ RearmCycles \in 0 .. RearmCycles
      BY AttemptsAssumption DEF JobOK, Job
    <3> QED
      BY <3>1, JobExcept
  <2>3. f.tracked = j.tracked /\ f.stalled = j.stalled /\ f.failed /\ f.refusals = j.refusals
    BY DEF JobOK, Job
  <2> QED
    BY <2>1, <2>2, <2>3 DEF JobOK
<1>3. CASE j.tracked /\ ~(j.attempts + 1 >= MaxDeliveryAttempts)
  <2> DEFINE f == [j EXCEPT !.attempts = @ + 1]
  <2>1. Failed(j) = f
    BY <1>3 DEF Failed
  <2>2. f \in Job
    BY <1>3, AttemptsAssumption DEF JobOK, Job
  <2>3. /\ f.tracked = j.tracked /\ f.stalled = j.stalled /\ f.failed = j.failed
        /\ f.refusals = j.refusals /\ f.attempts = j.attempts + 1
    BY DEF JobOK, Job
  <2>4. j.attempts \in 0 .. MaxDeliveryAttempts
    BY DEF JobOK, Job
  <2>5. f.attempts < MaxDeliveryAttempts
    BY <1>3, <2>3, <2>4, AttemptsAssumption
  <2> QED
    BY <1>3, <2>1, <2>2, <2>3, <2>5 DEF JobOK
<1> QED
  BY <1>1, <1>2, <1>3

\* A call that needs a worker leaves the job as it is, or interrupts it.
LEMMA AttachedOK ==
    ASSUME NEW j, NEW o \in Attached(j), Stores, Places, Flags
    PROVE  /\ o.sup \in {"ready", "stopped", "spent"} /\ o.alive \in BOOLEAN
           /\ o.known \in BOOLEAN /\ o.ok \in BOOLEAN
           /\ \/ o.job = j /\ o.interrupted = interrupted
              \/ /\ o.job = NoJob
                 /\ o.interrupted = IF j.tracked /\ interrupted = "no" THEN "pending"
                                    ELSE interrupted
           /\ ~o.ok /\ sup # "spent" => faults < MaxFaults
<1> DEFINE lost == sup = "ready" /\ ~alive
           left == IF lost THEN NoJob ELSE j
           seen == IF lost /\ j.tracked /\ interrupted = "no" THEN "pending" ELSE interrupted
           Out(ok, s, a, k) ==
               [ok |-> ok, sup |-> s, alive |-> a, known |-> k, job |-> left,
                interrupted |-> seen]
<1>1. \/ o = Out(TRUE, "ready", TRUE, known)
      \/ sup = "spent" /\ o = Out(FALSE, "spent", FALSE, FALSE)
      \/ o = Out(TRUE, "ready", TRUE, FALSE)
      \/ faults < MaxFaults /\ \E s \in {"stopped", "spent"} : o = Out(FALSE, s, FALSE, FALSE)
  BY Zenon DEF Attached
<1>2. o.job = left /\ o.interrupted = seen
  BY <1>1
<1>3. /\ o.sup \in {"ready", "stopped", "spent"} /\ o.alive \in BOOLEAN
      /\ o.known \in BOOLEAN /\ o.ok \in BOOLEAN
      /\ ~o.ok /\ sup # "spent" => faults < MaxFaults
  <2>1. CASE o = Out(TRUE, "ready", TRUE, known)
    BY <2>1 DEF Stores, Places, Flags
  <2>2. CASE sup = "spent" /\ o = Out(FALSE, "spent", FALSE, FALSE)
    BY <2>2
  <2>3. CASE o = Out(TRUE, "ready", TRUE, FALSE)
    BY <2>3
  <2>4. CASE faults < MaxFaults /\ \E s \in {"stopped", "spent"} : o = Out(FALSE, s, FALSE, FALSE)
    BY <2>4
  <2> QED
    BY <1>1, <2>1, <2>2, <2>3, <2>4
<1>4. CASE lost
  BY <1>2, <1>3, <1>4
<1>5. CASE ~lost
  BY <1>2, <1>3, <1>5
<1> QED
  BY <1>4, <1>5

\* The parts of the type invariant make it up.
LEMMA TypeParts == Stores /\ Places /\ Flags /\ Numbers /\ Logs /\ DeathsCounted /\ JobFits => TypeOK
<1>1. Len(log) \in 0 .. MaxLog => Len(log) <= MaxLog
  BY BoundsAssumption
<1> QED
  BY <1>1 DEF Stores, Places, Flags, Numbers, Logs, DeathsCounted, JobFits, JobOK, TypeOK

\* What the next event makes of a run: nothing of one that is closed.
LEMMA NextStatusOK ==
    ASSUME status \in RunStatus, log \in Seq(EventType), through + 1 \in 1 .. Len(log),
           NextStatus # "refused"
    PROVE  /\ row = "present" /\ NextStatus \in RunStatus
           /\ status \in Closed => NextStatus = status
<1> DEFINE e == log[through + 1]
<1>1. e \in EventType
  OBVIOUS
<1> HIDE DEF e
<1>2. Projected(status, e) # "refused"
  BY DEF NextStatus, e
<1>3. row = "present" /\ e # "rejected"
  BY <1>2 DEF Projected
<1>4. CASE e = "job.ended"
  BY <1>2, <1>3, <1>4 DEF Projected, EndsJob, NextStatus, e, RunStatus
<1>5. CASE e # "job.ended"
  <2>1. Target(e) \in RunStatus
    BY <1>1, <1>3, <1>5 DEF Target, RunStatus, EventType, RunEnd
  <2>2. /\ Projected(status, e) = Target(e)
        /\ \/ status = Target(e) \/ status \notin TerminalRun
           \/ status = "failed" /\ Target(e) = "running"
    BY <1>2, <1>3, <1>5 DEF Projected, EndsJob, RunStatus
  <2> QED
    BY <2>1, <2>2, <1>3 DEF NextStatus, e, TerminalRun, Closed
<1> QED
  BY <1>4, <1>5

\* What a local convergence makes of the run's row.
LEMMA ConvergeOK ==
    ASSUME Stores, Numbers, CancelFits, ConvergeWorkerLost
    PROVE  /\ UNCHANGED <<row, bound, ingested, persisted, notes>>
           /\ status' \in RunStatus /\ delivery' \in DeliveryStates /\ localCancels' \in Nat
           /\ status \in Closed => status' = status
           /\ row = "present" => Settled'
           /\ ingested /\ delivery # "pending" => delivery' # "pending"
           /\ Settled => Settled'
           /\ CancelFits'
<1> USE DEF SetStatus, SetDelivery, Settled, TerminalRun, Closed, RunStatus, DeliveryStates,
            Stores, CancelFits
<1>1. CASE row # "present" \/ status = "needs_review"
  BY <1>1 DEF ConvergeWorkerLost, db, Numbers
<1>2. CASE row = "present" /\ status = "running"
  <2>1. ConvergeCancelled
    BY <1>2 DEF ConvergeWorkerLost
  <2>2. localCancels = 0
    BY <1>2
  <2>3. /\ status' = "cancelled" /\ delivery' = "failed" /\ localCancels' = 1
        /\ UNCHANGED <<row, bound, ingested, persisted, notes>>
    BY <2>1, <2>2 DEF ConvergeCancelled
  <2> QED
    BY <1>2, <2>3
<1>3. CASE row = "present" /\ status \notin {"running", "needs_review"}
  <2>1. CASE delivery = "pending"
    BY <1>3, <2>1 DEF ConvergeWorkerLost, Numbers
  <2>2. CASE delivery # "pending"
    BY <1>3, <2>2 DEF ConvergeWorkerLost, db, Numbers
  <2> QED
    BY <2>1, <2>2
<1> QED
  BY <1>1, <1>2, <1>3

\* An acknowledged batch leaves a job that may still be tried a try.
LEMMA AcknowledgedOK ==
    ASSUME Numbers, JobFits, pump = "acknowledge",
           NEW j, j = IF ~job.tracked THEN job
                      ELSE [job EXCEPT
                              !.refusals = Refusals,
                              !.stalled = Refusals >= MaxProjectionAttempts,
                              !.pending = @ \/ \E i \in cursor + 1 .. through : EndsJob(log[i])]
    PROVE  JobOK(j) /\ j.tracked = job.tracked
<1>1. CASE ~job.tracked
  BY <1>1 DEF JobFits
<1>2. CASE job.tracked
  <2> DEFINE b == Refusals >= MaxProjectionAttempts
             e == job.pending \/ \E i \in cursor + 1 .. through : EndsJob(log[i])
  <2>1. job \in Job /\ job.refusals \in 0 .. MaxProjectionAttempts /\ ~job.stalled
    BY DEF JobFits, JobOK, Job, Reading
  <2>2. job.refusals < MaxProjectionAttempts
    BY <2>1 DEF JobFits, JobOK
  <2>3. Refusals \in 0 .. MaxProjectionAttempts
    BY <2>1, <2>2, AttemptsAssumption DEF Refusals, Numbers
  <2>4. b \in BOOLEAN /\ e \in BOOLEAN
    OBVIOUS
  <2>5. j = [job EXCEPT !.refusals = Refusals, !.stalled = b, !.pending = e]
    BY <1>2
  <2> HIDE DEF b, e
  <2>6. j \in Job
    BY <2>1, <2>3, <2>4, <2>5 DEF Job
  <2>7. j.refusals = Refusals /\ j.stalled = b /\ j.tracked = job.tracked
        /\ j.failed = job.failed /\ j.attempts = job.attempts
    BY <2>1, <2>5 DEF Job
  <2>8. ~b => Refusals < MaxProjectionAttempts
    BY <2>3, AttemptsAssumption DEF b
  <2> QED
    BY <2>6, <2>7, <2>8 DEF JobFits, JobOK
<1> QED
  BY <1>1, <1>2

\* What a call that needs a worker does to the supervisor and to the job.
Reaches ==
    /\ sup' \in {"ready", "stopped", "spent"} /\ alive' \in BOOLEAN /\ known' \in BOOLEAN
    /\ cursor' = cursor
    /\ JobOK(job') /\ (job'.tracked => job.tracked) /\ (job'.stalled => job.stalled)
    /\ interrupted' \in InterruptedJob
    /\ \/ interrupted' = interrupted
       \/ job.tracked /\ interrupted = "no" /\ interrupted' = "pending" /\ ~job'.tracked
    /\ job.tracked /\ ~job'.tracked => interrupted' = "pending"

\* A step that ends in outcome o, the job's entry being x, whatever the worker knows.
Follows(o, x) ==
    /\ sup' = o.sup /\ alive' = o.alive /\ known' \in BOOLEAN
    /\ cursor' = cursor /\ job' = x /\ interrupted' = o.interrupted

\* A step that attaches the outcome o follows it.
LEMMA FollowsOK ==
    ASSUME DIInv, NEW j, NEW o \in Attached(j), NEW x,
           Attach(o, x) \/ \E k \in BOOLEAN : Attach([o EXCEPT !.known = k], x)
    PROVE  Follows(o, x)
<1>1. CASE Attach(o, x)
  BY <1>1, AttachedOK DEF Attach, Follows, DIInv
<1>2. CASE \E k \in BOOLEAN : Attach([o EXCEPT !.known = k], x)
  <2>1. PICK k \in BOOLEAN : Attach([o EXCEPT !.known = k], x)
    BY <1>2
  <2> DEFINE p == [o EXCEPT !.known = k]
  <2>2. p.sup = o.sup /\ p.alive = o.alive /\ p.known = k /\ p.interrupted = o.interrupted
    BY DEF Attached
  <2>3. Attach(p, x)
    BY <2>1
  <2> HIDE DEF p
  <2> QED
    BY <2>2, <2>3 DEF Attach, Follows
<1> QED
  BY <1>1, <1>2

\* A step that follows an outcome does no more than Reaches says.
LEMMA ReachesOK ==
    ASSUME DIInv, NEW j, JobOK(j), j.tracked = job.tracked, j.stalled = job.stalled,
           NEW o \in Attached(j), NEW x, Follows(o, x),
           x = o.job \/ (JobOK(x) /\ x.tracked = o.job.tracked /\ x.stalled = o.job.stalled)
    PROVE  Reaches /\ (o.job = j \/ o.job = NoJob)
<1>1. /\ o.sup \in {"ready", "stopped", "spent"} /\ o.alive \in BOOLEAN
      /\ o.known \in BOOLEAN
      /\ \/ o.job = j /\ o.interrupted = interrupted
         \/ /\ o.job = NoJob
            /\ o.interrupted = IF j.tracked /\ interrupted = "no" THEN "pending"
                               ELSE interrupted
  BY AttachedOK DEF DIInv
<1>2. JobOK(o.job)
  BY <1>1, NoJobOK
<1>3. JobOK(x) /\ x.tracked = o.job.tracked /\ x.stalled = o.job.stalled
  BY <1>2
<1>4. /\ sup' = o.sup /\ alive' = o.alive /\ known' \in BOOLEAN /\ cursor' = cursor
      /\ job' = x /\ interrupted' = o.interrupted
  BY DEF Follows
<1>5. interrupted \in InterruptedJob /\ (job.tracked => interrupted = "no")
  BY DEF DIInv, Stores, HeldFits
<1>6. CASE o.job = j /\ o.interrupted = interrupted
  BY <1>1, <1>3, <1>4, <1>5, <1>6 DEF Reaches
<1>7. CASE /\ o.job = NoJob
           /\ o.interrupted = IF j.tracked /\ interrupted = "no" THEN "pending" ELSE interrupted
  <2>1. CASE job.tracked
    BY <1>1, <1>3, <1>4, <1>5, <1>7, <2>1, NoJobOK DEF Reaches, InterruptedJob
  <2>2. CASE ~job.tracked
    BY <1>1, <1>3, <1>4, <1>5, <1>7, <2>2, NoJobOK DEF Reaches
  <2> QED
    BY <2>1, <2>2
<1> QED
  BY <1>1, <1>6, <1>7

\* Nothing has been started yet.
LEMMA InitHoldsDIInv == Init => DIInv
<1> SUFFICES ASSUME Init PROVE DIInv
  OBVIOUS
<1> USE NoJobOK DEF Init
<1>1. DeathsCounted
  BY DEF DeathsCounted
<1>2. Logs
  BY BoundsAssumption DEF Logs
<1>3. Numbers
  BY BoundsAssumption DEF Numbers
<1>4. Stores /\ Places /\ Flags
  BY DEF Stores, Places, Flags, RunStatus, DeliveryStates, InterruptedJob
<1>5. JobFits
  BY DEF JobFits, Reading
<1>6. StartFits /\ EventsPersistOnce /\ LogFits /\ CancelFits /\ HeldFits /\ RecoveryFits
  BY DEF StartFits, EventsPersistOnce, LogFits, CancelFits, HeldFits, RecoveryFits, Early, Reading
<1> QED
  BY <1>1, <1>2, <1>3, <1>4, <1>5, <1>6 DEF DIInv

-----------------------------------------------------------------------------
(* The steps, one by one.                                                 *)

\* Nothing is fetched; a cool-down goes on, or ends.
LEMMA PumpSkipKeeps == ASSUME DIInv, PumpSkip PROVE DIInv'
<1> USE DEF DIInv
<1>1. faults' \in 0 .. MaxFaults
  <2>1. faults' = faults \/ (faults < MaxFaults /\ faults' = faults + 1)
    BY DEF PumpSkip, Pumping, db, worker
  <2> QED
    BY <2>1, BoundsAssumption DEF Numbers
<1>2. /\ core = "up" /\ pump = "fetch"
      /\ pump' = "deliver"
      /\ job' = Ticked
      /\ UNCHANGED <<row, status, delivery, bound, ingested, persisted,
                    localCancels, notes, core, sup, cursor, interrupted, fetched, through,
                    start, cancel, alive, known, log, cancelling, deaths>>
  BY DEF PumpSkip, Pumping, db, worker
<1>3. JobOK(job') /\ job'.tracked = job.tracked /\ job'.stalled = job.stalled
  BY <1>2, TickedOK DEF JobFits
<1>4. Stores'
  BY <1>2, <1>3 DEF Stores, RunStatus, DeliveryStates, InterruptedJob
<1>5. Places'
  BY <1>2, <1>3 DEF Places
<1>6. Flags' /\ DeathsCounted' /\ EventsPersistOnce'
  BY <1>2, <1>3 DEF Flags, DeathsCounted, EventsPersistOnce
<1>7. Numbers' /\ Logs'
  BY <1>2, <1>3, BoundsAssumption, <1>1 DEF Numbers, Logs
<1>8. JobFits'
  BY <1>2, <1>3, NoJobOK DEF JobFits, Reading, StartFits, Early
<1>9. StartFits'
  BY <1>2, <1>3, NoJobOK DEF StartFits, Early, Stores, Places, HeldFits
<1>10. LogFits'
  BY <1>2, <1>3, NoJobOK, BoundsAssumption DEF LogFits, Reading, StartFits, Early,
     Stores, Places, Logs, Numbers, HeldFits
<1>11. CancelFits' /\ RecoveryFits'
  BY <1>2, <1>3 DEF CancelFits, RecoveryFits, StartFits, Early, HeldFits, Settled,
     Stores, Places, DeathsCounted
<1>12. HeldFits'
  BY <1>2, <1>3, NoJobOK DEF HeldFits, Settled, TerminalRun, StartFits, RecoveryFits,
     Stores, Places, Early
<1> QED
  BY <1>4, <1>5, <1>6, <1>7, <1>8, <1>9, <1>10, <1>11, <1>12

\* One more event is in the log; the run's status follows, if it is open.
LEMMA PumpProjectKeeps == ASSUME DIInv, PumpProject PROVE DIInv'
<1> USE DEF DIInv
<1>1. faults' \in 0 .. MaxFaults
  <2>1. faults' = faults \/ (faults < MaxFaults /\ faults' = faults + 1)
    BY DEF PumpProject, Pumping, memory, worker, SetStatus, AppendEvent
  <2> QED
    BY <2>1, BoundsAssumption DEF Numbers
<1>2. /\ core = "up" /\ pump = "project" /\ NextStatus # "refused"
      /\ status' = NextStatus
      /\ persisted' = Append(persisted, through + 1)
      /\ through' = through + 1
      /\ pump' = IF through + 1 = fetched THEN "acknowledge" ELSE "project"
      /\ UNCHANGED <<row, delivery, bound, ingested, localCancels, notes, core,
                    sup, job, cursor, interrupted, fetched, start, cancel, alive, known,
                    log, cancelling, deaths>>
  BY DEF PumpProject, Pumping, memory, worker, SetStatus, AppendEvent
<1>3. through + 1 \in 1 .. Len(log) /\ through + 1 \in 1 .. MaxLog
  BY <1>2, BoundsAssumption DEF LogFits, Reading, Numbers, Logs
<1>4. /\ row = "present" /\ NextStatus \in RunStatus
      /\ status \in Closed => NextStatus = status
  BY <1>2, <1>3, NextStatusOK DEF Stores, Places, Logs
<1>5. Len(persisted) = through
  BY <1>2, <1>4 DEF LogFits, Reading
<1>6. /\ persisted' \in Seq(1 .. MaxLog) /\ Len(persisted') = Len(persisted) + 1
      /\ persisted'[Len(persisted) + 1] = through + 1
      /\ \A i \in 1 .. Len(persisted) : persisted'[i] = persisted[i]
  BY <1>2, <1>3 DEF Logs
<1>7. bound => start = "done"
  BY DEF StartFits
<1>8. Stores'
  BY <1>2, <1>3, <1>4, <1>5, <1>6, <1>7 DEF Stores, RunStatus, DeliveryStates,
     InterruptedJob
<1>9. Places'
  BY <1>2, <1>3, <1>4, <1>5, <1>6, <1>7 DEF Places
<1>10. Flags' /\ DeathsCounted' /\ EventsPersistOnce'
  BY <1>2, <1>3, <1>4, <1>5, <1>6, <1>7 DEF Flags, DeathsCounted, EventsPersistOnce
<1>11. Numbers' /\ Logs'
  BY <1>2, <1>3, <1>4, <1>5, <1>6, <1>7, BoundsAssumption, <1>1 DEF Numbers, Logs
<1>12. JobFits'
  BY <1>2, <1>3, <1>4, <1>5, <1>6, <1>7, NoJobOK DEF JobFits, Reading, StartFits, Early
<1>13. StartFits'
  BY <1>2, <1>3, <1>4, <1>5, <1>6, <1>7, NoJobOK DEF StartFits, Early, Stores, Places,
     HeldFits
<1>14. LogFits'
  BY <1>2, <1>3, <1>4, <1>5, <1>6, <1>7, NoJobOK, BoundsAssumption DEF LogFits,
     Reading, StartFits, Early, Stores, Places, Logs, Numbers, HeldFits
<1>15. CancelFits' /\ RecoveryFits'
  BY <1>2, <1>4 DEF CancelFits, RecoveryFits, Closed
<1>16. HeldFits'
  BY <1>2, <1>3, <1>4, <1>5, <1>6, <1>7, NoJobOK DEF HeldFits, Settled, TerminalRun,
     StartFits, RecoveryFits, Stores, Places, Early
<1> QED
  BY <1>8, <1>9, <1>10, <1>11, <1>12, <1>13, <1>14, <1>15, <1>16

\* The batch ends early.
LEMMA PumpRefuseKeeps == ASSUME DIInv, PumpRefuse PROVE DIInv'
<1> USE DEF DIInv
<1>1. faults' \in 0 .. MaxFaults
  <2>1. faults' = faults \/ (faults < MaxFaults /\ faults' = faults + 1)
    BY DEF PumpRefuse, Pumping, db, memory, worker, Fine, Fault
  <2> QED
    BY <2>1, BoundsAssumption DEF Numbers
<1>2. /\ core = "up" /\ pump = "project"
      /\ pump' = "acknowledge"
      /\ UNCHANGED <<row, status, delivery, bound, ingested, persisted,
                    localCancels, notes, core, sup, job, cursor, interrupted, fetched,
                    through, start, cancel, alive, known, log, cancelling, deaths>>
  BY DEF PumpRefuse, Pumping, db, memory, worker, Fine, Fault
<1>3. Stores'
  BY <1>2 DEF Stores, RunStatus, DeliveryStates, InterruptedJob
<1>4. Places'
  BY <1>2 DEF Places
<1>5. Flags' /\ DeathsCounted' /\ EventsPersistOnce'
  BY <1>2 DEF Flags, DeathsCounted, EventsPersistOnce
<1>6. Numbers' /\ Logs'
  BY <1>2, BoundsAssumption, <1>1 DEF Numbers, Logs
<1>7. JobFits'
  BY <1>2, NoJobOK DEF JobFits, Reading, StartFits, Early
<1>8. StartFits'
  BY <1>2, NoJobOK DEF StartFits, Early, Stores, Places, HeldFits
<1>9. LogFits'
  BY <1>2, NoJobOK, BoundsAssumption DEF LogFits, Reading, StartFits, Early, Stores,
     Places, Logs, Numbers, HeldFits
<1>10. CancelFits' /\ RecoveryFits'
  BY <1>2 DEF CancelFits, RecoveryFits, StartFits, Early, HeldFits, Settled, Stores,
     Places, DeathsCounted
<1>11. HeldFits'
  BY <1>2, NoJobOK DEF HeldFits, Settled, TerminalRun, StartFits, RecoveryFits, Stores,
     Places, Early
<1> QED
  BY <1>3, <1>4, <1>5, <1>6, <1>7, <1>8, <1>9, <1>10, <1>11

\* The cursor moves to the end of the log.
LEMMA PumpAcknowledgeKeeps == ASSUME DIInv, PumpAcknowledge PROVE DIInv'
<1> USE DEF DIInv
<1>1. faults' \in 0 .. MaxFaults
  <2>1. faults' = faults \/ (faults < MaxFaults /\ faults' = faults + 1)
    BY DEF PumpAcknowledge, Pumping, db, worker, Acknowledged
  <2> QED
    BY <2>1, BoundsAssumption DEF Numbers
<1>2. /\ core = "up" /\ pump = "acknowledge"
      /\ pump' = "deliver"
      /\ cursor' = through /\ fetched' = 0 /\ through' = 0
      /\ job' = IF ~job.tracked THEN job
                ELSE [job EXCEPT
                        !.refusals = Refusals,
                        !.stalled = Refusals >= MaxProjectionAttempts,
                        !.pending = @ \/ \E i \in cursor + 1 .. through : EndsJob(log[i])]
      /\ UNCHANGED <<row, status, delivery, bound, ingested, persisted,
                    localCancels, notes, core, sup, interrupted, start, cancel, alive,
                    known, log, cancelling, deaths>>
  BY DEF PumpAcknowledge, Pumping, db, worker, Acknowledged
<1>3. JobOK(job') /\ job'.tracked = job.tracked
  BY <1>2, AcknowledgedOK
<1>4. Stores'
  BY <1>2, <1>3 DEF Stores, RunStatus, DeliveryStates, InterruptedJob
<1>5. Places'
  BY <1>2, <1>3 DEF Places
<1>6. Flags' /\ DeathsCounted' /\ EventsPersistOnce'
  BY <1>2, <1>3 DEF Flags, DeathsCounted, EventsPersistOnce
<1>7. Numbers' /\ Logs'
  BY <1>2, <1>3, BoundsAssumption, <1>1 DEF Numbers, Logs
<1>8. JobFits'
  BY <1>2, <1>3, NoJobOK DEF JobFits, Reading, StartFits, Early
<1>9. StartFits'
  BY <1>2, <1>3, NoJobOK DEF StartFits, Early, Stores, Places, HeldFits
<1>10. LogFits'
  BY <1>2, <1>3, NoJobOK, BoundsAssumption DEF LogFits, Reading, StartFits, Early,
     Stores, Places, Logs, Numbers, HeldFits
<1>11. CancelFits' /\ RecoveryFits'
  BY <1>2, <1>3 DEF CancelFits, RecoveryFits, StartFits, Early, HeldFits, Settled,
     Stores, Places, DeathsCounted
<1>12. HeldFits'
  BY <1>2, <1>3, NoJobOK DEF HeldFits, Settled, TerminalRun, StartFits, RecoveryFits,
     Stores, Places, Early
<1> QED
  BY <1>4, <1>5, <1>6, <1>7, <1>8, <1>9, <1>10, <1>11, <1>12

\* No job waits for its results.
LEMMA PumpNothingToDeliverKeeps == ASSUME DIInv, PumpNothingToDeliver PROVE DIInv'
<1> USE DEF DIInv
<1>1. faults' \in 0 .. MaxFaults
  <2>1. faults' = faults \/ (faults < MaxFaults /\ faults' = faults + 1)
    BY DEF PumpNothingToDeliver, Pumping, db, memory, worker
  <2> QED
    BY <2>1, BoundsAssumption DEF Numbers
<1>2. /\ core = "up" /\ pump = "deliver"
      /\ pump' = "converge"
      /\ UNCHANGED <<row, status, delivery, bound, ingested, persisted,
                    localCancels, notes, core, sup, job, cursor, interrupted, fetched,
                    through, start, cancel, alive, known, log, cancelling, deaths>>
  BY DEF PumpNothingToDeliver, Pumping, db, memory, worker
<1>3. Stores'
  BY <1>2 DEF Stores, RunStatus, DeliveryStates, InterruptedJob
<1>4. Places'
  BY <1>2 DEF Places
<1>5. Flags' /\ DeathsCounted' /\ EventsPersistOnce'
  BY <1>2 DEF Flags, DeathsCounted, EventsPersistOnce
<1>6. Numbers' /\ Logs'
  BY <1>2, BoundsAssumption, <1>1 DEF Numbers, Logs
<1>7. JobFits'
  BY <1>2, NoJobOK DEF JobFits, Reading, StartFits, Early
<1>8. StartFits'
  BY <1>2, NoJobOK DEF StartFits, Early, Stores, Places, HeldFits
<1>9. LogFits'
  BY <1>2, NoJobOK, BoundsAssumption DEF LogFits, Reading, StartFits, Early, Stores,
     Places, Logs, Numbers, HeldFits
<1>10. CancelFits' /\ RecoveryFits'
  BY <1>2 DEF CancelFits, RecoveryFits, StartFits, Early, HeldFits, Settled, Stores,
     Places, DeathsCounted
<1>11. HeldFits'
  BY <1>2, NoJobOK DEF HeldFits, Settled, TerminalRun, StartFits, RecoveryFits, Stores,
     Places, Early
<1> QED
  BY <1>3, <1>4, <1>5, <1>6, <1>7, <1>8, <1>9, <1>10, <1>11

\* The results are in, or one attempt is gone.
LEMMA PumpIngestKeeps == ASSUME DIInv, PumpIngest PROVE DIInv'
<1> USE DEF DIInv
<1>1. faults' \in 0 .. MaxFaults
  <2>1. faults' = faults \/ (faults < MaxFaults /\ faults' = faults + 1)
    BY DEF PumpIngest, Pumping, worker, SetDelivery, Fine, Fault, AfterFailure
  <2> QED
    BY <2>1, BoundsAssumption DEF Numbers
<1>2. \/ /\ core = "up" /\ pump = "ingest"
         /\ pump' = "retire"
         /\ ingested' = TRUE /\ delivery' = "delivered"
         /\ UNCHANGED <<row, status, bound, persisted, localCancels, notes, core,
                    sup, job, cursor, interrupted, fetched, through, start, cancel, alive,
                    known, log, cancelling, deaths>>
      \/ /\ core = "up" /\ pump = "ingest" /\ pump' \in {"converge", "give up"}
         /\ job' = Failed(job)
         /\ UNCHANGED <<row, status, delivery, bound, ingested, persisted,
                    localCancels, notes, core, sup, cursor, interrupted, fetched, through,
                    start, cancel, alive, known, log, cancelling, deaths>>
  BY DEF PumpIngest, Pumping, worker, SetDelivery, Fine, Fault, AfterFailure
<1>3. CASE /\ core = "up" /\ pump = "ingest"
           /\ pump' = "retire"
           /\ ingested' = TRUE /\ delivery' = "delivered"
           /\ UNCHANGED <<row, status, bound, persisted, localCancels, notes, core,
                    sup, job, cursor, interrupted, fetched, through, start, cancel, alive,
                    known, log, cancelling, deaths>>
  <2>1. Stores'
    BY <1>3 DEF Stores, RunStatus, DeliveryStates, InterruptedJob
  <2>2. Places'
    BY <1>3 DEF Places
  <2>3. Flags' /\ DeathsCounted' /\ EventsPersistOnce'
    BY <1>3 DEF Flags, DeathsCounted, EventsPersistOnce
  <2>4. Numbers' /\ Logs'
    BY <1>3, BoundsAssumption, <1>1 DEF Numbers, Logs
  <2>5. JobFits'
    BY <1>3, NoJobOK DEF JobFits, Reading, StartFits, Early
  <2>6. StartFits'
    BY <1>3, NoJobOK DEF StartFits, Early, Stores, Places, HeldFits
  <2>7. LogFits'
    BY <1>3, NoJobOK, BoundsAssumption DEF LogFits, Reading, StartFits, Early, Stores,
       Places, Logs, Numbers, HeldFits
  <2>8. CancelFits' /\ RecoveryFits'
    BY <1>3 DEF CancelFits, RecoveryFits, StartFits, Early, HeldFits, Settled, Stores,
       Places, DeathsCounted
  <2>9. HeldFits'
    BY <1>3, NoJobOK DEF HeldFits, Settled, TerminalRun, StartFits, RecoveryFits,
       Stores, Places, Early
  <2> QED
    BY <2>1, <2>2, <2>3, <2>4, <2>5, <2>6, <2>7, <2>8, <2>9
<1>4. CASE /\ core = "up" /\ pump = "ingest" /\ pump' \in {"converge", "give up"}
           /\ job' = Failed(job)
           /\ UNCHANGED <<row, status, delivery, bound, ingested, persisted,
                    localCancels, notes, core, sup, cursor, interrupted, fetched, through,
                    start, cancel, alive, known, log, cancelling, deaths>>
  <2>1. JobOK(job') /\ job'.tracked = job.tracked /\ job'.stalled = job.stalled
    BY <1>4, FailedOK DEF JobFits
  <2>2. Stores'
    BY <1>4, <2>1 DEF Stores, RunStatus, DeliveryStates, InterruptedJob
  <2>3. Places'
    BY <1>4, <2>1 DEF Places
  <2>4. Flags' /\ DeathsCounted' /\ EventsPersistOnce'
    BY <1>4, <2>1 DEF Flags, DeathsCounted, EventsPersistOnce
  <2>5. Numbers' /\ Logs'
    BY <1>4, <2>1, BoundsAssumption, <1>1 DEF Numbers, Logs
  <2>6. JobFits'
    BY <1>4, <2>1, NoJobOK DEF JobFits, Reading, StartFits, Early
  <2>7. StartFits'
    BY <1>4, <2>1, NoJobOK DEF StartFits, Early, Stores, Places, HeldFits
  <2>8. LogFits'
    BY <1>4, <2>1, NoJobOK, BoundsAssumption DEF LogFits, Reading, StartFits, Early,
       Stores, Places, Logs, Numbers, HeldFits
  <2>9. CancelFits' /\ RecoveryFits'
    BY <1>4, <2>1 DEF CancelFits, RecoveryFits, StartFits, Early, HeldFits, Settled,
       Stores, Places, DeathsCounted
  <2>10. HeldFits'
    BY <1>4, <2>1, NoJobOK DEF HeldFits, Settled, TerminalRun, StartFits, RecoveryFits,
       Stores, Places, Early
  <2> QED
    BY <2>2, <2>3, <2>4, <2>5, <2>6, <2>7, <2>8, <2>9, <2>10
<1> QED
  BY <1>2, <1>3, <1>4

\* The job is let go of, its results being in.
LEMMA PumpRetireKeeps == ASSUME DIInv, PumpRetire PROVE DIInv'
<1> USE DEF DIInv
<1>1. faults' \in 0 .. MaxFaults
  <2>1. faults' = faults \/ (faults < MaxFaults /\ faults' = faults + 1)
    BY DEF PumpRetire, Pumping, db, worker
  <2> QED
    BY <2>1, BoundsAssumption DEF Numbers
<1>2. /\ core = "up" /\ pump = "retire"
      /\ pump' = "converge"
      /\ job' = NoJob
      /\ UNCHANGED <<row, status, delivery, bound, ingested, persisted,
                    localCancels, notes, core, sup, cursor, interrupted, fetched, through,
                    start, cancel, alive, known, log, cancelling, deaths>>
  BY DEF PumpRetire, Pumping, db, worker
<1>3. Stores'
  BY <1>2 DEF Stores, RunStatus, DeliveryStates, InterruptedJob
<1>4. Places'
  BY <1>2 DEF Places
<1>5. Flags' /\ DeathsCounted' /\ EventsPersistOnce'
  BY <1>2 DEF Flags, DeathsCounted, EventsPersistOnce
<1>6. Numbers' /\ Logs'
  BY <1>2, BoundsAssumption, <1>1 DEF Numbers, Logs
<1>7. JobFits'
  BY <1>2, NoJobOK DEF JobFits, Reading, StartFits, Early
<1>8. StartFits'
  BY <1>2, NoJobOK DEF StartFits, Early, Stores, Places, HeldFits
<1>9. LogFits'
  BY <1>2, NoJobOK, BoundsAssumption DEF LogFits, Reading, StartFits, Early, Stores,
     Places, Logs, Numbers, HeldFits
<1>10. CancelFits' /\ RecoveryFits'
  BY <1>2 DEF CancelFits, RecoveryFits, StartFits, Early, HeldFits, Settled, Stores,
     Places, DeathsCounted
<1>11. HeldFits'
  BY <1>2, NoJobOK DEF HeldFits, Settled, TerminalRun, StartFits, RecoveryFits, Stores,
     Places, Early
<1> QED
  BY <1>3, <1>4, <1>5, <1>6, <1>7, <1>8, <1>9, <1>10, <1>11

\* The failed delivery is recorded, or is not.
LEMMA PumpGiveUpKeeps == ASSUME DIInv, PumpGiveUp PROVE DIInv'
<1> USE DEF DIInv
<1>1. faults' \in 0 .. MaxFaults
  <2>1. faults' = faults \/ (faults < MaxFaults /\ faults' = faults + 1)
    BY DEF PumpGiveUp, Pumping, memory, worker, SetDelivery, Fine, Fault
  <2> QED
    BY <2>1, BoundsAssumption DEF Numbers
<1>2. /\ core = "up" /\ pump = "give up"
      /\ pump' = "converge"
      /\ delivery' \in {delivery, "failed"}
      /\ UNCHANGED <<row, status, bound, ingested, persisted, localCancels,
                    notes, core, sup, job, cursor, interrupted, fetched, through, start,
                    cancel, alive, known, log, cancelling, deaths>>
  BY DEF PumpGiveUp, Pumping, memory, worker, SetDelivery, Fine, Fault
<1>3. Stores'
  BY <1>2 DEF Stores, RunStatus, DeliveryStates, InterruptedJob
<1>4. Places'
  BY <1>2 DEF Places
<1>5. Flags' /\ DeathsCounted' /\ EventsPersistOnce'
  BY <1>2 DEF Flags, DeathsCounted, EventsPersistOnce
<1>6. Numbers' /\ Logs'
  BY <1>2, BoundsAssumption, <1>1 DEF Numbers, Logs
<1>7. JobFits'
  BY <1>2, NoJobOK DEF JobFits, Reading, StartFits, Early
<1>8. StartFits'
  BY <1>2, NoJobOK DEF StartFits, Early, Stores, Places, HeldFits
<1>9. LogFits'
  BY <1>2, NoJobOK, BoundsAssumption DEF LogFits, Reading, StartFits, Early, Stores,
     Places, Logs, Numbers, HeldFits
<1>10. CancelFits' /\ RecoveryFits'
  BY <1>2 DEF CancelFits, RecoveryFits, StartFits, Early, HeldFits, Settled, Stores,
     Places, DeathsCounted
<1>11. HeldFits'
  BY <1>2, NoJobOK DEF HeldFits, Settled, TerminalRun, StartFits, RecoveryFits, Stores,
     Places, Early
<1> QED
  BY <1>3, <1>4, <1>5, <1>6, <1>7, <1>8, <1>9, <1>10, <1>11

\* A lost job's run is converged, unless the write fails.
LEMMA PumpConvergeKeeps == ASSUME DIInv, PumpConverge PROVE DIInv'
<1> USE DEF DIInv
<1>1. faults' \in 0 .. MaxFaults
  <2>1. faults' = faults \/ (faults < MaxFaults /\ faults' = faults + 1)
    BY DEF PumpConverge, Pumping, db, memory, worker, Fine, Fault, PendingInterruption
  <2> QED
    BY <2>1, BoundsAssumption DEF Numbers
<1>2. \/ /\ core = "up" /\ pump = "converge"
         /\ pump' = "fetch"
         /\ UNCHANGED <<row, status, delivery, bound, ingested, persisted,
                    localCancels, notes, core, sup, job, cursor, interrupted, fetched,
                    through, start, cancel, alive, known, log, cancelling, deaths>>
      \/ /\ core = "up" /\ pump = "converge" /\ interrupted = "pending"
         /\ pump' = "confirm"
         /\ ConvergeWorkerLost
         /\ UNCHANGED <<core, sup, job, cursor, interrupted, fetched, through,
                    start, cancel, alive, known, log, cancelling, deaths>>
  BY DEF PumpConverge, Pumping, db, memory, worker, Fine, Fault, PendingInterruption
<1>3. CASE /\ core = "up" /\ pump = "converge"
           /\ pump' = "fetch"
           /\ UNCHANGED <<row, status, delivery, bound, ingested, persisted,
                    localCancels, notes, core, sup, job, cursor, interrupted, fetched,
                    through, start, cancel, alive, known, log, cancelling, deaths>>
  <2>1. Stores'
    BY <1>3 DEF Stores, RunStatus, DeliveryStates, InterruptedJob
  <2>2. Places'
    BY <1>3 DEF Places
  <2>3. Flags' /\ DeathsCounted' /\ EventsPersistOnce'
    BY <1>3 DEF Flags, DeathsCounted, EventsPersistOnce
  <2>4. Numbers' /\ Logs'
    BY <1>3, BoundsAssumption, <1>1 DEF Numbers, Logs
  <2>5. JobFits'
    BY <1>3, NoJobOK DEF JobFits, Reading, StartFits, Early
  <2>6. StartFits'
    BY <1>3, NoJobOK DEF StartFits, Early, Stores, Places, HeldFits
  <2>7. LogFits'
    BY <1>3, NoJobOK, BoundsAssumption DEF LogFits, Reading, StartFits, Early, Stores,
       Places, Logs, Numbers, HeldFits
  <2>8. CancelFits' /\ RecoveryFits'
    BY <1>3 DEF CancelFits, RecoveryFits, StartFits, Early, HeldFits, Settled, Stores,
       Places, DeathsCounted
  <2>9. HeldFits'
    BY <1>3, NoJobOK DEF HeldFits, Settled, TerminalRun, StartFits, RecoveryFits,
       Stores, Places, Early
  <2> QED
    BY <2>1, <2>2, <2>3, <2>4, <2>5, <2>6, <2>7, <2>8, <2>9
<1>4. CASE /\ core = "up" /\ pump = "converge" /\ interrupted = "pending"
           /\ pump' = "confirm"
           /\ ConvergeWorkerLost
           /\ UNCHANGED <<core, sup, job, cursor, interrupted, fetched, through,
                    start, cancel, alive, known, log, cancelling, deaths>>
  <2>1. /\ status' \in RunStatus /\ delivery' \in DeliveryStates /\ localCancels' \in Nat
        /\ UNCHANGED <<row, bound, ingested, persisted, notes>>
        /\ row = "present" => Settled'
        /\ ingested /\ delivery # "pending" => delivery' # "pending"
        /\ Settled => Settled'
        /\ CancelFits'
    BY <1>4, ConvergeOK
  <2>2. Stores'
    BY <1>4, <2>1 DEF Stores, RunStatus, DeliveryStates, InterruptedJob
  <2>3. Places'
    BY <1>4, <2>1 DEF Places
  <2>4. Flags' /\ DeathsCounted' /\ EventsPersistOnce'
    BY <1>4, <2>1 DEF Flags, DeathsCounted, EventsPersistOnce
  <2>5. Numbers' /\ Logs'
    BY <1>4, <2>1, BoundsAssumption, <1>1 DEF Numbers, Logs
  <2>6. JobFits'
    BY <1>4, <2>1, NoJobOK DEF JobFits, Reading, StartFits, Early
  <2>7. StartFits'
    BY <1>4, <2>1, NoJobOK DEF StartFits, Early, Stores, Places, HeldFits
  <2>8. LogFits'
    BY <1>4, <2>1, NoJobOK, BoundsAssumption DEF LogFits, Reading, StartFits, Early,
       Stores, Places, Logs, Numbers, HeldFits
  <2>9. CancelFits' /\ RecoveryFits'
    BY <1>4, <2>1 DEF CancelFits, RecoveryFits, StartFits, Early, HeldFits, Settled,
       Stores, Places, DeathsCounted
  <2>10. HeldFits'
    BY <1>4, <2>1, NoJobOK DEF HeldFits, Settled, TerminalRun, StartFits, RecoveryFits,
       Stores, Places, Early
  <2> QED
    BY <2>2, <2>3, <2>4, <2>5, <2>6, <2>7, <2>8, <2>9, <2>10
<1> QED
  BY <1>2, <1>3, <1>4

\* The interruption is off the list, its run being settled.
LEMMA PumpConfirmKeeps == ASSUME DIInv, PumpConfirm PROVE DIInv'
<1> USE DEF DIInv
<1>1. faults' \in 0 .. MaxFaults
  <2>1. faults' = faults \/ (faults < MaxFaults /\ faults' = faults + 1)
    BY DEF PumpConfirm, Pumping, db, worker
  <2> QED
    BY <2>1, BoundsAssumption DEF Numbers
<1>2. /\ core = "up" /\ pump = "confirm"
      /\ pump' = "fetch"
      /\ interrupted' = "converged"
      /\ UNCHANGED <<row, status, delivery, bound, ingested, persisted,
                    localCancels, notes, core, sup, job, cursor, fetched, through, start,
                    cancel, alive, known, log, cancelling, deaths>>
  BY DEF PumpConfirm, Pumping, db, worker
<1>3. Stores'
  BY <1>2 DEF Stores, RunStatus, DeliveryStates, InterruptedJob
<1>4. Places'
  BY <1>2 DEF Places
<1>5. Flags' /\ DeathsCounted' /\ EventsPersistOnce'
  BY <1>2 DEF Flags, DeathsCounted, EventsPersistOnce
<1>6. Numbers' /\ Logs'
  BY <1>2, BoundsAssumption, <1>1 DEF Numbers, Logs
<1>7. JobFits'
  BY <1>2, NoJobOK DEF JobFits, Reading, StartFits, Early
<1>8. StartFits'
  BY <1>2, NoJobOK DEF StartFits, Early, Stores, Places, HeldFits
<1>9. LogFits'
  BY <1>2, NoJobOK, BoundsAssumption DEF LogFits, Reading, StartFits, Early, Stores,
     Places, Logs, Numbers, HeldFits
<1>10. CancelFits' /\ RecoveryFits'
  BY <1>2 DEF CancelFits, RecoveryFits, StartFits, Early, HeldFits, Settled, Stores,
     Places, DeathsCounted
<1>11. HeldFits'
  BY <1>2, NoJobOK DEF HeldFits, Settled, TerminalRun, StartFits, RecoveryFits, Stores,
     Places, Early
<1> QED
  BY <1>3, <1>4, <1>5, <1>6, <1>7, <1>8, <1>9, <1>10, <1>11

\* The row appears.
LEMMA StartInsertKeeps == ASSUME DIInv, StartInsert PROVE DIInv'
<1> USE DEF DIInv
<1>1. faults' \in 0 .. MaxFaults
  <2>1. faults' = faults \/ (faults < MaxFaults /\ faults' = faults + 1)
    BY DEF StartInsert, memory, cycle, worker
  <2> QED
    BY <2>1, BoundsAssumption DEF Numbers
<1>2. /\ core = "up" /\ start = "idle"
      /\ row' = "present" /\ start' = "inserted"
      /\ UNCHANGED <<status, delivery, bound, ingested, persisted, localCancels,
                    notes, core, sup, job, cursor, interrupted, pump, fetched, through,
                    cancel, alive, known, log, cancelling, deaths>>
  BY DEF StartInsert, memory, cycle, worker
<1>3. /\ Len(persisted) = 0 /\ persisted = <<>> /\ cursor = 0
      /\ pump \notin Reading /\ ~job.tracked
  BY <1>2 DEF StartFits, Early, Reading
<1>4. Stores'
  BY <1>2, <1>3 DEF Stores, RunStatus, DeliveryStates, InterruptedJob
<1>5. Places'
  BY <1>2, <1>3 DEF Places
<1>6. Flags' /\ DeathsCounted' /\ EventsPersistOnce'
  BY <1>2, <1>3 DEF Flags, DeathsCounted, EventsPersistOnce
<1>7. Numbers' /\ Logs'
  BY <1>2, <1>3, BoundsAssumption, <1>1 DEF Numbers, Logs
<1>8. JobFits'
  BY <1>2, <1>3, NoJobOK DEF JobFits, Reading, StartFits, Early
<1>9. StartFits'
  BY <1>2, <1>3, NoJobOK DEF StartFits, Early, Stores, Places, HeldFits
<1>10. LogFits'
  BY <1>2, <1>3 DEF LogFits
<1>11. CancelFits' /\ RecoveryFits'
  BY <1>2, <1>3 DEF CancelFits, RecoveryFits, StartFits, Early, HeldFits, Settled,
     Stores, Places, DeathsCounted
<1>12. HeldFits'
  BY <1>2, <1>3, NoJobOK DEF HeldFits, Settled, TerminalRun, StartFits, RecoveryFits,
     Stores, Places, Early
<1> QED
  BY <1>4, <1>5, <1>6, <1>7, <1>8, <1>9, <1>10, <1>11, <1>12

\* Nobody has the job: the row goes, or the run is closed as failed.
LEMMA StartCleanupKeeps == ASSUME DIInv, StartCleanup PROVE DIInv'
<1> USE DEF DIInv
<1>1. faults' \in 0 .. MaxFaults
  <2>1. faults' = faults \/ (faults < MaxFaults /\ faults' = faults + 1)
    BY DEF StartCleanup, memory, cycle, worker, SetStatus, Fine, Fault, Deleted
  <2> QED
    BY <2>1, BoundsAssumption DEF Numbers
<1>2. \/ /\ core = "up" /\ start = "refused"
         /\ row' = "deleted" /\ persisted' = <<>> /\ start' = "done"
         /\ UNCHANGED <<status, delivery, bound, ingested, localCancels, notes,
                    core, sup, job, cursor, interrupted, pump, fetched, through, cancel,
                    alive, known, log, cancelling, deaths>>
      \/ /\ core = "up" /\ start = "refused"
         /\ status' = "failed" /\ start' = "done"
         /\ UNCHANGED <<row, delivery, bound, ingested, persisted, localCancels,
                    notes, core, sup, job, cursor, interrupted, pump, fetched, through,
                    cancel, alive, known, log, cancelling, deaths>>
  BY DEF StartCleanup, memory, cycle, worker, SetStatus, Fine, Fault, Deleted
<1>3. CASE /\ core = "up" /\ start = "refused"
           /\ row' = "deleted" /\ persisted' = <<>> /\ start' = "done"
           /\ UNCHANGED <<status, delivery, bound, ingested, localCancels, notes,
                    core, sup, job, cursor, interrupted, pump, fetched, through, cancel,
                    alive, known, log, cancelling, deaths>>
  <2>1. Len(persisted') = 0
    BY <1>3
  <2>2. Stores'
    BY <1>3, <2>1 DEF Stores, RunStatus, DeliveryStates, InterruptedJob
  <2>3. Places'
    BY <1>3, <2>1 DEF Places
  <2>4. Flags' /\ DeathsCounted' /\ EventsPersistOnce'
    BY <1>3, <2>1 DEF Flags, DeathsCounted, EventsPersistOnce
  <2>5. Numbers' /\ Logs'
    BY <1>3, <2>1, BoundsAssumption, <1>1 DEF Numbers, Logs
  <2>6. JobFits'
    BY <1>3, <2>1, NoJobOK DEF JobFits, Reading, StartFits, Early
  <2>7. StartFits'
    BY <1>3, <2>1, NoJobOK DEF StartFits, Early, Stores, Places, HeldFits
  <2>8. LogFits'
    BY <1>3, <2>1, NoJobOK, BoundsAssumption DEF LogFits, Reading, StartFits, Early,
       Stores, Places, Logs, Numbers, HeldFits
  <2>9. CancelFits' /\ RecoveryFits'
    BY <1>3, <2>1 DEF CancelFits, RecoveryFits, StartFits, Early, HeldFits, Settled,
       Stores, Places, DeathsCounted
  <2>10. HeldFits'
    BY <1>3, <2>1, NoJobOK DEF HeldFits, Settled, TerminalRun, StartFits, RecoveryFits,
       Stores, Places, Early
  <2> QED
    BY <2>2, <2>3, <2>4, <2>5, <2>6, <2>7, <2>8, <2>9, <2>10
<1>4. CASE /\ core = "up" /\ start = "refused"
           /\ status' = "failed" /\ start' = "done"
           /\ UNCHANGED <<row, delivery, bound, ingested, persisted, localCancels,
                    notes, core, sup, job, cursor, interrupted, pump, fetched, through,
                    cancel, alive, known, log, cancelling, deaths>>
  <2>1. Stores'
    BY <1>4 DEF Stores, RunStatus, DeliveryStates, InterruptedJob
  <2>2. Places'
    BY <1>4 DEF Places
  <2>3. Flags' /\ DeathsCounted' /\ EventsPersistOnce'
    BY <1>4 DEF Flags, DeathsCounted, EventsPersistOnce
  <2>4. Numbers' /\ Logs'
    BY <1>4, BoundsAssumption, <1>1 DEF Numbers, Logs
  <2>5. JobFits'
    BY <1>4, NoJobOK DEF JobFits, Reading, StartFits, Early
  <2>6. StartFits'
    BY <1>4, NoJobOK DEF StartFits, Early, Stores, Places, HeldFits
  <2>7. LogFits'
    BY <1>4, NoJobOK, BoundsAssumption DEF LogFits, Reading, StartFits, Early, Stores,
       Places, Logs, Numbers, HeldFits
  <2>8. CancelFits' /\ RecoveryFits'
    BY <1>4 DEF CancelFits, RecoveryFits, StartFits, Early, HeldFits, Settled, Stores,
       Places, DeathsCounted
  <2>9. HeldFits'
    BY <1>4, NoJobOK DEF HeldFits, Settled, TerminalRun, StartFits, RecoveryFits,
       Stores, Places, Early
  <2> QED
    BY <2>1, <2>2, <2>3, <2>4, <2>5, <2>6, <2>7, <2>8, <2>9
<1> QED
  BY <1>2, <1>3, <1>4

\* The run is bound to the tracked job.
LEMMA StartBindKeeps == ASSUME DIInv, StartBind PROVE DIInv'
<1> USE DEF DIInv
<1>1. faults' \in 0 .. MaxFaults
  <2>1. faults' = faults \/ (faults < MaxFaults /\ faults' = faults + 1)
    BY DEF StartBind, memory, cycle, worker, BindJob, Fine, Fault
  <2> QED
    BY <2>1, BoundsAssumption DEF Numbers
<1>2. \/ /\ core = "up" /\ start = "submitted"
         /\ bound' = TRUE /\ start' = "done"
         /\ UNCHANGED <<row, status, delivery, ingested, persisted, localCancels,
                    notes, core, sup, job, cursor, interrupted, pump, fetched, through,
                    cancel, alive, known, log, cancelling, deaths>>
      \/ /\ core = "up" /\ start = "submitted"
         /\ start' = "unbound"
         /\ UNCHANGED <<row, status, delivery, bound, ingested, persisted,
                    localCancels, notes, core, sup, job, cursor, interrupted, pump,
                    fetched, through, cancel, alive, known, log, cancelling, deaths>>
  BY DEF StartBind, memory, cycle, worker, BindJob, Fine, Fault
<1>3. CASE /\ core = "up" /\ start = "submitted"
           /\ bound' = TRUE /\ start' = "done"
           /\ UNCHANGED <<row, status, delivery, ingested, persisted, localCancels,
                    notes, core, sup, job, cursor, interrupted, pump, fetched, through,
                    cancel, alive, known, log, cancelling, deaths>>
  <2>1. Stores'
    BY <1>3 DEF Stores, RunStatus, DeliveryStates, InterruptedJob
  <2>2. Places'
    BY <1>3 DEF Places
  <2>3. Flags' /\ DeathsCounted' /\ EventsPersistOnce'
    BY <1>3 DEF Flags, DeathsCounted, EventsPersistOnce
  <2>4. Numbers' /\ Logs'
    BY <1>3, BoundsAssumption, <1>1 DEF Numbers, Logs
  <2>5. JobFits'
    BY <1>3, NoJobOK DEF JobFits, Reading, StartFits, Early
  <2>6. StartFits'
    BY <1>3, NoJobOK DEF StartFits, Early, Stores, Places, HeldFits
  <2>7. LogFits'
    BY <1>3, NoJobOK, BoundsAssumption DEF LogFits, Reading, StartFits, Early, Stores,
       Places, Logs, Numbers, HeldFits
  <2>8. CancelFits' /\ RecoveryFits'
    BY <1>3 DEF CancelFits, RecoveryFits, StartFits, Early, HeldFits, Settled, Stores,
       Places, DeathsCounted
  <2>9. HeldFits'
    BY <1>3, NoJobOK DEF HeldFits, Settled, TerminalRun, StartFits, RecoveryFits,
       Stores, Places, Early
  <2> QED
    BY <2>1, <2>2, <2>3, <2>4, <2>5, <2>6, <2>7, <2>8, <2>9
<1>4. CASE /\ core = "up" /\ start = "submitted"
           /\ start' = "unbound"
           /\ UNCHANGED <<row, status, delivery, bound, ingested, persisted,
                    localCancels, notes, core, sup, job, cursor, interrupted, pump,
                    fetched, through, cancel, alive, known, log, cancelling, deaths>>
  <2>1. Stores'
    BY <1>4 DEF Stores, RunStatus, DeliveryStates, InterruptedJob
  <2>2. Places'
    BY <1>4 DEF Places
  <2>3. Flags' /\ DeathsCounted' /\ EventsPersistOnce'
    BY <1>4 DEF Flags, DeathsCounted, EventsPersistOnce
  <2>4. Numbers' /\ Logs'
    BY <1>4, BoundsAssumption, <1>1 DEF Numbers, Logs
  <2>5. JobFits'
    BY <1>4, NoJobOK DEF JobFits, Reading, StartFits, Early
  <2>6. StartFits'
    BY <1>4, NoJobOK DEF StartFits, Early, Stores, Places, HeldFits
  <2>7. LogFits'
    BY <1>4, NoJobOK, BoundsAssumption DEF LogFits, Reading, StartFits, Early, Stores,
       Places, Logs, Numbers, HeldFits
  <2>8. CancelFits' /\ RecoveryFits'
    BY <1>4 DEF CancelFits, RecoveryFits, StartFits, Early, HeldFits, Settled, Stores,
       Places, DeathsCounted
  <2>9. HeldFits'
    BY <1>4, NoJobOK DEF HeldFits, Settled, TerminalRun, StartFits, RecoveryFits,
       Stores, Places, Early
  <2> QED
    BY <2>1, <2>2, <2>3, <2>4, <2>5, <2>6, <2>7, <2>8, <2>9
<1> QED
  BY <1>2, <1>3, <1>4

\* An unbound run's row goes, or stays behind.
LEMMA StartDeleteKeeps == ASSUME DIInv, StartDelete PROVE DIInv'
<1> USE DEF DIInv
<1>1. faults' \in 0 .. MaxFaults
  <2>1. faults' = faults \/ (faults < MaxFaults /\ faults' = faults + 1)
    BY DEF StartDelete, db, memory, cycle, worker, Fine, Fault, Deleted
  <2> QED
    BY <2>1, BoundsAssumption DEF Numbers
<1>2. \/ /\ core = "up" /\ start = "undo"
         /\ row' = "deleted" /\ persisted' = <<>> /\ start' = "done"
         /\ UNCHANGED <<status, delivery, bound, ingested, localCancels, notes,
                    core, sup, job, cursor, interrupted, pump, fetched, through, cancel,
                    alive, known, log, cancelling, deaths>>
      \/ /\ core = "up" /\ start = "undo"
         /\ start' = "done"
         /\ UNCHANGED <<row, status, delivery, bound, ingested, persisted,
                    localCancels, notes, core, sup, job, cursor, interrupted, pump,
                    fetched, through, cancel, alive, known, log, cancelling, deaths>>
  BY DEF StartDelete, db, memory, cycle, worker, Fine, Fault, Deleted
<1>3. CASE /\ core = "up" /\ start = "undo"
           /\ row' = "deleted" /\ persisted' = <<>> /\ start' = "done"
           /\ UNCHANGED <<status, delivery, bound, ingested, localCancels, notes,
                    core, sup, job, cursor, interrupted, pump, fetched, through, cancel,
                    alive, known, log, cancelling, deaths>>
  <2>1. Len(persisted') = 0
    BY <1>3
  <2>2. Stores'
    BY <1>3, <2>1 DEF Stores, RunStatus, DeliveryStates, InterruptedJob
  <2>3. Places'
    BY <1>3, <2>1 DEF Places
  <2>4. Flags' /\ DeathsCounted' /\ EventsPersistOnce'
    BY <1>3, <2>1 DEF Flags, DeathsCounted, EventsPersistOnce
  <2>5. Numbers' /\ Logs'
    BY <1>3, <2>1, BoundsAssumption, <1>1 DEF Numbers, Logs
  <2>6. JobFits'
    BY <1>3, <2>1, NoJobOK DEF JobFits, Reading, StartFits, Early
  <2>7. StartFits'
    BY <1>3, <2>1, NoJobOK DEF StartFits, Early, Stores, Places, HeldFits
  <2>8. LogFits'
    BY <1>3, <2>1, NoJobOK, BoundsAssumption DEF LogFits, Reading, StartFits, Early,
       Stores, Places, Logs, Numbers, HeldFits
  <2>9. CancelFits' /\ RecoveryFits'
    BY <1>3, <2>1 DEF CancelFits, RecoveryFits, StartFits, Early, HeldFits, Settled,
       Stores, Places, DeathsCounted
  <2>10. HeldFits'
    BY <1>3, <2>1, NoJobOK DEF HeldFits, Settled, TerminalRun, StartFits, RecoveryFits,
       Stores, Places, Early
  <2> QED
    BY <2>2, <2>3, <2>4, <2>5, <2>6, <2>7, <2>8, <2>9, <2>10
<1>4. CASE /\ core = "up" /\ start = "undo"
           /\ start' = "done"
           /\ UNCHANGED <<row, status, delivery, bound, ingested, persisted,
                    localCancels, notes, core, sup, job, cursor, interrupted, pump,
                    fetched, through, cancel, alive, known, log, cancelling, deaths>>
  <2>1. Stores'
    BY <1>4 DEF Stores, RunStatus, DeliveryStates, InterruptedJob
  <2>2. Places'
    BY <1>4 DEF Places
  <2>3. Flags' /\ DeathsCounted' /\ EventsPersistOnce'
    BY <1>4 DEF Flags, DeathsCounted, EventsPersistOnce
  <2>4. Numbers' /\ Logs'
    BY <1>4, BoundsAssumption, <1>1 DEF Numbers, Logs
  <2>5. JobFits'
    BY <1>4, NoJobOK DEF JobFits, Reading, StartFits, Early
  <2>6. StartFits'
    BY <1>4, NoJobOK DEF StartFits, Early, Stores, Places, HeldFits
  <2>7. LogFits'
    BY <1>4, NoJobOK, BoundsAssumption DEF LogFits, Reading, StartFits, Early, Stores,
       Places, Logs, Numbers, HeldFits
  <2>8. CancelFits' /\ RecoveryFits'
    BY <1>4 DEF CancelFits, RecoveryFits, StartFits, Early, HeldFits, Settled, Stores,
       Places, DeathsCounted
  <2>9. HeldFits'
    BY <1>4, NoJobOK DEF HeldFits, Settled, TerminalRun, StartFits, RecoveryFits,
       Stores, Places, Early
  <2> QED
    BY <2>1, <2>2, <2>3, <2>4, <2>5, <2>6, <2>7, <2>8, <2>9
<1> QED
  BY <1>2, <1>3, <1>4

\* A run whose job the worker does not know is converged.
LEMMA CancelConvergeKeeps == ASSUME DIInv, CancelConverge PROVE DIInv'
<1> USE DEF DIInv
<1>1. faults' \in 0 .. MaxFaults
  <2>1. faults' = faults \/ (faults < MaxFaults /\ faults' = faults + 1)
    BY DEF CancelConverge, db, memory, cycle, worker, Fine, Fault
  <2> QED
    BY <2>1, BoundsAssumption DEF Numbers
<1>2. \/ /\ core = "up" /\ cancel = "gone"
         /\ cancel' = "failed"
         /\ UNCHANGED <<row, status, delivery, bound, ingested, persisted,
                    localCancels, notes, core, sup, job, cursor, interrupted, pump,
                    fetched, through, start, alive, known, log, cancelling, deaths>>
      \/ /\ core = "up" /\ cancel = "gone"
         /\ cancel' = "done"
         /\ ConvergeWorkerLost
         /\ UNCHANGED <<core, sup, job, cursor, interrupted, pump, fetched,
                    through, start, alive, known, log, cancelling, deaths>>
  BY DEF CancelConverge, db, memory, cycle, worker, Fine, Fault
<1>3. CASE /\ core = "up" /\ cancel = "gone"
           /\ cancel' = "failed"
           /\ UNCHANGED <<row, status, delivery, bound, ingested, persisted,
                    localCancels, notes, core, sup, job, cursor, interrupted, pump,
                    fetched, through, start, alive, known, log, cancelling, deaths>>
  <2>1. Stores'
    BY <1>3 DEF Stores, RunStatus, DeliveryStates, InterruptedJob
  <2>2. Places'
    BY <1>3 DEF Places
  <2>3. Flags' /\ DeathsCounted' /\ EventsPersistOnce'
    BY <1>3 DEF Flags, DeathsCounted, EventsPersistOnce
  <2>4. Numbers' /\ Logs'
    BY <1>3, BoundsAssumption, <1>1 DEF Numbers, Logs
  <2>5. JobFits'
    BY <1>3, NoJobOK DEF JobFits, Reading, StartFits, Early
  <2>6. StartFits'
    BY <1>3, NoJobOK DEF StartFits, Early, Stores, Places, HeldFits
  <2>7. LogFits'
    BY <1>3, NoJobOK, BoundsAssumption DEF LogFits, Reading, StartFits, Early, Stores,
       Places, Logs, Numbers, HeldFits
  <2>8. CancelFits' /\ RecoveryFits'
    BY <1>3 DEF CancelFits, RecoveryFits, StartFits, Early, HeldFits, Settled, Stores,
       Places, DeathsCounted
  <2>9. HeldFits'
    BY <1>3, NoJobOK DEF HeldFits, Settled, TerminalRun, StartFits, RecoveryFits,
       Stores, Places, Early
  <2> QED
    BY <2>1, <2>2, <2>3, <2>4, <2>5, <2>6, <2>7, <2>8, <2>9
<1>4. CASE /\ core = "up" /\ cancel = "gone"
           /\ cancel' = "done"
           /\ ConvergeWorkerLost
           /\ UNCHANGED <<core, sup, job, cursor, interrupted, pump, fetched,
                    through, start, alive, known, log, cancelling, deaths>>
  <2>1. /\ status' \in RunStatus /\ delivery' \in DeliveryStates /\ localCancels' \in Nat
        /\ UNCHANGED <<row, bound, ingested, persisted, notes>>
        /\ row = "present" => Settled'
        /\ ingested /\ delivery # "pending" => delivery' # "pending"
        /\ Settled => Settled'
        /\ CancelFits'
    BY <1>4, ConvergeOK
  <2>2. Stores'
    BY <1>4, <2>1 DEF Stores, RunStatus, DeliveryStates, InterruptedJob
  <2>3. Places'
    BY <1>4, <2>1 DEF Places
  <2>4. Flags' /\ DeathsCounted' /\ EventsPersistOnce'
    BY <1>4, <2>1 DEF Flags, DeathsCounted, EventsPersistOnce
  <2>5. Numbers' /\ Logs'
    BY <1>4, <2>1, BoundsAssumption, <1>1 DEF Numbers, Logs
  <2>6. JobFits'
    BY <1>4, <2>1, NoJobOK DEF JobFits, Reading, StartFits, Early
  <2>7. StartFits'
    BY <1>4, <2>1, NoJobOK DEF StartFits, Early, Stores, Places, HeldFits
  <2>8. LogFits'
    BY <1>4, <2>1, NoJobOK, BoundsAssumption DEF LogFits, Reading, StartFits, Early,
       Stores, Places, Logs, Numbers, HeldFits
  <2>9. CancelFits' /\ RecoveryFits'
    BY <1>4, <2>1 DEF CancelFits, RecoveryFits, StartFits, Early, HeldFits, Settled,
       Stores, Places, DeathsCounted
  <2>10. HeldFits'
    BY <1>4, <2>1, NoJobOK DEF HeldFits, Settled, TerminalRun, StartFits, RecoveryFits,
       Stores, Places, Early
  <2> QED
    BY <2>2, <2>3, <2>4, <2>5, <2>6, <2>7, <2>8, <2>9, <2>10
<1> QED
  BY <1>2, <1>3, <1>4

\* The worker's log grows.
LEMMA PublishKeeps == ASSUME DIInv, Publish PROVE DIInv'
<1> USE DEF DIInv
<1>1. faults' \in 0 .. MaxFaults
  <2>1. faults' = faults \/ (faults < MaxFaults /\ faults' = faults + 1)
    BY DEF Publish, db, memory, cycle
  <2> QED
    BY <2>1, BoundsAssumption DEF Numbers
<1>2. /\ Len(log) < MaxLog
      /\ \E e \in NextEvents : log' = Append(log, e)
      /\ UNCHANGED <<row, status, delivery, bound, ingested, persisted,
                    localCancels, notes, core, sup, job, cursor, interrupted, pump,
                    fetched, through, start, cancel, alive, known, cancelling, deaths>>
  BY DEF Publish, db, memory, cycle
<1>3. NextEvents \subseteq EventType
  BY DEF NextEvents, EventType, RunEnd
<1>4. log' \in Seq(EventType) /\ Len(log') = Len(log) + 1 /\ Len(log) \in Nat
  BY <1>2, <1>3 DEF Logs
<1>5. fetched <= Len(log) => fetched <= Len(log')
  BY <1>4, BoundsAssumption DEF Numbers
<1>6. Stores'
  BY <1>2, <1>3, <1>4, <1>5 DEF Stores, RunStatus, DeliveryStates, InterruptedJob
<1>7. Places'
  BY <1>2, <1>3, <1>4, <1>5 DEF Places
<1>8. Flags' /\ DeathsCounted' /\ EventsPersistOnce'
  BY <1>2, <1>3, <1>4, <1>5 DEF Flags, DeathsCounted, EventsPersistOnce
<1>9. Numbers' /\ Logs'
  BY <1>2, <1>3, <1>4, <1>5, BoundsAssumption, <1>1 DEF Numbers, Logs
<1>10. JobFits'
  BY <1>2, <1>3, <1>4, <1>5, NoJobOK DEF JobFits, Reading, StartFits, Early
<1>11. StartFits'
  BY <1>2, <1>3, <1>4, <1>5, NoJobOK DEF StartFits, Early, Stores, Places, HeldFits
<1>12. LogFits'
  BY <1>2, <1>5 DEF LogFits
<1>13. CancelFits' /\ RecoveryFits'
  BY <1>2, <1>3, <1>4, <1>5 DEF CancelFits, RecoveryFits, StartFits, Early, HeldFits,
     Settled, Stores, Places, DeathsCounted
<1>14. HeldFits'
  BY <1>2, <1>3, <1>4, <1>5, NoJobOK DEF HeldFits, Settled, TerminalRun, StartFits,
     RecoveryFits, Stores, Places, Early
<1> QED
  BY <1>6, <1>7, <1>8, <1>9, <1>10, <1>11, <1>12, <1>13, <1>14

\* Nobody notices yet.
LEMMA WorkerDiesKeeps == ASSUME DIInv, WorkerDies PROVE DIInv'
<1> USE DEF DIInv
<1>1. faults' \in 0 .. MaxFaults
  <2>1. faults' = faults \/ (faults < MaxFaults /\ faults' = faults + 1)
    BY DEF WorkerDies, db, memory, cycle, worker
  <2> QED
    BY <2>1, BoundsAssumption DEF Numbers
<1>2. /\ alive' = FALSE /\ known' = FALSE
      /\ deaths' = [deaths EXCEPT !["worker"] = @ + 1]
      /\ UNCHANGED <<row, status, delivery, bound, ingested, persisted,
                    localCancels, notes, core, sup, job, cursor, interrupted, pump,
                    fetched, through, start, cancel, log, cancelling>>
  BY DEF WorkerDies, db, memory, cycle, worker
<1>3. DeathsCounted' /\ deaths'["core"] = deaths["core"]
  BY <1>2 DEF DeathsCounted
<1>4. alive' = FALSE /\ known' = FALSE
  BY <1>2
<1>5. Stores'
  BY <1>2, <1>3, <1>4 DEF Stores, RunStatus, DeliveryStates, InterruptedJob
<1>6. Places'
  BY <1>2, <1>3, <1>4 DEF Places
<1>7. Flags' /\ DeathsCounted' /\ EventsPersistOnce'
  BY <1>2, <1>3, <1>4 DEF Flags, DeathsCounted, EventsPersistOnce
<1>8. Numbers' /\ Logs'
  BY <1>2, <1>3, <1>4, BoundsAssumption, <1>1 DEF Numbers, Logs
<1>9. JobFits'
  BY <1>2, <1>3, <1>4, NoJobOK DEF JobFits, Reading, StartFits, Early
<1>10. StartFits'
  BY <1>2, <1>3, <1>4, NoJobOK DEF StartFits, Early, Stores, Places, HeldFits
<1>11. LogFits'
  BY <1>2, <1>3, <1>4, NoJobOK, BoundsAssumption DEF LogFits, Reading, StartFits,
     Early, Stores, Places, Logs, Numbers, HeldFits
<1>12. CancelFits' /\ RecoveryFits'
  BY <1>2, <1>3, <1>4 DEF CancelFits, RecoveryFits, StartFits, Early, HeldFits,
     Settled, Stores, Places, DeathsCounted
<1>13. HeldFits'
  BY <1>2, <1>3, <1>4, NoJobOK DEF HeldFits, Settled, TerminalRun, StartFits,
     RecoveryFits, Stores, Places, Early
<1> QED
  BY <1>5, <1>6, <1>7, <1>8, <1>9, <1>10, <1>11, <1>12, <1>13

\* The rows are all that is left.
LEMMA CoreDiesKeeps == ASSUME DIInv, CoreDies PROVE DIInv'
<1> USE DEF DIInv
<1>1. faults' \in 0 .. MaxFaults
  <2>1. faults' = faults \/ (faults < MaxFaults /\ faults' = faults + 1)
    BY DEF CoreDies, db, Empty
  <2> QED
    BY <2>1, BoundsAssumption DEF Numbers
<1>2. /\ sup' = "stopped" /\ job' = NoJob /\ cursor' = 0 /\ interrupted' = "no"
      /\ pump' = "fetch" /\ fetched' = 0 /\ through' = 0 /\ core' = "down"
      /\ start' = IF start = "idle" THEN "idle" ELSE "done"
      /\ cancel' = IF cancel = "gone" THEN "failed" ELSE cancel
      /\ alive' = FALSE /\ known' = FALSE
      /\ deaths' = [deaths EXCEPT !["core"] = @ + 1]
      /\ UNCHANGED <<row, status, delivery, bound, ingested, persisted,
                    localCancels, notes, log, cancelling>>
  BY DEF CoreDies, db, Empty
<1>3. DeathsCounted' /\ deaths'["core"] > 0
  BY <1>2 DEF DeathsCounted
<1>4. Len(persisted') \in Nat /\ cursor' <= Len(persisted')
  BY <1>2 DEF Logs
<1>5. ~job'.tracked /\ pump' \notin Reading /\ pump' # "project"
  BY <1>2, NoJobOK DEF Reading
<1>6. Stores'
  BY <1>2, <1>3, <1>4, <1>5 DEF Stores, RunStatus, DeliveryStates, InterruptedJob
<1>7. Places'
  BY <1>2, <1>3, <1>4, <1>5 DEF Places
<1>8. Flags' /\ DeathsCounted' /\ EventsPersistOnce'
  BY <1>2, <1>3, <1>4, <1>5 DEF Flags, DeathsCounted, EventsPersistOnce
<1>9. Numbers' /\ Logs'
  BY <1>2, <1>3, <1>4, <1>5, BoundsAssumption, <1>1 DEF Numbers, Logs
<1>10. JobFits'
  BY <1>2, <1>3, <1>4, <1>5, NoJobOK DEF JobFits, Reading, StartFits, Early
<1>11. StartFits'
  BY <1>2, <1>3, <1>4, <1>5, NoJobOK DEF StartFits, Early, Stores, Places, HeldFits
<1>12. LogFits'
  BY <1>2, <1>4, <1>5 DEF LogFits
<1>13. CancelFits' /\ RecoveryFits'
  BY <1>2, <1>3, <1>4, <1>5 DEF CancelFits, RecoveryFits, StartFits, Early, HeldFits,
     Settled, Stores, Places, DeathsCounted
<1>14. HeldFits'
  BY <1>2, <1>3, <1>4, <1>5, NoJobOK DEF HeldFits, Settled, TerminalRun, StartFits,
     RecoveryFits, Stores, Places, Early
<1> QED
  BY <1>6, <1>7, <1>8, <1>9, <1>10, <1>11, <1>12, <1>13, <1>14

\* A run left running is cancelled.
LEMMA RecoverRunningKeeps == ASSUME DIInv, RecoverRunning PROVE DIInv'
<1> USE DEF DIInv
<1>1. faults' \in 0 .. MaxFaults
  <2>1. faults' = faults \/ (faults < MaxFaults /\ faults' = faults + 1)
    BY DEF RecoverRunning, db, memory, cycle, worker, SetStatus, SetDelivery,
       ConvergeCancelled
  <2> QED
    BY <2>1, BoundsAssumption DEF Numbers
<1>2. \/ /\ core = "down" /\ ~(row = "present" /\ status = "running")
         /\ core' = "recovering"
         /\ UNCHANGED <<row, status, delivery, bound, ingested, persisted,
                    localCancels, notes, sup, job, cursor, interrupted, pump, fetched,
                    through, start, cancel, alive, known, log, cancelling, deaths>>
      \/ /\ core = "down" /\ row = "present" /\ status = "running"
         /\ status' = "cancelled" /\ delivery' = "failed" /\ core' = "cancelled"
         /\ localCancels' = localCancels + 1
         /\ UNCHANGED <<row, bound, ingested, persisted, notes, sup, job, cursor,
                    interrupted, pump, fetched, through, start, cancel, alive, known, log,
                    cancelling, deaths>>
  BY DEF RecoverRunning, db, memory, cycle, worker, SetStatus, SetDelivery,
     ConvergeCancelled
<1>3. CASE /\ core = "down" /\ ~(row = "present" /\ status = "running")
           /\ core' = "recovering"
           /\ UNCHANGED <<row, status, delivery, bound, ingested, persisted,
                    localCancels, notes, sup, job, cursor, interrupted, pump, fetched,
                    through, start, cancel, alive, known, log, cancelling, deaths>>
  <2>1. Stores'
    BY <1>3 DEF Stores, RunStatus, DeliveryStates, InterruptedJob
  <2>2. Places'
    BY <1>3 DEF Places
  <2>3. Flags' /\ DeathsCounted' /\ EventsPersistOnce'
    BY <1>3 DEF Flags, DeathsCounted, EventsPersistOnce
  <2>4. Numbers' /\ Logs'
    BY <1>3, BoundsAssumption, <1>1 DEF Numbers, Logs
  <2>5. JobFits'
    BY <1>3, NoJobOK DEF JobFits, Reading, StartFits, Early
  <2>6. StartFits'
    BY <1>3, NoJobOK DEF StartFits, Early, Stores, Places, HeldFits
  <2>7. LogFits'
    BY <1>3, NoJobOK, BoundsAssumption DEF LogFits, Reading, StartFits, Early, Stores,
       Places, Logs, Numbers, HeldFits
  <2>8. CancelFits' /\ RecoveryFits'
    BY <1>3 DEF CancelFits, RecoveryFits
  <2>9. HeldFits'
    BY <1>3, NoJobOK DEF HeldFits, Settled, TerminalRun, StartFits, RecoveryFits,
       Stores, Places, Early
  <2> QED
    BY <2>1, <2>2, <2>3, <2>4, <2>5, <2>6, <2>7, <2>8, <2>9
<1>4. CASE /\ core = "down" /\ row = "present" /\ status = "running"
           /\ status' = "cancelled" /\ delivery' = "failed" /\ core' = "cancelled"
           /\ localCancels' = localCancels + 1
           /\ UNCHANGED <<row, bound, ingested, persisted, notes, sup, job, cursor,
                    interrupted, pump, fetched, through, start, cancel, alive, known, log,
                    cancelling, deaths>>
  <2>1. localCancels = 0
    BY <1>4 DEF CancelFits
  <2>2. Stores'
    BY <1>4, <2>1 DEF Stores, RunStatus, DeliveryStates, InterruptedJob
  <2>3. Places'
    BY <1>4, <2>1 DEF Places
  <2>4. Flags' /\ DeathsCounted' /\ EventsPersistOnce'
    BY <1>4, <2>1 DEF Flags, DeathsCounted, EventsPersistOnce
  <2>5. Numbers' /\ Logs'
    BY <1>4, <2>1, BoundsAssumption, <1>1 DEF Numbers, Logs
  <2>6. JobFits'
    BY <1>4, <2>1, NoJobOK DEF JobFits, Reading, StartFits, Early
  <2>7. StartFits'
    BY <1>4, <2>1, NoJobOK DEF StartFits, Early, Stores, Places, HeldFits
  <2>8. LogFits'
    BY <1>4, <2>1, NoJobOK, BoundsAssumption DEF LogFits, Reading, StartFits, Early,
       Stores, Places, Logs, Numbers, HeldFits
  <2>9. CancelFits' /\ RecoveryFits'
    BY <1>4, <2>1 DEF CancelFits, RecoveryFits
  <2>10. HeldFits'
    BY <1>4, <2>1, NoJobOK DEF HeldFits, Settled, TerminalRun, StartFits, RecoveryFits,
       Stores, Places, Early
  <2> QED
    BY <2>2, <2>3, <2>4, <2>5, <2>6, <2>7, <2>8, <2>9, <2>10
<1> QED
  BY <1>2, <1>3, <1>4

\* A run left undelivered is failed: all runs are settled.
LEMMA RecoverUndeliveredKeeps == ASSUME DIInv, RecoverUndelivered PROVE DIInv'
<1> USE DEF DIInv
<1>1. faults' \in 0 .. MaxFaults
  <2>1. faults' = faults \/ (faults < MaxFaults /\ faults' = faults + 1)
    BY DEF RecoverUndelivered, memory, cycle, worker, SetDelivery, Undelivered
  <2> QED
    BY <2>1, BoundsAssumption DEF Numbers
<1>2. \/ /\ core \in {"cancelled", "recovering"} /\ core' = "up"
         /\ delivery' = "failed" /\ notes' = (IF notes < 2 THEN notes + 1 ELSE 2)
         /\ UNCHANGED <<row, status, bound, ingested, persisted, localCancels, sup,
                    job, cursor, interrupted, pump, fetched, through, start, cancel, alive,
                    known, log, cancelling, deaths>>
      \/ /\ core \in {"cancelled", "recovering"} /\ core' = "up"
         /\ row = "present" /\ status \in TerminalRun /\ delivery = "pending" => core = "cancelled"
         /\ UNCHANGED <<row, status, delivery, bound, ingested, persisted,
                    localCancels, notes, sup, job, cursor, interrupted, pump, fetched,
                    through, start, cancel, alive, known, log, cancelling, deaths>>
  BY DEF RecoverUndelivered, memory, cycle, worker, SetDelivery, Undelivered
<1>3. CASE /\ core \in {"cancelled", "recovering"} /\ core' = "up"
           /\ delivery' = "failed" /\ notes' = (IF notes < 2 THEN notes + 1 ELSE 2)
           /\ UNCHANGED <<row, status, bound, ingested, persisted, localCancels, sup,
                    job, cursor, interrupted, pump, fetched, through, start, cancel, alive,
                    known, log, cancelling, deaths>>
  <2>1. Stores'
    BY <1>3 DEF Stores, RunStatus, DeliveryStates, InterruptedJob
  <2>2. Places'
    BY <1>3 DEF Places
  <2>3. Flags' /\ DeathsCounted' /\ EventsPersistOnce'
    BY <1>3 DEF Flags, DeathsCounted, EventsPersistOnce
  <2>4. Numbers' /\ Logs'
    BY <1>3, BoundsAssumption, <1>1 DEF Numbers, Logs
  <2>5. JobFits'
    BY <1>3, NoJobOK DEF JobFits, Reading, StartFits, Early
  <2>6. StartFits'
    BY <1>3, NoJobOK DEF StartFits, Early, Stores, Places, HeldFits
  <2>7. LogFits'
    BY <1>3, NoJobOK, BoundsAssumption DEF LogFits, Reading, StartFits, Early, Stores,
       Places, Logs, Numbers, HeldFits
  <2>8. CancelFits' /\ RecoveryFits'
    BY <1>3 DEF CancelFits, RecoveryFits, StartFits, Early, HeldFits, Settled, Stores,
       Places, DeathsCounted
  <2>9. HeldFits'
    BY <1>3, NoJobOK DEF HeldFits, Settled, TerminalRun, StartFits, RecoveryFits,
       Stores, Places, Early
  <2> QED
    BY <2>1, <2>2, <2>3, <2>4, <2>5, <2>6, <2>7, <2>8, <2>9
<1>4. CASE /\ core \in {"cancelled", "recovering"} /\ core' = "up"
           /\ row = "present" /\ status \in TerminalRun /\ delivery = "pending" => core = "cancelled"
           /\ UNCHANGED <<row, status, delivery, bound, ingested, persisted,
                    localCancels, notes, sup, job, cursor, interrupted, pump, fetched,
                    through, start, cancel, alive, known, log, cancelling, deaths>>
  <2>1. Stores'
    BY <1>4 DEF Stores, RunStatus, DeliveryStates, InterruptedJob
  <2>2. Places'
    BY <1>4 DEF Places
  <2>3. Flags' /\ DeathsCounted' /\ EventsPersistOnce'
    BY <1>4 DEF Flags, DeathsCounted, EventsPersistOnce
  <2>4. Numbers' /\ Logs'
    BY <1>4, BoundsAssumption, <1>1 DEF Numbers, Logs
  <2>5. JobFits'
    BY <1>4, NoJobOK DEF JobFits, Reading, StartFits, Early
  <2>6. StartFits'
    BY <1>4, NoJobOK DEF StartFits, Early, Stores, Places, HeldFits
  <2>7. LogFits'
    BY <1>4, NoJobOK, BoundsAssumption DEF LogFits, Reading, StartFits, Early, Stores,
       Places, Logs, Numbers, HeldFits
  <2>8. CancelFits' /\ RecoveryFits'
    BY <1>4 DEF CancelFits, RecoveryFits, StartFits, Early, HeldFits, Settled, Stores,
       Places, DeathsCounted
  <2>9. HeldFits'
    BY <1>4, NoJobOK DEF HeldFits, Settled, TerminalRun, StartFits, RecoveryFits,
       Stores, Places, Early
  <2> QED
    BY <2>1, <2>2, <2>3, <2>4, <2>5, <2>6, <2>7, <2>8, <2>9
<1> QED
  BY <1>2, <1>3, <1>4

\* A dead worker may be noticed.
LEMMA RunGetKeeps == ASSUME DIInv, RunGet PROVE DIInv'
<1> USE DEF DIInv
<1>1. faults' \in 0 .. MaxFaults
  <2>1. faults' = faults \/ (faults < MaxFaults /\ faults' = faults + 1)
    BY DEF RunGet, db, cycle, Fine, Fault, AttachFault
  <2> QED
    BY <2>1, BoundsAssumption DEF Numbers
<1>2. /\ core = "up"
      /\ Reaches /\ (job'.failed => job.failed)
      /\ UNCHANGED <<row, status, delivery, bound, ingested, persisted,
                    localCancels, notes, core, pump, fetched, through, start, cancel, log,
                    cancelling, deaths>>
  <2>1. PICK o \in Attached(job) : Attach(o, o.job)
    BY DEF RunGet
  <2>2. Reaches /\ (o.job = job \/ o.job = NoJob)
    BY <2>1, FollowsOK, ReachesOK DEF JobFits
  <2>3. job'.failed => job.failed
    BY <2>1, <2>2, NoJobOK DEF Attach
  <2> QED
    BY <2>2, <2>3 DEF RunGet, Reaches, db, cycle
<1>3. Stores'
  BY <1>2 DEF Stores, RunStatus, DeliveryStates, InterruptedJob, Reaches
<1>4. Places'
  BY <1>2 DEF Places, Reaches
<1>5. Flags' /\ DeathsCounted' /\ EventsPersistOnce'
  BY <1>2 DEF Flags, DeathsCounted, EventsPersistOnce, Reaches
<1>6. Numbers' /\ Logs'
  BY <1>2, BoundsAssumption, <1>1 DEF Numbers, Logs, Reaches
<1>7. JobFits'
  BY <1>2, NoJobOK DEF JobFits, Reading, StartFits, Early, Reaches
<1>8. StartFits'
  BY <1>2, NoJobOK DEF StartFits, Early, Stores, Places, HeldFits, Reaches
<1>9. LogFits'
  BY <1>2, NoJobOK, BoundsAssumption DEF LogFits, Reading, StartFits, Early, Stores,
     Places, Logs, Numbers, HeldFits, Reaches
<1>10. CancelFits' /\ RecoveryFits'
  BY <1>2 DEF CancelFits, RecoveryFits, StartFits, Early, HeldFits, Settled, Stores,
     Places, DeathsCounted, Reaches
<1>11. HeldFits'
  BY <1>2, NoJobOK DEF HeldFits, Settled, TerminalRun, StartFits, RecoveryFits, Stores,
     Places, Early, Reaches
<1> QED
  BY <1>3, <1>4, <1>5, <1>6, <1>7, <1>8, <1>9, <1>10, <1>11

\* A dead worker may be noticed, or a live one told.
LEMMA CancelKeeps == ASSUME DIInv, Cancel PROVE DIInv'
<1> USE DEF DIInv
<1>1. faults' \in 0 .. MaxFaults
  <2>1. faults' = faults \/ (faults < MaxFaults /\ faults' = faults + 1)
    BY DEF Cancel, db, cycle, Fine, Fault, AttachFault
  <2> QED
    BY <2>1, BoundsAssumption DEF Numbers
<1>2. /\ core = "up" /\ bound /\ start = "done"
      /\ Reaches /\ (job'.failed => job.failed)
      /\ cancel' \in {"failed", "done", "gone"} /\ cancelling' \in BOOLEAN
      /\ UNCHANGED <<row, status, delivery, bound, ingested, persisted,
                    localCancels, notes, core, pump, fetched, through, start, log, deaths>>
  <2>1. PICK o \in Attached(job) :
          /\ Attach(o, o.job) /\ CancelJob(o)
          /\ cancel' = IF ~o.ok THEN "failed" ELSE IF o.known THEN "done" ELSE "gone"
    BY DEF Cancel
  <2>2. Reaches /\ (o.job = job \/ o.job = NoJob)
    BY <2>1, FollowsOK, ReachesOK DEF JobFits
  <2>3. job'.failed => job.failed
    BY <2>1, <2>2, NoJobOK DEF Attach
  <2>4. cancelling' \in BOOLEAN
    BY <2>1 DEF CancelJob
  <2>5. cancel' \in {"failed", "done", "gone"}
    BY <2>1
  <2> QED
    BY <2>2, <2>3, <2>4, <2>5 DEF Cancel, Shown, Reaches, db, cycle
<1>3. Stores'
  BY <1>2 DEF Stores, RunStatus, DeliveryStates, InterruptedJob, Reaches
<1>4. Places'
  BY <1>2 DEF Places, Reaches
<1>5. Flags' /\ DeathsCounted' /\ EventsPersistOnce'
  BY <1>2 DEF Flags, DeathsCounted, EventsPersistOnce, Reaches
<1>6. Numbers' /\ Logs'
  BY <1>2, BoundsAssumption, <1>1 DEF Numbers, Logs, Reaches
<1>7. JobFits'
  BY <1>2, NoJobOK DEF JobFits, Reading, StartFits, Early, Reaches
<1>8. StartFits'
  BY <1>2, NoJobOK DEF StartFits, Early, Stores, Places, HeldFits, Reaches
<1>9. LogFits'
  BY <1>2, NoJobOK, BoundsAssumption DEF LogFits, Reading, StartFits, Early, Stores,
     Places, Logs, Numbers, HeldFits, Reaches
<1>10. CancelFits' /\ RecoveryFits'
  BY <1>2 DEF CancelFits, RecoveryFits, StartFits, Early, HeldFits, Settled, Stores,
     Places, DeathsCounted, Reaches
<1>11. HeldFits'
  BY <1>2, NoJobOK DEF HeldFits, Settled, TerminalRun, StartFits, RecoveryFits, Stores,
     Places, Early, Reaches
<1> QED
  BY <1>3, <1>4, <1>5, <1>6, <1>7, <1>8, <1>9, <1>10, <1>11

\* A dead worker may be noticed, or a live one told.
LEMMA StartUndoKeeps == ASSUME DIInv, StartUndo PROVE DIInv'
<1> USE DEF DIInv
<1>1. faults' \in 0 .. MaxFaults
  <2>1. faults' = faults \/ (faults < MaxFaults /\ faults' = faults + 1)
    BY DEF StartUndo, db, cycle, Fine, Fault, AttachFault
  <2> QED
    BY <2>1, BoundsAssumption DEF Numbers
<1>2. /\ core = "up" /\ start = "unbound" /\ start' = "undo"
      /\ Reaches /\ (job'.failed => job.failed)
      /\ cancelling' \in BOOLEAN
      /\ UNCHANGED <<row, status, delivery, bound, ingested, persisted,
                    localCancels, notes, core, pump, fetched, through, cancel, log,
                    deaths>>
  <2>1. PICK o \in Attached(job) : Attach(o, o.job) /\ CancelJob(o)
    BY DEF StartUndo
  <2>2. Reaches /\ (o.job = job \/ o.job = NoJob)
    BY <2>1, FollowsOK, ReachesOK DEF JobFits
  <2>3. job'.failed => job.failed
    BY <2>1, <2>2, NoJobOK DEF Attach
  <2>4. cancelling' \in BOOLEAN
    BY <2>1 DEF CancelJob
  <2> QED
    BY <2>2, <2>3, <2>4 DEF StartUndo, Reaches, db, cycle
<1>3. Stores'
  BY <1>2 DEF Stores, RunStatus, DeliveryStates, InterruptedJob, Reaches
<1>4. Places'
  BY <1>2 DEF Places, Reaches
<1>5. Flags' /\ DeathsCounted' /\ EventsPersistOnce'
  BY <1>2 DEF Flags, DeathsCounted, EventsPersistOnce, Reaches
<1>6. Numbers' /\ Logs'
  BY <1>2, BoundsAssumption, <1>1 DEF Numbers, Logs, Reaches
<1>7. JobFits'
  BY <1>2, NoJobOK DEF JobFits, Reading, StartFits, Early, Reaches
<1>8. StartFits'
  BY <1>2, NoJobOK DEF StartFits, Early, Stores, Places, HeldFits, Reaches
<1>9. LogFits'
  BY <1>2, NoJobOK, BoundsAssumption DEF LogFits, Reading, StartFits, Early, Stores,
     Places, Logs, Numbers, HeldFits, Reaches
<1>10. CancelFits' /\ RecoveryFits'
  BY <1>2 DEF CancelFits, RecoveryFits, StartFits, Early, HeldFits, Settled, Stores,
     Places, DeathsCounted, Reaches
<1>11. HeldFits'
  BY <1>2, NoJobOK DEF HeldFits, Settled, TerminalRun, StartFits, RecoveryFits, Stores,
     Places, Early, Reaches
<1> QED
  BY <1>3, <1>4, <1>5, <1>6, <1>7, <1>8, <1>9, <1>10, <1>11

\* The worker has the job and the supervisor tracks it, or neither is known.
LEMMA StartSubmitKeeps == ASSUME DIInv, StartSubmit PROVE DIInv'
<1> USE DEF DIInv
<1>1. faults' \in 0 .. MaxFaults
  <2>1. faults' = faults \/ (faults < MaxFaults /\ faults' = faults + 1)
    BY DEF StartSubmit, db, cycle, Fine, Fault, AttachFault
  <2> QED
    BY <2>1, BoundsAssumption DEF Numbers
<1>2. \/ /\ core = "up" /\ start = "inserted" /\ start' = "submitted"
         /\ job' = NewJob /\ interrupted' = interrupted /\ cursor' = cursor
         /\ sup' \in {"ready", "stopped", "spent"} /\ alive' \in BOOLEAN /\ known' \in BOOLEAN
         /\ UNCHANGED <<row, status, delivery, bound, ingested, persisted,
                    localCancels, notes, core, pump, fetched, through, cancel, log,
                    cancelling, deaths>>
      \/ /\ core = "up" /\ start = "inserted" /\ start' = "refused"
         /\ Reaches
         /\ UNCHANGED <<row, status, delivery, bound, ingested, persisted,
                    localCancels, notes, core, pump, fetched, through, cancel, log,
                    cancelling, deaths>>
  <2>1. PICK o \in Attached(job) :
          \/ Attach([o EXCEPT !.known = TRUE], NewJob) /\ start' = "submitted"
          \/ Attach(o, o.job) /\ start' = "refused"
          \/ /\ \E taken \in BOOLEAN : Attach([o EXCEPT !.known = taken], o.job)
             /\ start' = "refused"
    BY DEF StartSubmit
  <2>2. UNCHANGED <<row, status, delivery, bound, ingested, persisted, localCancels, notes,
                    core, pump, fetched, through, cancel, log, cancelling, deaths>>
        /\ core = "up" /\ start = "inserted"
    BY DEF StartSubmit, db, cycle
  <2>3. CASE Attach([o EXCEPT !.known = TRUE], NewJob) /\ start' = "submitted"
    <3>1. Follows(o, NewJob)
      BY <2>3, FollowsOK
    <3>2. /\ o.sup \in {"ready", "stopped", "spent"} /\ o.alive \in BOOLEAN
          /\ o.interrupted = interrupted
      BY <2>2, AttachedOK DEF DIInv, StartFits, Early
    <3> QED
      BY <2>2, <2>3, <3>1, <3>2 DEF Follows
  <2>4. CASE /\ start' = "refused"
             /\ Attach(o, o.job) \/ \E k \in BOOLEAN : Attach([o EXCEPT !.known = k], o.job)
    <3>1. Reaches
      BY <2>4, FollowsOK, ReachesOK DEF JobFits
    <3> QED
      BY <2>2, <2>4, <3>1 DEF Reaches
  <2> QED
    BY <2>1, <2>3, <2>4
<1>3. CASE /\ core = "up" /\ start = "inserted" /\ start' = "submitted"
           /\ job' = NewJob /\ interrupted' = interrupted /\ cursor' = cursor
           /\ sup' \in {"ready", "stopped", "spent"} /\ alive' \in BOOLEAN /\ known' \in BOOLEAN
           /\ UNCHANGED <<row, status, delivery, bound, ingested, persisted,
                    localCancels, notes, core, pump, fetched, through, cancel, log,
                    cancelling, deaths>>
  <2>1. Stores'
    BY <1>3 DEF Stores, RunStatus, DeliveryStates, InterruptedJob, Reaches
  <2>2. Places'
    BY <1>3 DEF Places, Reaches
  <2>3. Flags' /\ DeathsCounted' /\ EventsPersistOnce'
    BY <1>3 DEF Flags, DeathsCounted, EventsPersistOnce, Reaches
  <2>4. Numbers' /\ Logs'
    BY <1>3, BoundsAssumption, <1>1 DEF Numbers, Logs, Reaches
  <2>5. JobFits'
    BY <1>3, NoJobOK DEF JobFits, Reading, StartFits, Early, Reaches
  <2>6. StartFits'
    BY <1>3, NoJobOK DEF StartFits, Early, Stores, Places, HeldFits, Reaches
  <2>7. LogFits'
    BY <1>3, NoJobOK, BoundsAssumption DEF LogFits, Reading, StartFits, Early, Stores,
       Places, Logs, Numbers, HeldFits, Reaches
  <2>8. CancelFits' /\ RecoveryFits'
    BY <1>3 DEF CancelFits, RecoveryFits, StartFits, Early, HeldFits, Settled, Stores,
       Places, DeathsCounted, Reaches
  <2>9. HeldFits'
    BY <1>3, NoJobOK DEF HeldFits, Settled, TerminalRun, StartFits, RecoveryFits,
       Stores, Places, Early, Reaches
  <2> QED
    BY <2>1, <2>2, <2>3, <2>4, <2>5, <2>6, <2>7, <2>8, <2>9
<1>4. CASE /\ core = "up" /\ start = "inserted" /\ start' = "refused"
           /\ Reaches
           /\ UNCHANGED <<row, status, delivery, bound, ingested, persisted,
                    localCancels, notes, core, pump, fetched, through, cancel, log,
                    cancelling, deaths>>
  <2>1. Stores'
    BY <1>4 DEF Stores, RunStatus, DeliveryStates, InterruptedJob, Reaches
  <2>2. Places'
    BY <1>4 DEF Places, Reaches
  <2>3. Flags' /\ DeathsCounted' /\ EventsPersistOnce'
    BY <1>4 DEF Flags, DeathsCounted, EventsPersistOnce, Reaches
  <2>4. Numbers' /\ Logs'
    BY <1>4, BoundsAssumption, <1>1 DEF Numbers, Logs, Reaches
  <2>5. JobFits'
    BY <1>4, NoJobOK DEF JobFits, Reading, StartFits, Early, Reaches
  <2>6. StartFits'
    BY <1>4, NoJobOK DEF StartFits, Early, Stores, Places, HeldFits, Reaches
  <2>7. LogFits'
    BY <1>4, NoJobOK, BoundsAssumption DEF LogFits, Reading, StartFits, Early, Stores,
       Places, Logs, Numbers, HeldFits, Reaches
  <2>8. CancelFits' /\ RecoveryFits'
    BY <1>4 DEF CancelFits, RecoveryFits, StartFits, Early, HeldFits, Settled, Stores,
       Places, DeathsCounted, Reaches
  <2>9. HeldFits'
    BY <1>4, NoJobOK DEF HeldFits, Settled, TerminalRun, StartFits, RecoveryFits,
       Stores, Places, Early, Reaches
  <2> QED
    BY <2>1, <2>2, <2>3, <2>4, <2>5, <2>6, <2>7, <2>8, <2>9
<1> QED
  BY <1>2, <1>3, <1>4

\* A batch behind the cursor is fetched, or a dead worker is noticed.
LEMMA PumpFetchKeeps == ASSUME DIInv, PumpFetch PROVE DIInv'
<1> USE DEF DIInv
<1>1. faults' \in 0 .. MaxFaults
  <2>1. faults' = faults \/ (faults < MaxFaults /\ faults' = faults + 1)
    BY DEF PumpFetch, Pumping, db, Fine, Fault, AttachFault
  <2> QED
    BY <2>1, BoundsAssumption DEF Numbers
<1>2. \/ /\ core = "up" /\ pump = "fetch" /\ pump' = "project" /\ ~job.stalled
         /\ Reaches /\ job'.tracked
         /\ fetched' = Len(log) /\ through' = cursor /\ cursor < Len(log)
         /\ UNCHANGED <<row, status, delivery, bound, ingested, persisted,
                    localCancels, notes, core, start, cancel, log, cancelling, deaths>>
      \/ /\ core = "up" /\ pump = "fetch" /\ pump' = "deliver"
         /\ Reaches
         /\ UNCHANGED <<row, status, delivery, bound, ingested, persisted,
                    localCancels, notes, core, fetched, through, start, cancel, log,
                    cancelling, deaths>>
  <2>1. PICK o \in Attached(Ticked) :
          /\ Attach(o, o.job)
          /\ \/ /\ o.job.tracked /\ Len(log) > cursor
                /\ fetched' = Len(log) /\ through' = cursor
                /\ pump' = "project"
             \/ pump' = "deliver" /\ UNCHANGED <<fetched, through>>
    BY DEF PumpFetch
  <2>2. Reaches
    BY <2>1, FollowsOK, ReachesOK, TickedOK DEF JobFits
  <2>3. job' = o.job /\ cursor' = cursor
    BY <2>1 DEF Attach
  <2>4. /\ core = "up" /\ pump = "fetch" /\ ~job.stalled
        /\ UNCHANGED <<row, status, delivery, bound, ingested, persisted, localCancels, notes,
                       core, start, cancel, log, cancelling, deaths>>
    BY DEF PumpFetch, Pumping, db
  <2>5. Len(log) > cursor => cursor < Len(log)
    BY DEF Numbers, Logs
  <2> QED
    BY <2>1, <2>2, <2>3, <2>4, <2>5
<1>3. CASE /\ core = "up" /\ pump = "fetch" /\ pump' = "project" /\ ~job.stalled
           /\ Reaches /\ job'.tracked
           /\ fetched' = Len(log) /\ through' = cursor /\ cursor < Len(log)
           /\ UNCHANGED <<row, status, delivery, bound, ingested, persisted,
                    localCancels, notes, core, start, cancel, log, cancelling, deaths>>
  <2>1. Len(log) \in 0 .. MaxLog
    BY DEF Logs
  <2>2. Stores'
    BY <1>3, <2>1 DEF Stores, RunStatus, DeliveryStates, InterruptedJob, Reaches
  <2>3. Places'
    BY <1>3, <2>1 DEF Places, Reaches
  <2>4. Flags' /\ DeathsCounted' /\ EventsPersistOnce'
    BY <1>3, <2>1 DEF Flags, DeathsCounted, EventsPersistOnce, Reaches
  <2>5. Numbers' /\ Logs'
    BY <1>3, <2>1, BoundsAssumption, <1>1 DEF Numbers, Logs, Reaches
  <2>6. JobFits'
    BY <1>3, <2>1, NoJobOK DEF JobFits, Reading, StartFits, Early, Reaches
  <2>7. StartFits'
    BY <1>3, <2>1, NoJobOK DEF StartFits, Early, Stores, Places, HeldFits, Reaches
  <2>8. LogFits'
    BY <1>3, <2>1, NoJobOK, BoundsAssumption DEF LogFits, Reading, StartFits, Early,
       Stores, Places, Logs, Numbers, HeldFits, Reaches
  <2>9. CancelFits' /\ RecoveryFits'
    BY <1>3, <2>1 DEF CancelFits, RecoveryFits, StartFits, Early, HeldFits, Settled,
       Stores, Places, DeathsCounted, Reaches
  <2>10. HeldFits'
    BY <1>3, <2>1, NoJobOK DEF HeldFits, Settled, TerminalRun, StartFits, RecoveryFits,
       Stores, Places, Early, Reaches
  <2> QED
    BY <2>2, <2>3, <2>4, <2>5, <2>6, <2>7, <2>8, <2>9, <2>10
<1>4. CASE /\ core = "up" /\ pump = "fetch" /\ pump' = "deliver"
           /\ Reaches
           /\ UNCHANGED <<row, status, delivery, bound, ingested, persisted,
                    localCancels, notes, core, fetched, through, start, cancel, log,
                    cancelling, deaths>>
  <2>1. Stores'
    BY <1>4 DEF Stores, RunStatus, DeliveryStates, InterruptedJob, Reaches
  <2>2. Places'
    BY <1>4 DEF Places, Reaches
  <2>3. Flags' /\ DeathsCounted' /\ EventsPersistOnce'
    BY <1>4 DEF Flags, DeathsCounted, EventsPersistOnce, Reaches
  <2>4. Numbers' /\ Logs'
    BY <1>4, BoundsAssumption, <1>1 DEF Numbers, Logs, Reaches
  <2>5. JobFits'
    BY <1>4, NoJobOK DEF JobFits, Reading, StartFits, Early, Reaches
  <2>6. StartFits'
    BY <1>4, NoJobOK DEF StartFits, Early, Stores, Places, HeldFits, Reaches
  <2>7. LogFits'
    BY <1>4, NoJobOK, BoundsAssumption DEF LogFits, Reading, StartFits, Early, Stores,
       Places, Logs, Numbers, HeldFits, Reaches
  <2>8. CancelFits' /\ RecoveryFits'
    BY <1>4 DEF CancelFits, RecoveryFits, StartFits, Early, HeldFits, Settled, Stores,
       Places, DeathsCounted, Reaches
  <2>9. HeldFits'
    BY <1>4, NoJobOK DEF HeldFits, Settled, TerminalRun, StartFits, RecoveryFits,
       Stores, Places, Early, Reaches
  <2> QED
    BY <2>1, <2>2, <2>3, <2>4, <2>5, <2>6, <2>7, <2>8, <2>9
<1> QED
  BY <1>2, <1>3, <1>4

\* The results are fetched, or one attempt is gone.
LEMMA PumpDeliverKeeps == ASSUME DIInv, PumpDeliver PROVE DIInv'
<1> USE DEF DIInv
<1>1. faults' \in 0 .. MaxFaults
  <2>1. faults' = faults \/ (faults < MaxFaults /\ faults' = faults + 1)
    BY DEF PumpDeliver, Pumping, db, Fine, Fault, AttachFault
  <2> QED
    BY <2>1, BoundsAssumption DEF Numbers
<1>2. \/ /\ core = "up" /\ pump = "deliver" /\ pump' = "ingest"
         /\ Reaches /\ ~job'.failed /\ job.tracked
         /\ UNCHANGED <<row, status, delivery, bound, ingested, persisted,
                    localCancels, notes, core, fetched, through, start, cancel, log,
                    cancelling, deaths>>
      \/ /\ core = "up" /\ pump = "deliver" /\ pump' \in {"converge", "give up"}
         /\ Reaches /\ job.tracked
         /\ UNCHANGED <<row, status, delivery, bound, ingested, persisted,
                    localCancels, notes, core, fetched, through, start, cancel, log,
                    cancelling, deaths>>
  <2>1. PICK o \in Attached(job) :
          \/ Attach(o, o.job) /\ pump' = "ingest"
          \/ Attach(o, Failed(o.job)) /\ pump' = AfterFailure(o.job)
    BY DEF PumpDeliver
  <2>2. /\ core = "up" /\ pump = "deliver" /\ ~job.failed /\ job.tracked
        /\ UNCHANGED <<row, status, delivery, bound, ingested, persisted, localCancels, notes,
                       core, fetched, through, start, cancel, log, cancelling, deaths>>
    BY DEF PumpDeliver, Pumping, db
  <2>3. JobOK(o.job) /\ ~o.job.failed
    BY <2>2, AttachedOK, NoJobOK DEF JobFits
  <2>4. CASE Attach(o, o.job) /\ pump' = "ingest"
    <3>1. Reaches
      BY <2>4, FollowsOK, ReachesOK DEF JobFits
    <3>2. job' = o.job
      BY <2>4 DEF Attach
    <3> QED
      BY <2>2, <2>3, <2>4, <3>1, <3>2
  <2>5. CASE Attach(o, Failed(o.job)) /\ pump' = AfterFailure(o.job)
    <3>1. Reaches
      BY <2>3, <2>5, FollowsOK, ReachesOK, FailedOK DEF JobFits
    <3>2. pump' \in {"converge", "give up"}
      BY <2>5 DEF AfterFailure
    <3> QED
      BY <2>2, <2>5, <3>1, <3>2
  <2> QED
    BY <2>1, <2>4, <2>5
<1>3. CASE /\ core = "up" /\ pump = "deliver" /\ pump' = "ingest"
           /\ Reaches /\ ~job'.failed /\ job.tracked
           /\ UNCHANGED <<row, status, delivery, bound, ingested, persisted,
                    localCancels, notes, core, fetched, through, start, cancel, log,
                    cancelling, deaths>>
  <2>1. Stores'
    BY <1>3 DEF Stores, RunStatus, DeliveryStates, InterruptedJob, Reaches
  <2>2. Places'
    BY <1>3 DEF Places, Reaches
  <2>3. Flags' /\ DeathsCounted' /\ EventsPersistOnce'
    BY <1>3 DEF Flags, DeathsCounted, EventsPersistOnce, Reaches
  <2>4. Numbers' /\ Logs'
    BY <1>3, BoundsAssumption, <1>1 DEF Numbers, Logs, Reaches
  <2>5. JobFits'
    BY <1>3, NoJobOK DEF JobFits, Reading, StartFits, Early, Reaches
  <2>6. StartFits'
    BY <1>3, NoJobOK DEF StartFits, Early, Stores, Places, HeldFits, Reaches
  <2>7. LogFits'
    BY <1>3, NoJobOK, BoundsAssumption DEF LogFits, Reading, StartFits, Early, Stores,
       Places, Logs, Numbers, HeldFits, Reaches
  <2>8. CancelFits' /\ RecoveryFits'
    BY <1>3 DEF CancelFits, RecoveryFits, StartFits, Early, HeldFits, Settled, Stores,
       Places, DeathsCounted, Reaches
  <2>9. HeldFits'
    BY <1>3, NoJobOK DEF HeldFits, Settled, TerminalRun, StartFits, RecoveryFits,
       Stores, Places, Early, Reaches
  <2> QED
    BY <2>1, <2>2, <2>3, <2>4, <2>5, <2>6, <2>7, <2>8, <2>9
<1>4. CASE /\ core = "up" /\ pump = "deliver" /\ pump' \in {"converge", "give up"}
           /\ Reaches /\ job.tracked
           /\ UNCHANGED <<row, status, delivery, bound, ingested, persisted,
                    localCancels, notes, core, fetched, through, start, cancel, log,
                    cancelling, deaths>>
  <2>1. Stores'
    BY <1>4 DEF Stores, RunStatus, DeliveryStates, InterruptedJob, Reaches
  <2>2. Places'
    BY <1>4 DEF Places, Reaches
  <2>3. Flags' /\ DeathsCounted' /\ EventsPersistOnce'
    BY <1>4 DEF Flags, DeathsCounted, EventsPersistOnce, Reaches
  <2>4. Numbers' /\ Logs'
    BY <1>4, BoundsAssumption, <1>1 DEF Numbers, Logs, Reaches
  <2>5. JobFits'
    BY <1>4, NoJobOK DEF JobFits, Reading, StartFits, Early, Reaches
  <2>6. StartFits'
    BY <1>4, NoJobOK DEF StartFits, Early, Stores, Places, HeldFits, Reaches
  <2>7. LogFits'
    BY <1>4, NoJobOK, BoundsAssumption DEF LogFits, Reading, StartFits, Early, Stores,
       Places, Logs, Numbers, HeldFits, Reaches
  <2>8. CancelFits' /\ RecoveryFits'
    BY <1>4 DEF CancelFits, RecoveryFits, StartFits, Early, HeldFits, Settled, Stores,
       Places, DeathsCounted, Reaches
  <2>9. HeldFits'
    BY <1>4, NoJobOK DEF HeldFits, Settled, TerminalRun, StartFits, RecoveryFits,
       Stores, Places, Early, Reaches
  <2> QED
    BY <2>1, <2>2, <2>3, <2>4, <2>5, <2>6, <2>7, <2>8, <2>9
<1> QED
  BY <1>2, <1>3, <1>4

\* A step of the pump keeps the invariant.
LEMMA PumpKeeps == ASSUME DIInv, Pump PROVE DIInv'
BY PumpSkipKeeps, PumpFetchKeeps, PumpProjectKeeps, PumpRefuseKeeps,
           PumpAcknowledgeKeeps, PumpNothingToDeliverKeeps, PumpDeliverKeeps,
           PumpIngestKeeps, PumpRetireKeeps, PumpGiveUpKeeps, PumpConvergeKeeps,
           PumpConfirmKeeps
   DEF Pump

\* So does a step of a start,
LEMMA StartKeeps == ASSUME DIInv, Start PROVE DIInv'
BY StartInsertKeeps, StartSubmitKeeps, StartCleanupKeeps, StartBindKeeps,
           StartUndoKeeps, StartDeleteKeeps
   DEF Start

\* one of the recovery,
LEMMA RecoverKeeps == ASSUME DIInv, Recover PROVE DIInv'
BY RecoverRunningKeeps, RecoverUndeliveredKeeps
   DEF Recover

\* and every other.
LEMMA StepKeepsDIInv == ASSUME DIInv, [Next]_vars PROVE DIInv'
<1>1. CASE Next
  BY <1>1, PumpKeeps, StartKeeps, RunGetKeeps, CancelKeeps, CancelConvergeKeeps,
     PublishKeeps,
     WorkerDiesKeeps, CoreDiesKeeps, RecoverKeeps DEF Next
<1>2. CASE UNCHANGED vars
  <2> USE DEF DIInv
  <2>0. UNCHANGED <<row, status, delivery, bound, ingested, persisted, localCancels,
                    notes, core, sup, job, cursor, interrupted, pump, fetched, through,
                    start, cancel, alive, known, log, cancelling, faults, deaths>>
    BY <1>2 DEF vars, db, memory, cycle, worker
  <2>1. Stores'
    BY <2>0 DEF Stores
  <2>5. Places'
    BY <2>0 DEF Places
  <2>4. Flags' /\ Numbers' /\ Logs'
    BY <2>0 DEF Flags, Numbers, Logs
  <2>2. DeathsCounted' /\ JobFits' /\ StartFits' /\ EventsPersistOnce'
    BY <2>0 DEF DeathsCounted, JobFits, StartFits, EventsPersistOnce
  <2>3. LogFits' /\ CancelFits' /\ HeldFits' /\ RecoveryFits'
    BY <2>0 DEF LogFits, CancelFits, HeldFits, RecoveryFits, Settled
  <2> QED
    BY <2>1, <2>2, <2>3, <2>4, <2>5
<1> QED
  BY <1>1, <1>2

\* The inductive invariant of delivery.
LEMMA DIInvHolds == Spec => []DIInv
BY InitHoldsDIInv, StepKeepsDIInv, PTL DEF Spec

-----------------------------------------------------------------------------
(* What follows.                                                           *)

\* Whatever the worker appends, whatever is refused, fails or dies: the log of
\* a run holds the worker's events in their order, each once; no window is
\* ahead of it; a job is let go of only when it is accounted for; and the core
\* cancels a run on its own account once (pump_cycle, recovery.rs).
THEOREM DeliveryInvHolds == Spec => []DeliveryInv
<1>1. DIInv => DeliveryInv
  <2> SUFFICES ASSUME DIInv PROVE DeliveryInv
    OBVIOUS
  <2>1. TypeOK
    BY TypeParts DEF DIInv
  <2>2. EmittedIsPersisted
    BY DEF DIInv, LogFits, EmittedIsPersisted
  <2>3. UntrackedIsAccounted
    BY DEF DIInv, HeldFits, UntrackedIsAccounted
  <2>4. OneConvergence
    BY DEF DIInv, CancelFits, OneConvergence
  <2> QED
    BY <2>1, <2>2, <2>3, <2>4 DEF DIInv, DeliveryInv
<1> QED
  BY <1>1, DIInvHolds, PTL

\* While the core is up, a bound run that is not settled has its job tracked or
\* its interruption pending, for every number of faults and deaths.
THEOREM OpenRunIsHeldHolds == Spec => []OpenRunIsHeld
<1>1. DIInv => OpenRunIsHeld
  <2> SUFFICES ASSUME DIInv, core = "up", bound, ~job.tracked, interrupted # "pending",
                      status = "running" \/ (status \in TerminalRun /\ delivery = "pending")
               PROVE  status = "running" /\ ingested
    BY DEF OpenRunIsHeld
  <2>1. row = "present" /\ ~Settled
    BY DEF DIInv, StartFits, Settled
  <2>2. interrupted = "no"
    BY <2>1 DEF DIInv, Stores, InterruptedJob, HeldFits
  <2>3. ingested
    BY <2>1, <2>2 DEF DIInv, HeldFits
  <2> QED
    BY <2>3 DEF DIInv, HeldFits
<1> QED
  BY <1>1, DIInvHolds, PTL

\* No step takes a run out of completed or cancelled: the events of a batch
\* fetched before it was closed are refused.
THEOREM ClosedRunIsFinalHolds == Spec => ClosedRunIsFinal
<1> DEFINE Final == row = "present" /\ status \in {"completed", "cancelled"} => status' = status
<1>1. ASSUME DIInv, [Next]_vars PROVE [Final]_vars
  <2> SUFFICES ASSUME row = "present", status \in Closed PROVE status' = status
    BY DEF Closed
  <2> USE <1>1 DEF DIInv, Pumping, db, SetStatus, SetDelivery, BindJob
  <2>1. CASE Pump
    <3>1. CASE PumpProject
      <4>1. through + 1 \in 1 .. Len(log)
        BY <3>1 DEF PumpProject, LogFits, Reading, Numbers, Logs
      <4> QED
        BY <3>1, <4>1, NextStatusOK DEF PumpProject, Stores, Logs
    <3>2. CASE PumpConverge
      BY <3>2, ConvergeOK DEF PumpConverge
    <3>3. CASE PumpSkip \/ PumpFetch \/ PumpRefuse \/ PumpAcknowledge \/ PumpNothingToDeliver
      BY <3>3 DEF PumpSkip, PumpFetch, PumpRefuse, PumpAcknowledge, PumpNothingToDeliver
    <3>4. CASE PumpDeliver \/ PumpIngest \/ PumpRetire \/ PumpGiveUp \/ PumpConfirm
      BY <3>4 DEF PumpDeliver, PumpIngest, PumpRetire, PumpGiveUp, PumpConfirm
    <3> QED
      BY <2>1, <3>1, <3>2, <3>3, <3>4 DEF Pump
  <2>2. CASE Start
    <3>1. CASE StartCleanup
      BY <3>1 DEF StartCleanup, Deleted, StartFits, Early, Closed
    <3>2. CASE StartInsert \/ StartSubmit \/ StartBind \/ StartUndo \/ StartDelete
      BY <3>2 DEF StartInsert, StartSubmit, StartBind, StartUndo, StartDelete, Deleted
    <3> QED
      BY <2>2, <3>1, <3>2 DEF Start
  <2>3. CASE RunGet \/ Cancel \/ Publish \/ WorkerDies \/ CoreDies
    BY <2>3 DEF RunGet, Cancel, Publish, WorkerDies, CoreDies
  <2>4. CASE CancelConverge
    BY <2>4, ConvergeOK DEF CancelConverge
  <2>5. CASE Recover
    BY <2>5 DEF Recover, RecoverRunning, RecoverUndelivered, Closed
  <2>6. CASE UNCHANGED vars
    BY <2>6 DEF vars
  <2> QED
    BY <1>1, <2>1, <2>2, <2>3, <2>4, <2>5, <2>6 DEF Next
<1> QED
  BY <1>1, DIInvHolds, PTL DEF Spec, ClosedRunIsFinal

\* The log as EventLog has it: of a run that is not there nothing is known.
Log == INSTANCE EventLog WITH
           appended <- Len(log),
           acknowledged <- IF row = "present" THEN cursor ELSE 0

\* The core's copy of a job's log is the beginning of the worker's, one event
\* a transaction, and is acknowledged batch by batch, whoever dies or deletes
\* the run in between (phases B and C of pump_cycle, EventLog.append).
THEOREM DeliveryImplementsLog == Spec => Log!Spec
<1>1. Init => Log!Init
  BY DEF Init, Log!Init
<1>2. ASSUME DIInv, [Next]_vars PROVE [Log!Next]_(Log!vars)
  <2> USE DEF Log!vars
  <2> DEFINE Kept == UNCHANGED <<row, persisted, cursor, log>>
  <2>1. CASE PumpProject
    <3>1. /\ row = "present" /\ row' = row /\ cursor' = cursor /\ log' = log
          /\ persisted' = Append(persisted, through + 1)
      BY <2>1 DEF PumpProject, NextStatus, Projected, AppendEvent, memory, worker
    <3>2. Len(persisted) = through /\ through < fetched /\ fetched <= Len(log)
      BY <1>2, <2>1, <3>1 DEF PumpProject, Pumping, DIInv, LogFits, Reading
    <3>3. Len(persisted) < Len(log)
      BY <1>2, <3>2 DEF DIInv, Numbers, Logs
    <3>4. Log!Persist
      BY <3>1, <3>2, <3>3 DEF Log!Persist
    <3> QED
      BY <3>4 DEF Log!Next
  <2>2. CASE PumpAcknowledge
    <3>1. UNCHANGED <<row, persisted, log>> /\ cursor' = through
      BY <2>2 DEF PumpAcknowledge, Acknowledged, db, worker
    <3>2. CASE row = "present"
      <4>1. Len(persisted) = through /\ cursor <= through
        BY <1>2, <2>2, <3>2 DEF PumpAcknowledge, Pumping, DIInv, LogFits, Reading
      <4>2. cursor < Len(persisted) \/ cursor' = cursor
        BY <1>2, <3>1, <4>1 DEF DIInv, Numbers
      <4>3. Log!Acknowledge \/ UNCHANGED Log!vars
        BY <3>1, <3>2, <4>1, <4>2 DEF Log!Acknowledge
      <4> QED
        BY <4>3 DEF Log!Next
    <3>3. CASE row # "present"
      BY <3>1, <3>3
    <3> QED
      BY <3>2, <3>3
  <2>3. CASE StartCleanup \/ StartDelete
    <3>1. UNCHANGED <<cursor, log>> /\ (Deleted \/ UNCHANGED <<row, persisted>>)
      BY <2>3 DEF StartCleanup, StartDelete, memory, worker, db
    <3>2. CASE Deleted
      <4>1. Log!Discard
        BY <3>1, <3>2 DEF Deleted, Log!Discard
      <4> QED
        BY <4>1 DEF Log!Next
    <3> QED
      BY <3>1, <3>2
  <2>4. CASE StartInsert
    BY <1>2, <2>4 DEF StartInsert, DIInv, StartFits, Early, memory, worker
  <2>5. CASE Publish
    <3>1. PICK e \in EventType : log' = Append(log, e)
      BY <2>5 DEF Publish, NextEvents, EventType, RunEnd
    <3>2. Len(log') = Len(log) + 1
      BY <1>2, <3>1 DEF DIInv, Logs
    <3>3. Log!AppendEvent
      BY <2>5, <3>2 DEF Publish, db, memory, Log!AppendEvent
    <3> QED
      BY <3>3 DEF Log!Next
  <2>6. CASE CoreDies
    <3>1. UNCHANGED <<row, persisted, log>> /\ cursor' = 0
      BY <2>6 DEF CoreDies, Empty, db
    <3>2. Log!Forget
      BY <3>1 DEF Log!Forget
    <3> QED
      BY <3>2 DEF Log!Next
  <2>7. CASE PumpSkip \/ PumpRefuse \/ PumpNothingToDeliver \/ PumpIngest \/ PumpRetire
             \/ PumpGiveUp \/ PumpConverge \/ PumpConfirm
    <3>1. Kept
      BY <2>7 DEF PumpSkip, PumpRefuse, PumpNothingToDeliver, PumpIngest, PumpRetire,
             PumpGiveUp, PumpConverge, PumpConfirm, ConvergeWorkerLost, ConvergeCancelled,
             db, memory, worker
    <3> QED
      BY <3>1
  <2>8. CASE PumpFetch \/ PumpDeliver \/ StartSubmit \/ StartUndo \/ RunGet \/ Cancel
    <3>1. Kept
      BY <2>8 DEF PumpFetch, PumpDeliver, StartSubmit, StartUndo, RunGet, Cancel, Attach, db
    <3> QED
      BY <3>1
  <2>9. CASE StartBind \/ CancelConverge \/ WorkerDies \/ Recover \/ UNCHANGED vars
    <3>1. Kept
      BY <2>9 DEF StartBind, CancelConverge, WorkerDies, Recover, RecoverRunning,
             RecoverUndelivered, ConvergeWorkerLost, ConvergeCancelled, SetDelivery,
             vars, db, memory, worker
    <3> QED
      BY <3>1
  <2> QED
    BY <1>2, <2>1, <2>2, <2>3, <2>4, <2>5, <2>6, <2>7, <2>8, <2>9 DEF Next, Pump, Start
<1> QED
  BY <1>1, <1>2, DIInvHolds, PTL DEF Spec, Log!Spec
=============================================================================
