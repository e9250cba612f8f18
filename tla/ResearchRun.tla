---------------------------- MODULE ResearchRun ----------------------------
(***************************************************************************)
(* The worker's DAG runner and the core's projection together: the runner  *)
(* appends events, the pump applies them to the core's database in order.  *)
(* A task of the worker is the core's task of the same id (ADR-024: the    *)
(* executed DAG is the approved DAG, task ids verbatim).                   *)
(*                                                                         *)
(* An event the core rejects is retried a few times and then stalls the    *)
(* job: nothing behind it is applied any more (stalled).  Behind the job's *)
(* end (pc = "ended": job.* is in the log, and moves nothing in the core)  *)
(* attempts may still report; the core applies such a report if it comes   *)
(* before the job's results are in, and lets go of the job then.           *)
(***************************************************************************)
EXTENDS DagRunner

VARIABLES
    taskStatus, claimed, checkpoint, errorRef, retries, runStatus,  \* the core
    stalled,    \* the core has given up on the job's events
    retired,    \* the job's results are in: the core polls it no more
    missed      \* the tasks of which an event came after that

Core == INSTANCE TaskOrchestrator WITH
            SkipOk <- Deps,          \* the default condition of an edge
            MaxRetries <- MaxAttempts

core == <<taskStatus, claimed, checkpoint, errorRef, retries, runStatus>>
link == <<stalled, retired, missed>>
allvars == <<rvars, core, link>>

IsTaskEvent(e) == e.type \in DOMAIN Core!TaskTarget

Accepted(e) ==
    IF IsTaskEvent(e) THEN Core!AcceptsTaskEvent(e.type, e.task)
    ELSE Core!AcceptsRunEvent(e.type)

Apply(e) ==
    IF IsTaskEvent(e) THEN Core!ApplyTaskEvent(e.type, e.task)
    ELSE Core!ApplyRunEvent(e.type)

\* The worker steps on its own.
Worker == Step /\ UNCHANGED <<core, link>>

Project ==
    /\ ~stalled /\ ~retired /\ unread # <<>> /\ Accepted(Head(unread))
    /\ Read
    /\ Apply(Head(unread))
    /\ UNCHANGED link

Stall ==
    /\ ~stalled /\ ~retired /\ unread # <<>> /\ ~Accepted(Head(unread))
    /\ Read
    /\ stalled' = TRUE
    /\ UNCHANGED <<core, retired, missed>>

\* Behind a stall the worker goes on, unheard.
Unheard == stalled /\ Read /\ UNCHANGED <<core, link>>

\* The job's results are fetched and ingested, at the first try or a later one.
Retire ==
    /\ pc = "ended" /\ ~stalled /\ ~retired
    /\ retired' = TRUE
    /\ UNCHANGED <<rvars, core, stalled, missed>>

\* An attempt reports when nobody polls its job any more.
Miss ==
    /\ retired /\ Read
    /\ missed' = missed \cup {Head(unread).task}
    /\ UNCHANGED <<core, stalled, retired>>

RRInit == Init /\ Core!Init /\ stalled = FALSE /\ retired = FALSE /\ missed = {}
RRNext == Worker \/ Project \/ Stall \/ Unheard \/ Retire \/ Miss
          \/ (Terminated /\ UNCHANGED <<core, link>>)
RRSpec == RRInit /\ [][RRNext]_allvars

-----------------------------------------------------------------------------
(* What the core shows of a run, beside what the worker does.              *)

RRTypeOK ==
    /\ TypeOK /\ Core!TypeOK
    /\ stalled \in BOOLEAN /\ retired \in BOOLEAN /\ missed \subseteq Tasks

\* The core never claims more than the worker has done: a task it shows as
\* completed is so in the worker's store, which wrote first; one it shows
\* under review is too, or was, until a cancellation overtook the event.
TasksNeverAhead ==
    \A t \in Tasks :
        /\ taskStatus[t] = "COMPLETED"    => status[t] = "COMPLETED"
        /\ taskStatus[t] = "NEEDS_REVIEW" => status[t] \in {"NEEDS_REVIEW", "CANCELLED"}
        /\ taskStatus[t] = "RUNNING"      => attempt[t] > 0

\* A run is shown cancelled only when its user cancelled it.
CancelledOnlyByUser == runStatus = "cancelled" => cancelled

\* Neither of a task nor of the run does the core say more than is so.
CoreIsNeverAhead == RRTypeOK /\ TasksNeverAhead /\ CancelledOnlyByUser

Quiet == pc = "ended" /\ unread = <<>> /\ \A t \in Tasks : work[t] = Idle

\* When an uncancelled run has come to rest and no event was refused, core and
\* worker tell the same story: the same tasks completed, await review and
\* failed, except those the core failed early and the worker never reached, and
\* those that reported after the job was retired.
RestAgrees ==
    Quiet /\ ~stalled /\ ~cancelled
        => \A t \in Tasks \ missed :
                \/ taskStatus[t] = status[t]
                \/ taskStatus[t] = "FAILED" /\ status[t] = "PENDING"

\* A run the worker completed or cancelled ends so in the core, unless an
\* event was refused; with a task under review it may be parked instead,
\* by the order of the last two events; and it is left running only with a
\* task whose last report came after the job was retired.  (Of a failed run
\* nothing is said: a task event that follows run.failed may reopen it.)
RunsEndAlike ==
    Quiet /\ ~stalled
        => /\ run = "COMPLETED" => \/ runStatus = "completed"
                                  \/ /\ runStatus = "needs_review"
                                     /\ \E t \in Tasks : status[t] = "NEEDS_REVIEW"
                                  \/ /\ runStatus = "running"
                                     /\ \E t \in missed : taskStatus[t] = "RUNNING"
           /\ run = "CANCELLED" => runStatus = "cancelled"
=============================================================================
