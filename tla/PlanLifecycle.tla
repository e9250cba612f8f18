--------------------------- MODULE PlanLifecycle ---------------------------
(***************************************************************************)
(* One project: its research configurations, the generations of its plan   *)
(* and their review, the gaps whose follow-up tasks are attached to them,  *)
(* and the gate through which a plan becomes a run and its tasks a job.  A *)
(* step is what a command does under the database's mutex, or the          *)
(* projection of one event; run_start gives the mutex back while it        *)
(* submits its job, so any other command may come in between.              *)
(*                                                                         *)
(* A task is PENDING or begun (started, failed, closed): the gates ask for *)
(* no more.  What status a run gets from its events is TaskOrchestrator's  *)
(* subject; here it is any that fits.  Rows are ordered by age (UUIDv7 ids *)
(* and creation times are taken to be monotonic).  Which dimensions have a *)
(* gap depends on what was found: any may, at any time.                    *)
(***************************************************************************)
EXTENDS Integers, Sequences, FiniteSets, SequencesExt

CONSTANTS
    Dims,       \* the research dimensions
    GapDims,    \* those of them that may have a gap
    Topic,      \* the topics of research
    Inputs,     \* the configurations the user may send
    Extra,      \* sections a plan has beyond its depth (3 in the code)
    MaxConfigs, \* bound: generations of the configuration
    MaxPlans,   \* bound: generations of the plan
    MaxRuns,    \* bound: runs ever started
    MaxWork     \* bound: configurations, edits, plans and runs, together

\* A configuration, as far as plans and jobs depend on it; its dimensions are
\* a list, its depth is at least 1 (CHECK of the table).
Config == [topic : Topic, dims : Seq(Dims), depth : Nat \ {0}]

ASSUME PlanBoundsAssumption ==
    {MaxConfigs, MaxPlans, MaxRuns, MaxWork, Extra} \subseteq Nat
ASSUME InputsAssumption ==
    /\ GapDims \subseteq Dims /\ IsFiniteSet(GapDims) /\ \A c \in Inputs : c \in Config
    /\ "gap" \notin Topic   \* a search brief and the proposal of a gap are told apart

VARIABLES
    config,    \* the research_configs rows; none before the project is created
    plan,      \* the plans rows, by generation; the last is the current plan
    task,      \* the tasks rows, with their dependencies and section
    run,       \* the runs rows, and where the run_start of each is
    decision,  \* the gap_decisions rows, "none" where there is no row
    edits      \* edits so far

pvars == <<config, plan, task, run, decision, edits>>

PlanStatus == {"draft", "approved", "rejected", "superseded"}
Active     == {"running", "needs_review"}
\* "ended" is completed or failed: nothing here tells them apart.
RunStatus  == Active \cup {"ended", "cancelled", "deleted"}
TaskType   == {"search", "source_evaluation", "normalization", "validation", "synthesis"}

\* The dimension of a plan without dimensions.
Concepts == "concepts"

\* What a description says: a search brief on a topic and a dimension, the
\* task's fixed text, the proposal of a gap, what the user wrote, or nothing.
Brief(topic, d) == <<topic, d>>
Fixed  == <<"fixed">>
Gap(d) == <<"gap", d>>
Edited == <<"edited">>
Empty  == <<>>
Text   == {Fixed, Edited, Empty} \cup {Gap(d) : d \in GapDims}
          \cup {Brief(c, d) : c \in Topic, d \in Dims \cup {Concepts}}

NoJob      == [config |-> 0, query |-> <<>>]
NoDecision == [status |-> "none", task |-> 0]

TypeOK ==
    /\ config \in Seq(Inputs)
    /\ edits \in Nat /\ Len(config) + edits + Len(plan) + Len(run) <= MaxWork
    /\ plan \in Seq([status : PlanStatus, config : DOMAIN config]) /\ Len(plan) <= MaxPlans
    /\ \A t \in DOMAIN task :
        task[t] \in [plan : DOMAIN plan, section : Nat \ {0}, type : TaskType, text : Text,
                     after : SUBSET (1 .. t - 1), begun : BOOLEAN, run : 0 .. Len(run)]
    /\ \A r \in DOMAIN run :
        /\ run[r].plan \in DOMAIN plan /\ run[r].status \in RunStatus
        /\ run[r].sent \subseteq DOMAIN task /\ run[r].started \in BOOLEAN
        /\ run[r].at \in {"submitting", "refused", "submitted", "done"}
    /\ decision \in [GapDims -> [status : {"none", "approved", "dismissed"},
                              task : 0 .. Len(task)]]

-----------------------------------------------------------------------------

Room == Len(config) + edits + Len(plan) + Len(run) < MaxWork

Current == Len(plan)

TasksOf(p) == {t \in DOMAIN task : task[t].plan = p}
Claims(r)  == {t \in DOMAIN task : task[t].run = r}

\* No run has claimed the task and nothing has happened to it.
Untouched(t) == ~task[t].begun /\ task[t].run = 0

\* Mutant: a claim alone does not spend a plan.
FreshByStatus(p) == \A t \in TasksOf(p) : ~task[t].begun

\* The plan has not been executed, not even in part.
Fresh(p) == \A t \in TasksOf(p) : Untouched(t)

\* Mutant: nobody looks.
IdleAnyway(p) == TRUE

\* The plan has no run under way.
Idle(p) == ~ \E r \in DOMAIN run : run[r].plan = p /\ run[r].status \in Active

NewTask(p, section, type, text, after) ==
    [plan |-> p, section |-> section, type |-> type, text |-> text, after |-> after,
     begun |-> FALSE, run |-> 0]

-----------------------------------------------------------------------------
(* The project and its configuration.                                      *)

Latest == Len(config)

InsertConfig(c) == config' = Append(config, c)

\* project_create: the project comes with its first configuration.
CreateProject ==
    /\ config = <<>> /\ Room
    /\ \E c \in Inputs : InsertConfig(c)
    /\ UNCHANGED <<plan, task, run, decision, edits>>

\* research_config_put: a new generation; plans keep the one they were built from.
PutConfig ==
    /\ config # <<>> /\ Room /\ Len(config) < MaxConfigs
    /\ \E c \in Inputs \ {config[Latest]} : InsertConfig(c)
    /\ UNCHANGED <<plan, task, run, decision, edits>>

-----------------------------------------------------------------------------
(* The draft the scripted planner makes of a configuration.                *)

\* So many of the dimensions, in their order, get a section.
Breadth(c) == IF Len(c.dims) < c.depth + Extra THEN Len(c.dims) ELSE c.depth + Extra

\* The dimension of each section; the last section validates and sums up.
Sections(c) ==
    SubSeq(c.dims, 1, Breadth(c)) \o <<IF c.dims = <<>> THEN Concepts ELSE c.dims[1]>>

\* The three tasks of a section, each after the one before; row is the number
\* of the task rows there are.
Chain(c, p, i, row) ==
    LET k == row + 3 * (i - 1)
    IN  << NewTask(p, i, "search", Brief(c.topic, c.dims[i]), {}),
           NewTask(p, i, "source_evaluation", Fixed, {k + 1}),
           NewTask(p, i, "normalization", Fixed, {k + 2}) >>

\* What the validation waits for: the normalization of every section.
FanIn(n, row) == {row + 3 * i : i \in 1 .. n}

\* scripted_plan_draft
Draft(c, p, row) ==
    LET n == Breadth(c)
    IN  [j \in 1 .. 3 * n |-> LET i == (j - 1) \div 3
                              IN  Chain(c, p, i + 1, row)[j - 3 * i]]
        \o << NewTask(p, n + 1, "validation", Fixed, FanIn(n, row)),
              NewTask(p, n + 1, "synthesis", Fixed, {row + 3 * n + 1}) >>

-----------------------------------------------------------------------------
(* The review of plans.                                                    *)

\* Mutant: only approved plans hand their follow-ups on.
CarriesFromApproved(d) ==
    /\ decision[d].status = "approved" /\ Untouched(decision[d].task)
    /\ plan[task[decision[d].task].plan].status = "approved"

\* The follow-ups a new generation takes over.
Carries(d) == decision[d].status = "approved" /\ Untouched(decision[d].task)

\* The section of the plan for the dimension, or the first.
SectionFor(c, d) ==
    LET of == {i \in DOMAIN Sections(c) : Sections(c)[i] = d}
    IN  IF of = {} THEN 1 ELSE Min(of)

\* Mutant: the follow-up is proposed anew.
CarriedAnew(d, c, p) == NewTask(p, SectionFor(c, d), "search", Gap(d), {})

\* The copy of the follow-up of d that plan p gets.
Carried(d, c, p) ==
    LET old == task[decision[d].task]
    IN  NewTask(p, SectionFor(c, d), old.type, old.text, {})

\* The plans rows when a new generation comes.
Superseded == [p \in DOMAIN plan |-> [plan[p] EXCEPT !.status = "superseded"]]

\* plan_regenerate: everything before is superseded; the new draft, of the
\* latest configuration, has tasks of its own and copies of the follow-ups,
\* which the decisions are linked to.
Regenerate ==
    /\ config # <<>> /\ Room /\ Len(plan) < MaxPlans
    /\ LET new     == Len(plan) + 1
           c       == config[Latest]
           draft   == Draft(c, new, Len(task))
           carried == SetToSeq({d \in GapDims : Carries(d)})
       IN  /\ plan' = Append(Superseded, [status |-> "draft", config |-> Latest])
           /\ task' = task \o draft \o [i \in DOMAIN carried |-> Carried(carried[i], c, new)]
           /\ decision' = [d \in GapDims |->
                IF Carries(d)
                THEN [status |-> "approved",
                      task |-> Len(task) + Len(draft)
                               + (CHOOSE i \in DOMAIN carried : carried[i] = d)]
                ELSE decision[d]]
    /\ UNCHANGED <<config, run, edits>>

\* Mutant: a task can be edited as long as its plan has not run.
EditableUntilRun(t) == plan[task[t].plan].status \in {"draft", "approved"} /\ Untouched(t)

\* The tasks of a draft can be edited.
Editable(t) == plan[task[t].plan].status = "draft"

SetText(t, text) == task' = [task EXCEPT ![t].text = text]

\* plan_update_task, as far as it decides what is executed: the description of
\* a search.
UpdateTask(t) ==
    /\ Room /\ edits' = edits + 1
    /\ task[t].type = "search"
    /\ Editable(t)
    /\ \E text \in {Edited, Empty} : SetText(t, text)
    /\ UNCHANGED <<config, plan, run, decision>>

SetStatus(p, status) == plan' = [plan EXCEPT ![p].status = status]

\* plan_approve asks for no status: any plan of the project may be named.
Approve(p) ==
    /\ SetStatus(p, "approved")
    /\ UNCHANGED <<config, task, run, decision, edits>>

\* plan_reject names the current plan.
Reject ==
    /\ plan # <<>>
    /\ SetStatus(Current, "rejected")
    /\ UNCHANGED <<config, task, run, decision, edits>>

-----------------------------------------------------------------------------
(* Gaps.                                                                   *)

\* ensure_plan_can_execute
CanExecute(p) == plan[p].status \in {"draft", "approved"} /\ Idle(p) /\ Fresh(p)

\* The gap can be in the report: of the latest configuration, not dismissed.
Reported(d) ==
    /\ plan # <<>> /\ decision[d].status # "dismissed"
    /\ \E i \in DOMAIN config[Latest].dims : config[Latest].dims[i] = d

Decide(d, status, t) ==
    decision' = [decision EXCEPT ![d] = [status |-> status, task |-> t]]

\* The follow-up goes to the plan's first section, whatever its dimension.
FollowUp(d) == NewTask(Current, 1, "search", Gap(d), {})

\* A gap that was approved already is left alone while its follow-up waits.
ApproveGap(d) ==
    /\ Reported(d) /\ ~Carries(d)
    /\ CanExecute(Current)
    /\ task' = Append(task, FollowUp(d))
    /\ Decide(d, "approved", Len(task) + 1)
    /\ UNCHANGED <<config, plan, run, edits>>

\* A dismissed gap is not reported any more; its task, if any, stays.
DismissGap(d) ==
    /\ Reported(d)
    /\ Decide(d, "dismissed", 0)
    /\ UNCHANGED <<config, plan, task, run, edits>>

-----------------------------------------------------------------------------
(* run_start.                                                              *)

\* The search query of a task: its description, or else the topic of the plan's
\* configuration and the dimension of its section.
Query(t) ==
    LET c == config[plan[task[t].plan].config]
    IN  IF task[t].text # Empty THEN task[t].text
        ELSE Brief(c.topic, Sections(c)[task[t].section])

\* What travels with the job: the configuration the plan was built from and
\* all its tasks as they stand (approved_plan_wire, research_config_wire).
JobOf(p) == [config |-> plan[p].config, query |-> [t \in TasksOf(p) |-> Query(t)]]

NewRun(p) == [plan |-> p, status |-> "running", sent |-> TasksOf(p), job |-> JobOf(p),
              started |-> FALSE, at |-> "submitting"]

\* Phase 1: the gate, the job, the row.
Start(p) ==
    /\ Room /\ Len(run) < MaxRuns
    /\ plan[p].status = "approved" /\ Idle(p) /\ Fresh(p)
    /\ run' = Append(run, NewRun(p))
    /\ UNCHANGED <<config, plan, task, decision, edits>>

\* The run's row gets a status, and its run_start a place.
Move(r, to, at) == run' = [run EXCEPT ![r].status = to, ![r].at = at]

\* Deleting a run's row sets the run_id of its tasks to NULL.
Undo(r) ==
    /\ run' = [run EXCEPT ![r] = [plan |-> @.plan, status |-> "deleted", sent |-> {},
                                  job |-> NoJob, started |-> FALSE, at |-> "done"]]
    /\ task' = [t \in DOMAIN task |-> IF task[t].run = r THEN [task[t] EXCEPT !.run = 0]
                                      ELSE task[t]]

\* Phase 2: the submission, which may fail; then the row goes, or the run is
\* closed as failed.  In either case the core listens to no job.
Submit(r) ==
    /\ run[r].at = "submitting"
    /\ \/ Move(r, run[r].status, "submitted") /\ UNCHANGED task
       \/ Undo(r)
       \/ Move(r, "ended", "refused") /\ UNCHANGED task
    /\ UNCHANGED <<config, plan, decision, edits>>

\* Phase 3: the binding; if it fails, the row goes, if it can.  The pump has
\* been projecting the job's events since it was submitted.
Bind(r) ==
    /\ run[r].at = "submitted"
    /\ \/ Move(r, run[r].status, "done") /\ UNCHANGED task
       \/ Undo(r)
    /\ UNCHANGED <<config, plan, decision, edits>>

-----------------------------------------------------------------------------
(* The events of a run, projected.                                         *)

\* Events of the run's job reach the core and find its row open.
Heard(r) == run[r].at \in {"submitted", "done"} /\ run[r].status \notin {"deleted", "cancelled"}

\* What is unclaimed and PENDING in the run's plan becomes the run's.
Claim(r) ==
    task' = [t \in DOMAIN task |->
               IF task[t].plan = run[r].plan /\ Untouched(t)
               THEN [task[t] EXCEPT !.run = r] ELSE task[t]]

RunStarted(r) ==
    /\ Heard(r) /\ ~run[r].started
    /\ run' = [run EXCEPT ![r].started = TRUE, ![r].status = "running"]
    /\ Claim(r)
    /\ UNCHANGED <<config, plan, decision, edits>>

Begun(S) == [t \in DOMAIN task |-> IF t \in S THEN [task[t] EXCEPT !.begun = TRUE] ELSE task[t]]

\* The rollup makes of the run's status what its tasks say.  A run with a
\* PENDING task does not end so, but one that ended may be reopened.
Rollup(r) ==
    \E to \in Active \cup
              (IF \E x \in Claims(r) : ~task'[x].begun THEN {} ELSE {"ended", "cancelled"}) :
        Move(r, to, run[r].at)

\* The first event of one of the run's tasks: of one that waits for none.
FirstTaskEvent(r, t) ==
    /\ Heard(r) /\ run[r].started
    /\ t \in run[r].sent /\ task[t].after = {}
    /\ \A u \in run[r].sent : ~task[u].begun
    /\ task' = Begun({t})
    /\ Rollup(r)
    /\ UNCHANGED <<config, plan, decision, edits>>

\* Bound: all the events of its other tasks are taken together.
LaterTaskEvents(r) ==
    /\ Heard(r) /\ run[r].started
    /\ \E t \in run[r].sent : task[t].begun
    /\ task' = Begun(run[r].sent)
    /\ Rollup(r)
    /\ UNCHANGED <<config, plan, decision, edits>>

\* A run closed as cancelled closes its PENDING tasks with it.
Cancelled(r, at) ==
    /\ Move(r, "cancelled", at)
    /\ task' = Begun(Claims(r))

\* run.completed, run.failed and run.cancelled.
RunEnded(r) ==
    /\ Heard(r) /\ run[r].started /\ run[r].status \in Active
    /\ \/ Move(r, "ended", run[r].at) /\ UNCHANGED task
       \/ Cancelled(r, run[r].at)
    /\ UNCHANGED <<config, plan, decision, edits>>

\* The worker is gone, or the core was: the run is cancelled locally.  A crash
\* of the core ends its run_start too.
Converge(r) ==
    /\ run[r].status = "running"
    /\ \E at \in {"done"} \cup ({run[r].at} \ {"submitting"}) : Cancelled(r, at)
    /\ UNCHANGED <<config, plan, decision, edits>>

-----------------------------------------------------------------------------

Init ==
    /\ config = <<>> /\ plan = <<>> /\ task = <<>> /\ run = <<>>
    /\ decision = [d \in GapDims |-> NoDecision]
    /\ edits = 0

Next ==
    \/ CreateProject \/ PutConfig \/ Regenerate \/ Reject
    \/ \E p \in DOMAIN plan : Approve(p) \/ Start(p)
    \/ \E t \in DOMAIN task : UpdateTask(t)
    \/ \E d \in GapDims : ApproveGap(d) \/ DismissGap(d)
    \/ \E r \in DOMAIN run :
        \/ Submit(r) \/ Bind(r) \/ RunStarted(r) \/ RunEnded(r) \/ Converge(r)
        \/ LaterTaskEvents(r)
        \/ \E t \in run[r].sent : FirstTaskEvent(r, t)

Spec == Init /\ [][Next]_pvars

-----------------------------------------------------------------------------
(* What should hold.                                                       *)

\* "one non-terminal run per plan" (run_start): also when a run that had ended
\* is reopened by a late event, for its plan is spent by then.
OneActiveRunPerPlan ==
    \A r, s \in DOMAIN run :
        run[r].plan = run[s].plan /\ run[r].status \in Active /\ run[s].status \in Active
            => r = s

\* A plan is executed once: no two runs of it have both started, but for those
\* whose row was removed again (an undone run_start).
PlanRunsOnce ==
    \A r, s \in DOMAIN run :
        run[r].plan = run[s].plan /\ run[r].started /\ run[s].started => r = s

\* What a started run has claimed is what its job was given: no task is added
\* to the plan, or taken from it, between run_start and run.started.
JobMatchesClaims ==
    \A r \in DOMAIN run :
        run[r].started => Claims(r) = run[r].sent

\* An accepted follow-up that waits, waits in the current plan, however often
\* the plan is regenerated; unless the run that had claimed it was undone.
FollowUpReachable ==
    \A d \in GapDims :
        Carries(d) =>
            LET p == task[decision[d].task].plan
            IN  \/ p = Current
                \/ \E r \in DOMAIN run : run[r].plan = p /\ run[r].status = "deleted"

\* A job asks what was reviewed: its queries are what its tasks say, to the end
\* of the run, and the topic of every brief is that of the configuration it
\* carries (run_start; the edits of plan_update_task, research_config_put).
JobIsWhatWasReviewed ==
    \A r \in DOMAIN run :
        LET job == run[r].job
        IN  \A t \in run[r].sent :
                /\ job.query[t] = Query(t)
                /\ \A c \in Topic, d \in Dims : job.query[t] = Brief(c, d) =>
                        c = config[job.config].topic

\* The synthesis of a plan sees all: whatever the planner made (its tasks stand
\* before the synthesis) something of the same plan waits for, and nothing waits
\* for a task of another generation.
SynthesisIsLast ==
    \A t \in DOMAIN task :
        /\ \A u \in task[t].after : task[u].plan = task[t].plan
        /\ (\E s \in TasksOf(task[t].plan) : task[s].type = "synthesis" /\ t < s)
                => \E u \in DOMAIN task : t \in task[u].after

\* A run does what was reviewed: its job has the tasks its run claims, with the
\* texts and the topic under review, and a synthesis behind them all.
JobInv == TypeOK /\ JobMatchesClaims /\ JobIsWhatWasReviewed /\ SynthesisIsLast

\* An accepted follow-up says what it said, or what the user has made of it,
\* through every regeneration.
FollowUpKeepsItsText ==
    [][\A d \in GapDims :
            Carries(d) /\ Carries(d)' /\ edits' = edits
                => task'[decision'[d].task].text = task[decision[d].task].text]_pvars
=============================================================================
