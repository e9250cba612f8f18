# A formal model of Morpho Research OS

Morpho Research OS is a desktop application (Tauri: a Rust core and a web user
interface) that plans and runs research projects. The core keeps everything
durable in SQLite and in a Markdown vault; the research itself is done by a
Python worker, a child process that runs a plan's task graph and streams
events back. This directory holds TLA+ modules of the parts of that system
whose correctness depends on the order in which things happen, the TLC
configurations that check them on small instances, and proofs, checked by
TLAPS, of what holds for every instance.

Paths below are relative to `src/`; `core/` abbreviates
`apps/desktop/src-tauri/src/` and `worker/` abbreviates
`apps/research-worker/src/morpho_worker/`.

## 1. The system

### How it fits together

    UI -- commands --> core: SQLite | supervisor | event pump | vault
                         |  HTTP: submit, cancel, events since n, results
                         v
                       worker: job thread -> DAG runner -> executor threads

A run goes like this. `run_start` inserts the run's row, submits a job to the
worker and binds the job's id to the row. In the worker the job's thread drives
the DAG runner, whose executor threads run the tasks and append events to the
job's log. The core's pump polls that log, persists and *projects* each event
on the run and task rows, acknowledges it and sends it to the windows. When
the job's terminal event is persisted, the pump fetches the job's results and
ingests them. `run_cancel` tells the worker, or, if the worker has lost the
job, converges the run locally. When the core starts again it converges what
the last process left open.

Around a run, the user configures providers and keys, describes the research,
reviews a plan, approves it, and later accepts or dismisses the gaps the
coverage report names; and exports what was found as Markdown notes, into a
vault the user edits with another program.

The core has two mutexes, the database's and the supervisor's, and never holds
both: every operation that needs both is a sequence of critical sections with
gaps between them. Where files, sockets and child processes take part, no mutex
helps. That is where most of what is modelled here happens.

### Inventory

| Component | State it keeps | Operations | What is hard | What makes it correct |
|---|---|---|---|---|
| Projection, `core/orchestrator.rs` | `runs.status`; per task: status, run, checkpoint, error, retry count | one handler per event type; dependency gate; failure cascade; run rollup | events in any order, repeated, late; bulk writes beside a transition table | tasks start only with inputs; closed stays closed; the run's status is true of its tasks |
| DAG runner, `worker/dag/` | task store, inflight set, requeue table, cancel flag | scheduling loop, attempts, retries, cascade, finalization, cancel | store write, event and bookkeeping of an attempt are separate steps; cancel at any point | no overlap of attempts; an end that is true of the tasks; every job ends |
| Research orchestrator and stages, `worker/orchestrator.py`, `stages/`, `pipeline/structured.py` | plan, results of tasks, the job's sink, cached model answers | execute a provided plan, or plan and execute; handlers of search, evaluation, extraction, normalization, claims, validation, writing | results stored after the status that releases dependents; tasks added to a running plan; readiness beyond dependencies | the sources, extractions, nodes and claims a stored result names are in the sink, a claim with evidence; evidence comes with its claim and content; conflicts are flagged |
| Job service and log, `worker/jobs.py`, `events.py` | jobs, one append-only log per job | submit, cancel, events since n as a stream, results | cancel reads first and acts later; a stream's end is decided from two reads; threads append behind the job's end | one terminal event; a clean end has carried it and all before it |
| Transport, `core/worker/http.rs`, `process.rs`, `worker/transport.py` | a connection per poll; a child process | poll, decode, spawn, stop | a stream cut anywhere: time, silence, bytes, connection | no torn event, none twice, none skipped |
| Supervisor, `core/worker/mod.rs` | transport, tracked jobs with cursor and budgets, interruptions | ensure_started, submit, poll, acknowledge, fetch results, cancel | a dead worker is noticed late; restart, projection and delivery budgets; a start that fails half way | no job is dropped unaccounted; a ready worker is the core's own and configured |
| Event pump, `core/state.rs` | none of its own | cycle of phases A to E | decisions taken under one lock, carried out under the other | events persist once and in order; emitted means persisted; results land |
| Recovery, `core/recovery.rs` | none of its own | startup convergence, convergence of a lost run | the same run is found by three parties; failing writes | one convergence; an open run is closed or held |
| Run commands, `core/commands.rs` | none of their own | run_start in three phases, run_get, run_cancel | partial failure in each phase | no orphan row, no orphan job |
| Ingestion, `core/ingestion.rs`, the domain repositories | domain tables, content files | ingest a result batch | one transaction and many files; scoped and unscoped ids; redelivery | all or nothing, once; every row's file is there; references resolve |
| Plan lifecycle, `core/repositories/plans.rs`, `services.rs`, `configs.rs`, `gap_decisions.rs` | configurations, plan versions and statuses, tasks, gap decisions | configure, draft, edit, regenerate, approve, reject, decide gaps | edits of a plan that runs; carrying follow-ups over | one active run per plan; a job is what was reviewed; no follow-up lost |
| Coverage, `core/coverage.rs` | none of its own | report per dimension | which rows belong to a dimension | a reported gap is one |
| Vault, `core/vault.rs` | note files, temporary files, the index of what was written | export, merge proposals, resolve | the user edits beside it; a crash between file and row | the user's bytes survive; no torn note; a conflict has a cause |
| Configuration and secrets, `core/secrets.rs`, `worker/config.py` | configuration file, key stores | capture, put, store a key, resolve at spawn | four places that must agree, through variables' names | a worker serves what was configured, with a current key |
| Incremental runs, `worker/incremental.py` | baselines per project | compare, reuse | | in the product the baseline is always empty (section 6) |
| Read models, migrations, IPC, UI, shared packages | | | none of concurrency or recovery | |

## 2. The modules

| Module | Models | Builds on |
|---|---|---|
| `TaskOrchestrator` | the core's projection | |
| `DagRunner` | the worker's runner, its threads, the job's end and cancel | |
| `ResearchRun` | the runner with the projection applied to its events | extends `DagRunner`, instantiates `TaskOrchestrator` |
| `ResearchStages` | what the tasks of a run do to the job's results | |
| `RunDelivery` | supervisor, pump, run commands, ingestion's outcome, recovery | |
| `EventStream` | how a job's events get from the worker's log to the core's | |
| `EventLog` | the two logs of a job, as the rest of the system may think of them | instantiated by the proofs about `RunDelivery` and `EventStream`, which implement it |
| `ProviderSettings` | configuration file, key stores, a worker's environment | |
| `WorkerSession` | the life of a worker process under the supervisor | extends `ProviderSettings` |
| `ResultIngestion` | a batch of results, its transaction and its files | |
| `PlanLifecycle` | configurations, plans, edits, gap decisions, the gates of `run_start` | |
| `GapReport` | which dimensions the coverage report calls a gap | |
| `VaultExport` | the export into the Markdown vault, beside its user | |
| `...Proofs` | the theorems about the module of that name: `TaskOrchestrator`, `ResearchRun` (and `DagRunner` with it), `RunDelivery`, `EventStream`, `ResultIngestion`, `PlanLifecycle`, `VaultExport` | extends it |
| `WorkerProofs` | the theorems about `WorkerSession` and `ResearchStages` | extends both |
| `MC...` | the plans, batches, notes and configurations TLC explores | extends the module of that name |

Operators whose comment starts with *Mutant* are not part of the model: each is
a definition as a plausible bug would have it, kept beside the right one to
show that some property notices the difference (`PROJECT.json`, `mutants`).

How they fit together: `TaskOrchestrator` and `DagRunner` are composed in
`ResearchRun`. `RunDelivery` takes of the projection only which status an event
may lead to, of `EventStream` that a poll returns a part of the log from the
cursor on, of `WorkerSession` that a start succeeds or does not, and of
`ResultIngestion` that a batch lands or fails as a whole; those modules are
where these assumptions are examined. What `RunDelivery` takes of `EventStream`
is also stated by itself, in `EventLog`: the worker's log grows, the core takes
over its events one by one behind the last, and acknowledges what it has. Both
modules are proved to implement it. `ResearchStages` takes of `DagRunner`
that attempts do not overlap and start with their inputs completed.

### TaskOrchestrator

One action per event type of `apply_in_tx`; a step is one committed
transaction, with everything the handler does in it: the gate
(`ensure_startable`), the move, the cascade over the dependents and the rollup
of the run. A rejected event rolls back, so it is no step;
`AcceptsTaskEvent` and `AcceptsRunEvent` say which events those are. Any event
may come at any time: the code promises to survive that.

| Variable | Column |
|---|---|
| `taskStatus`, `claimed` | `tasks.status`, `tasks.run_id` is the run |
| `checkpoint`, `errorRef` | whether `tasks.checkpoint`, `tasks.error_ref` is set |
| `retries` | `tasks.retry_count` |
| `runStatus` | `runs.status` |

Constants: `Tasks`, `Deps` (the dependency rows), `SkipOk` (the rows with
condition `completed-or-skipped`). `MaxRetries` is a bound of the model: the
core counts retries and sets no limit, so a retry beyond it is not explored.
The graph is not assumed to be acyclic.

`RolledUp` shows how two paths differ: a rollup to `needs_review`, `completed`,
`failed` or `cancelled` asks `RunMayMove` and otherwise rejects the event; a
rollup that finds a task in flight writes `running` without asking.

### DagRunner

The scheduler's thread, one executor thread per attempt, and the HTTP thread
that cancels. A step is what a thread does between two points at which another
can act. So an iteration of the loop is one step (it holds the condition), and
the end of an attempt is four: leave `inflight` (`Return`), write the store
(`Store`), append the event (`Emit`), arrange the retry or fail the dependents
(`Requeue`, `Cascade`). Finalization is again several steps: list the tasks
(`Snapshot`), read the cancel flag (`Decide...`), cancel one by one
(`CancelTask`). A thread that dies of an illegal transition leaves its work
where it is, as in the code.

`pc` is where the scheduler is, `work[t]` where the attempt of `t` is, and
`unread` the events appended and not yet read. Readers never hold the runner
up, so the next thread steps only once the last events are read; this keeps the
order of the log, which is all that matters to a reader, and removes only the
lag of the reader from the state space. Lag *does* matter between pump and
commands, and there it is modelled (`RunDelivery`).

Handlers are arbitrary: they complete, ask for a review (where the task may),
or fail, retryably or not.

### ResearchRun

`DagRunner`'s events go, in order, to an instance of `TaskOrchestrator`. An
event that the projection refuses stalls the job (`Stall`): after
`MAX_PROJECTION_ATTEMPTS` refusals the supervisor stops polling it, and
nothing behind it is applied (`Unheard`).

The job's own event, `job.*`, moves no row of the core; it stands where `pc`
becomes `"ended"`. An attempt that had left `inflight` may report behind it.
From then on the core may at any moment have the job's results and retire the
job (`Retire`): a report it still reads is projected, a later one is not
(`Miss`), and `missed` remembers whose it was.

### RunDelivery

One run from `run_start` to the end of its delivery, across deaths of the
worker and of the core. Each action is one critical section.

| Actions | Code |
|---|---|
| `PumpFetch`, `PumpSkip` | phase A: poll the tracked job, tick the delivery cool-downs |
| `PumpProject`, `PumpRefuse` | phase B: log row and projection of one event in one transaction; the first failure ends the batch |
| `PumpAcknowledge` | phase C: move the cursor, emit, count refusals |
| `PumpNothingToDeliver`, `PumpDeliver`, `PumpIngest`, `PumpRetire`, `PumpGiveUp` | phase D: fetch results, ingest, retire the job, or count a failed delivery |
| `PumpConverge`, `PumpConfirm` | phase E: converge a run whose worker died, then confirm |
| `StartInsert` ... `StartDelete` | `run_start`, with its undo |
| `RunGet` | `run_get`, which asks the worker |
| `Cancel`, `CancelConverge` | `run_cancel` |
| `RecoverRunning`, `RecoverUndelivered` | the two halves of the startup recovery |
| `Publish`, `WorkerDies`, `CoreDies` | the environment |

Phase B persists a batch event by event under one hold of the database's mutex:
`DatabaseFree` keeps every other user of the database out until the batch is
through, while a death of the core may come between two events.

`Attached` is `ensure_started`, which every call on the worker begins with: it
is there that a dead worker is noticed and its jobs become interruptions, and
that a new worker, which knows no job, is started within a budget. The core's
death takes its memory and its child process with it and leaves the database.
What the projection makes of an event is abstracted to the status it leads to,
or to a refusal. A thread's late report may follow the job's end in the log, as
an event that is refused or one that asks for a review.

### EventStream

One job's log, and the polls by which the core reads it. Threads of the job
append events, and its own thread appends the terminal event and then marks the
job's record; an executor thread may still append behind either. A server
thread answers a poll by replaying the log from the requested sequence,
yielding frames, and ending when it has read a terminal status and then finds
nothing behind its cursor; the client reads until the stream ends, falls quiet,
or the poll's budget of time or bytes is spent; the pump persists what decoding
left, event by event, and acknowledges. Once it has acknowledged the terminal
event it may retire the job (`Retire`), and polls on until it does.

| Variable | Code |
|---|---|
| `appended`, `endAt`, `marked` | the job's `EventLog`; where its terminal event is; the job's terminal status |
| `stream` | the server thread of the poll: where it is, its cursor, the frames still to send, the status it read |
| `wire`, `buf` | the socket, and what the client has read |
| `pump`, `batch`, `through`, `cursor`, `persisted` | the pump and the core's log |

A frame is three units: before its data line, inside it, and complete. That is
exactly what decides what a cut leaves behind: no event, a torn one, or a whole
one.

### ProviderSettings and WorkerSession

`ProviderSettings` is where settings live: the configuration file (written by
`config_put`), what the core captured of it when it started, the two key
stores, the environment variables made of both for a worker, and the providers
the worker reads back from the *names* of those variables. `WorkerSession` adds
the supervisor: a call (`Call`) finds the worker alive or enters
`ensure_started`, whose attempt is several steps (resolve the keys, spawn, wait
at the health and version gate), each of which can fail, until it succeeds or
the restart budget is spent. The user changes file and keys, installs the
runtime, and stops and starts the core at any point.

A key is the number of the call that stored it, so that a stale key can be told
from a current one. The gate of the code asks for an answer that says `ok` and
for the protocol's version, not for the process that gives it. Another worker
refuses this core's token; that nothing else on the port chosen for the child
answers so is assumed (`Healthy`).

### ResultIngestion

Batches of two projects. The database's mutex is held from the first check to
the last compensation, so batches do not interleave with each other; but a step
is one record, one file operation, the commit, or one compensation, because a
call can fail and the process can die at each, and because the files are not
part of the transaction.

| Variable | Code |
|---|---|
| `db` | the tables `sources`, `source_contents`, `knowledge_nodes`, `relations`, `claims`, `evidence`, `claim_evidence`, and the runs marked delivered |
| `file` | the content files, intact or damaged |
| `job` | the batch under way: the open transaction, the ids resolved so far, the files published |
| `damaged`, `litter` | ghosts: files damaged from outside; files in place when a crash cut a batch short |

Identity is kept exactly: worker ids scoped by project, canonical URLs, rows
left by an older build under unscoped ids (`Legacy`; `LegacyAssumption` says
what such rows are like). Sources get ids in the order in which they are first
seen, from `FirstId` on. Texts and scores are not kept, nor is a content file's
extension: the worker only sends `text/plain`.

### PlanLifecycle

One project: its configurations, the generations of its plan with their
sections, tasks and dependencies, edits, the follow-up tasks of accepted gaps,
and the runs of the plans. A command is one step, since it holds the database's
mutex throughout, except `run_start`, which is three (`Start`, `Submit`,
`Bind`): between them, and between the start of a run and the projection of its
`run.started`, any other command may come.

| Variable | Rows |
|---|---|
| `config` | `research_configs`: topic, dimensions, depth |
| `plan` | `plans`: status and configuration, by age |
| `task` | `tasks`: plan, section, type, what the description says, dependencies, run, whether it has begun |
| `run` | `runs`: plan, status; the tasks and texts its job was sent, whether `run.started` is projected, and where `run_start` is |
| `decision` | `gap_decisions` |

The gates ask whether a task is PENDING and unclaimed, whether a run is active
and what a plan's status is, so no more than that is kept of execution. A task
event may lead the run to any status that fits its tasks, one that reopens it
included: which one exactly is the subject of `TaskOrchestrator`. Which
dimensions have a gap is left open (`GapReport`). Plans are ordered by age, as
the ids and creation times that the code sorts by.

### GapReport

The rows that planning, execution and ingestion can write, and what `compute`
makes of them. It exists to answer one question, whether a reported gap is one,
and therefore keeps coverage as the code computes it, in 150ths.

### ResearchStages

Both kinds of plan: one the core drafted and the user approved (search,
evaluation and normalization per section, follow-up searches, a validation and
a writer), and one the worker plans itself (search fans out into extract tasks,
which are added while the plan runs; then normalize and claims). A handler's
steps are the reads and writes other tasks can observe: collecting its inputs
from the stored results, persisting one source, asking a model (again, if the
answer is unusable), persisting nodes, claims and evidence, checking for
contradictions, returning. The end of a task is two steps, the status and then
the stored result, as in the code; `torn` records that a dependent started
between the two.

The sink keeps a record under the first id field it has (`_record_identity`),
and the model keeps it under the same. An evidence record goes by its claim and
a dropped one by its source, so a later one replaces an earlier one there
(`evidence`, `dropped`). A stored result names the evidence by its own id, which
may then be of a record that is no longer kept.

### VaultExport

An export writes note by note: look at the index, read the file, decide
(unchanged, regenerate, or a merge proposal), then create the temporary file,
fill it, rename it, and record the row. Each is one call on the file system or
one transaction, and any of them can fail or be the process's last. The user
edits and deletes files at any moment; records change only between exports,
which hold the database. `KeepUser` and `UseOurs` are the two resolutions of a
conflict; `resolve` has no caller outside the tests yet and is modelled as it
stands. `kept`, `touched` and `stranded` are ghosts that say what the user did
and what a crash left.

## 3. What is checked

| Run | Question | Result | Distinct states |
|---|---|---|---|
| `projection` | do the projection's invariants survive every order of events? | yes | 315,816 |
| `runner` | do the runner's races keep its promises, and does every job end? | yes | 87,215 |
| `end_to_end` | do the two databases agree, during the run and at rest? | yes | 861,242 |
| `stages` | do stages see what they depend on, and keep what they found? | yes | 1,292,055 |
| `delivery` | does a run survive failing writes, requests and processes? | yes | 600,940 |
| `event_stream` | do polls that are cut anywhere deliver the events up to the job's end, each once, in order? | yes | 1,323,084 |
| `worker_session` | does a worker ever serve with stale settings, or get lost? | yes: never | 614,881 |
| `ingestion` | does a batch land whole or not at all, files included? | yes | 848,056 |
| `plans` | does a plan run at most once, as reviewed, and do follow-ups survive? | yes | 249,965 |
| `vault_export` | do the user's bytes survive exports and crashes? | yes | 2,376,247 |
| `driven_to_the_end` | does the runner drive a run to an end? | no | |
| `gap_is_real` | is a reported gap one? | no | |

The properties, each of which is stated in words above its definition. A
conjunction of related invariants has one name in the configurations:

*projection.* `NoPendingBelowFailed`, `ActiveTaskHasInputs` (the gate and the
cascade hold for every history), `RunAgreesWithTasks` (a parked run has a
review, a cancelled run is closed, closed tasks close the run, a failed run has
an open task), `ClosedStaysClosed`.

*runner.* `RunnerInv` (types; a started task has its inputs; no handler
outlives the run), `EndedRunIsDone` (a completed run has nothing open, a
cancelled one comes to rest), `AttemptsDoNotOverlap` (nor does one start after
a cancel), and under fairness `JobTerminates`, threads included.

*end_to_end.* `CoreIsNeverAhead` (of the worker, in tasks and in the run's
status), `RestAgrees` (of every task but those that reported after the core had
retired the job), `RunsEndAlike` (a completed run may be left `running` only by
such a task). The exceptions are what the code does (section 4).

*stages.* `SinkInv` (the sources, extractions, nodes and claims that stored
results name are kept, each such claim with some evidence; evidence is grounded,
flags stay, completed tasks have results), `OwnSourcesExtracted`,
`NoConflictSlips`, `LoopNeverSpins`. The second and third speak of runs in
which no result came too late (`torn`), for that is how the code loses them
(section 4).

*delivery.* `DeliveryInv` (events persist once and in order; what a window saw
is persisted; no job is let go of unaccounted for; the core cancels a run at
most once), `OpenRunIsHeld`, `ClosedRunIsFinal`, and under fairness
`ResultsLand` and `LostRunIsClosed`.

*event_stream.* `StreamInv` (the core's log is a prefix of the worker's, whole
events only, and polls read only what is new), `CleanEndIsComplete` (a stream
that ends by itself has carried the job's terminal event and all before it), and
under fairness `JobArrivesWhole` (these events reach the core's log). Of events
behind the terminal one neither can be said.

*worker_session.* `SessionInv` (no stray child; the key is current),
`ReadyWorkerServesConfigured`, and under fairness `EveryCallReturns`.

*ingestion.* `BatchInv` (all or nothing; a rejected batch leaves no file),
`CommittedContentIsIntact`, `ReferencesResolve`, `RedeliveryAddsNothing`,
`NoNeedlessRejection` (a batch that needs nothing from elsewhere is accepted).

*plans.* `JobInv` (what a run claims is what its job was sent, which is what
was reviewed; the synthesis is last), `OneActiveRunPerPlan`, `PlanRunsOnce`,
`FollowUpReachable`, `FollowUpKeepsItsText`.

*vault_export.* `VaultInv` (no torn note; the index knows the app's files; a
conflict has a cause), `ReportedNoteIsCurrent`, `UserBytesSurvive`.

### Bounds

* Three tasks (`projection`, `runner`, `end_to_end`): a chain of three is the
  smallest plan in which a cascade must reach past a direct dependent, and a
  fan-in or two branches the smallest in which two attempts race with each
  other and with a third that waits. The chain of the projection carries both
  dependency conditions. Two pool threads for three tasks: enough for two
  attempts to interleave and for the pool to be full. Two attempts per task in
  the runner, one counted retry in the projection: a retry, and a failure with
  no retry left. `Backoff = FALSE` is the application's configuration.
* `stages`: two sections that make the same claim and, between them, two claims
  that contradict each other; three sources, one of them a follow-up's; two
  threads, two attempts, two tries of the structured pipeline, two failures.
* `delivery`: four events, the last of them the job's end, so that a batch can
  hold a run's end, an event behind it and the job's end; budgets of two
  refusals and two deliveries (the code's are larger constants; what matters is
  below, at and beyond the limit, and one re-arming); two faults, so that one
  repair can fail as well; one death of the worker and one of the core, each
  between any two steps.
* `event_stream`: four events, up to three of which may stand behind the
  terminal one; a byte budget of five units, less than two frames, so that a poll
  can be full in the middle of one; two cuts, two heartbeats, one failing write.
  The byte budget must hold a frame; that it does not have to is an observation
  in section 4.
* `worker_session`: two providers and a reference that is not the provider's
  own, nine configurations (none, valid, wrong reference, a name that does not
  survive as a variable's name, a value out of the worker's range, two
  providers, unknown backend, unknown transport); two keys stored, a budget of
  two restarts, two troubles, two starts of the core.
* `ingestion`: six runs in two projects: one that finds things, one that
  continues it, one that finds the same in another project under the same
  worker ids, one that refers to a foreign claim, one that fails at its last
  record, one that is malformed; rows an older build left; four ingestions, so
  that a run is delivered again after another one; two damaged files, one
  failure or crash. A rejection is checked at every record the batch can fail
  at.
* `plans`: two dimensions, one of which may have a gap; two configurations, one
  cut to its first dimension by its depth; two generations of configuration and
  plan and two runs, the fewest in which a plan is superseded while it runs, or
  two runs contend for one plan; `Extra` (3 in the code) is 0 and only shifts
  the cut; `MaxWork` bounds the sum of configurations, edits, plans and runs.
* `vault_export`: five notes: a node; a product, for which there is no folder;
  two sources whose titles share a slug; the map, which links to another note.
  Three exports, so that a conflict or a strand of the first can be met by the
  second and its resolution by the third; one edit, one failure or crash, one
  change of each record.
* `gap_is_real`: two dimensions of which one's name contains the other's, two
  plans.

Symmetry is not used: tasks, notes and runs differ by their dependencies,
titles and records. `TypeOK` of `RunDelivery` bounds the note counter at 2, a
saturating count. The deadlock check is off where all activity is bounded and
then over (`ingestion`, `vault_export`, `gap_is_real`); elsewhere the models
come to rest in a step of their own or some step is always possible.

### Fairness

* `DagRunner`: the scheduler's loop wakes up every 50 ms, pool threads run what
  they are given, and the log's reader polls: weak fairness of each. Handlers
  are assumed to return. Nobody has to cancel.
* `RunDelivery`: weak fairness of the pump's thread, of a command that has
  begun, of a `run_start` that has begun and of a startup that has begun. None
  of the worker's job, of the user, of deaths or of faults. Faults are bounded,
  which is the assumption behind `ResultsLand`: what fails does not fail
  forever.
* `EventStream`: the job reaches its end and is marked, a server thread and the
  client run on, and the pump's timer keeps ticking: weak fairness of each.
  None of `Retire`: when the results arrive is another matter (`RunDelivery`).
  Cuts and failing writes are bounded and none is forced.
* `WorkerSession`: weak fairness of `StartStep`, the thread inside
  `ensure_started`, each of whose waits has a timeout. Nothing else is fair.

## 4. Where the repository and the program disagree

Each of these is a run that TLC ends with a counterexample.

* `DrivenToTheEnd` (`worker/dag/runner.py:398`). An attempt leaves `inflight`
  before its outcome is in the store. If the loop looks in between, it finds
  nothing inflight, ready or due, leaves, and `_finalize` finds open tasks:
  "keep the loop honest: not quiescent yet", but there is no loop left. The
  job ends, the run does not.
* `ReportedGapIsReal` (`core/coverage.rs:381`). Nodes belong to a dimension by
  their tags, which the only writer of nodes leaves empty; sources are
  independent by the first segment of their canonical URL, which is the scheme.
  A dimension with all its nodes and two independent sources is reported as a
  gap, against `docs/PRD.md:184`.

### Further observations

These were met while modelling. Each is a behaviour the models contain; the
properties are stated so that they hold beside it, and say so where they make
an exception.

*Runner and projection.*

* A run can be finalized as failed before the retry of its failure is scheduled
  (`worker/dag/runner.py:330`): same window as `DrivenToTheEnd`, one step later.
* With `backoff_seconds > 0`, which the application does not configure, a retry
  that is not yet due does not keep the loop going (`worker/dag/runner.py:264`).
* `run.completed` can be appended between the store write and the event of the
  last task; the rollup then writes `running` over `completed`
  (`core/orchestrator.rs:753`; ADR-019:31 says completed runs are closed).
* An attempt that was stored but not yet reported when the job ended may report
  behind `job.*`, and even after `_mark_terminal`: the pool is shut down only
  then (`worker/dag/runner.py:340`, `worker/jobs.py:603`). The core retires a job
  as soon as its results are in (`core/state.rs:265`), and never reads a report
  that comes later: its task stays RUNNING. With two such attempts a completed
  run stays `running`: the first report reopens it, the second, which would
  close it again, is lost.
* The worker ends a run with `run.completed` also when a task awaits review, and
  the core closes its run (`core/orchestrator.rs:778`; ADR-019:39).
* The worker emits `task.failed` for each failed attempt, and the core cascades
  on every one (`core/orchestrator.rs:443`; ADR-019:39).
* The rollup reopens a failed run on any event that leaves an open task, not
  only on a retry (`core/orchestrator.rs:757` against the comment at 216).
* `run.cancelled` is refused on a run the rollup has marked failed
  (`core/orchestrator.rs:786`), so its open tasks stay open.

*Stages.*

* The runner sets a task COMPLETED before its result is stored: a dependent
  that starts in between finds an input without a result, and goes on without.
* An accepted follow-up's search in the first section races that section's
  evaluation: what it finds after the evaluation has collected its sources is
  never extracted.
* The sink keys an evidence record by its claim, since `claim_id` precedes
  `evidence_id` in `_ID_FIELDS`, and a dropped record by its source
  (`worker/interfaces.py:113`). Of two sections that find evidence for one claim
  only the later one's reaches the core, and of one source's dropped claims only
  the last (`worker/stages/claims_stage.py:7`: "evidence accumulates";
  `worker/domain/claims.py:133`: "never silently discards material"). Stored
  results, and the claims themselves, go on naming evidence that was replaced;
  the writer skips it (`worker/stages/writer_stage.py:188`).
* A claim or node of a later section replaces the same record of an earlier one
  (`worker/stages/claims_stage.py:7`: "evidence accumulates").
* Readiness counts a failed extraction as settled, and the loop submits before
  it requeues: a normalization can start without an extraction that will be
  retried. A blank source fails the evaluation of its whole section.
* A run with a conflict never reaches its writer: the review has no route
  (`resolve_review`). A cached answer that fails validation is never evicted.
* `PlanStore.approve` accepts a rejected plan, and reads and writes without
  holding one lock over both.

*Delivery and recovery.*

* Cancelling a parked run whose worker is gone reports success and changes
  nothing (`core/recovery.rs:163`).
* A run whose delivery failed gets another note at every startup
  (`core/recovery.rs:188` against 237).
* A parked run whose worker died with its results stays `pending` across
  restarts (`core/repositories/runs.rs:182`).
* The convergence of a run writes `failed` over a delivery that had succeeded
  (`core/recovery.rs:106`), when the job ended and delivered without ending its
  run.
* A refused event stops the acknowledgement, and with it the emission, of
  everything behind it (`core/state.rs:256`); after the budget of refusals the
  job stalls, and its later events, its end and its results are never taken.

*Event stream.*

* A poll that ends inside a data line is discarded whole, although events
  before it had arrived (`core/worker/http.rs`, `decode_sse`, whose comment says
  that received events are not lost). A cut that always falls there, or a
  backlog whose first frame exceeds `SSE_MAX_BYTES`, is never got past.
* A server thread outlives its poll until its next write, a heartbeat 15 s
  apart at the latest. A poll holds the supervisor's mutex for its full budget.

*Worker session and settings.*

* The restart budget is never restored while the core runs, although the error
  is called recoverable by installing the runtime (`core/commands.rs:2704`).
  A refusal that is not worth a retry leaves the attempts where they are.
* A provider whose name has capitals or underscores is read back under another
  name, its roles then name an unknown provider, and the worker exits. Values
  beyond the worker's ranges (a timeout over 600 s, over 10 retries) are
  accepted by `config_put` and refused by the worker.
* Settings are captured at startup while the list of providers is read from the
  file. The default backend keeps keys in memory only. A child whose core died
  goes on until it reads the end of its input.

*Ingestion.*

* A crash between the publication of a new source's content and the commit
  leaves a file under an id that is never given again: it cannot be reused, as
  the comments at `core/ingestion.rs:618` and 1019 say it will be.
* Rows of older builds are matched for nodes and claims, not for relations and
  evidence. A relation before its nodes in a batch is refused by the foreign
  key. A later batch overwrites the status of a claim, a confirmed one's too.

*Plans and gaps.*

* The tasks of a run are claimed when `run.started` is projected. A plan
  regenerated after `run_start` and before that finds them PENDING and
  unclaimed, and takes over follow-ups that the job has been given; the new
  plan executes them again (`core/repositories/services.rs:130` against the
  comment at 128).
* `plan_approve` accepts a plan of any status (`core/commands.rs:567`), so a
  rejected or superseded plan can run after all; `ensure_plan_can_execute` says
  it never can (`core/repositories/services.rs:374`).
* A run cancelled before its `run.started` is projected has claimed nothing, so
  its plan can be started again (`core/commands.rs:801` against the comment at
  772). Hence `PlanRunsOnce` speaks of runs that have started.
* If the undo of `run_start` removes a run that had claimed a follow-up, and
  the plan has been regenerated meanwhile, the follow-up is left, PENDING, in a
  superseded plan (`core/commands.rs:913`). `FollowUpReachable` makes this one
  exception; the next regeneration takes the follow-up over.
* A follow-up is attached to the first section whatever its dimension, so the
  dimension its job is told is that section's until the plan is regenerated. No
  validation waits for it. If its dimension leaves the configuration it is
  carried along for good and can no longer be dismissed.
* Coverage counts the tasks of superseded plans, so that regenerating lowers
  it, and finds a dimension's name inside longer ones. Dimensions beyond depth
  plus three get no tasks.

*Vault.*

* Records whose titles differ in non-ASCII words only share a file name; the
  later note replaces the earlier, and each export reports both as written
  (`core/vault.rs:169`, `core/repositories/services.rs:516`). `Alone` excludes
  them from the properties on notes.
* The rename does not look at the file again: what the user saves between the
  comparison and the rename is lost (`core/vault.rs:8`: "never overwritten").
* A crash between the rename and the row makes the app quarrel with its own
  file for good. `UseOurs` does not compare the hash of the file it replaces.
  The note of a record whose title changed stays under the old name.

## 5. What is proved

Eight modules hold theorems, each about the specifications of the modules it
extends, for every value of their constants: every plan, graph, batch, note and
configuration, every budget, and every number of faults, edits, cancels and
deaths of a process. The invariants and action properties below are the ones
the runs check, unless the table says otherwise.

| Module | Theorem | Says |
|---|---|---|
| `TaskOrchestratorProofs` | `TypeCorrect` | `TypeOK` |
| | `NoPendingBelowFailedHolds` | `NoPendingBelowFailed` |
| | `ActiveTaskHasInputsHolds` | `ActiveTaskHasInputs` |
| | `RunAgreesWithTasksHolds`, `RunStatusIsTruthful` | the four invariants on the run's status, together and apart |
| | `ClosedStaysClosedHolds` | `ClosedStaysClosed` |
| | `CheckpointKeptUntilDoneHolds` | only a task's completion drops its checkpoint (no run) |
| | `ErrorOnlyAfterFailureHolds` | only failed tasks, or tasks closed after a failure, carry an error (no run) |
| `ResearchRunProofs` | `RunnerInvHolds` | `RunnerInv` of `DagRunner` |
| | `EndedRunIsDoneHolds` | `EndedRunIsDone` of `DagRunner` |
| | `AttemptsDoNotOverlapHolds` | `AttemptsDoNotOverlap` of `DagRunner` |
| | `ImplementsRunner` | `RRSpec => Spec`: the composition is a runner |
| | `CoreIsNeverAheadHolds` | `CoreIsNeverAhead` |
| | `RestAgreesHolds` | `RestAgrees` |
| | `RunsEndAlikeHolds` | `RunsEndAlike` |
| | `ImplementsProjection` | `RRSpec => Core!Spec`: its core is `TaskOrchestrator` |
| | `CoreKeepsItsPromises` | `NoPendingBelowFailed`, `ActiveTaskHasInputs` and `RunAgreesWithTasks` of that core |
| | `CoreNeverReopens` | `ClosedStaysClosed` of that core |
| `RunDeliveryProofs` | `DeliveryInvHolds` | `DeliveryInv` |
| | `OpenRunIsHeldHolds` | `OpenRunIsHeld` |
| | `ClosedRunIsFinalHolds` | `ClosedRunIsFinal` |
| | `DeliveryImplementsLog` | `Spec => Log!Spec`: the delivery implements `EventLog` |
| `EventStreamProofs` | `CleanEndSound` | `CleanEndIsComplete` |
| | `StreamInvHolds` | `StreamInv` |
| | `StreamImplementsLog` | `Spec => Log!Spec`: the stream implements `EventLog` |
| `WorkerProofs` | `ReadyWorkerServes` | `ReadyWorkerServesConfigured` |
| | `SessionInvHolds` | `SessionInv` |
| | `StagesIInvHolds` | `StagesIInv`, the inductive invariant of `ResearchStages` |
| | `SinkInvHolds` | `SinkInv` |
| | `OwnSourcesExtractedHolds` | `OwnSourcesExtracted` |
| | `NoConflictSlipsHolds` | `NoConflictSlips` |
| | `LoopNeverSpinsHolds` | `LoopNeverSpins` |
| | `FailureReachesAllBehind` | the rounds in `Below` reach every task that depends on a failed one (no run) |
| `ResultIngestionProofs` | `BatchInvHolds` | `BatchInv` |
| | `CommittedContentIsIntactHolds` | `CommittedContentIsIntact` |
| | `ReferencesResolveHolds` | `ReferencesResolve` |
| | `RedeliveryAddsNothingHolds` | `RedeliveryAddsNothing` |
| | `NoNeedlessRejectionHolds` | `NoNeedlessRejection` |
| `PlanLifecycleProofs` | `JobInvHolds` | `JobInv` |
| | `OneActiveRunPerPlanHolds` | `OneActiveRunPerPlan` |
| | `PlanRunsOnceHolds` | `PlanRunsOnce` |
| | `FollowUpReachableHolds` | `FollowUpReachable` |
| | `FollowUpKeepsItsTextHolds` | `FollowUpKeepsItsText` |
| `VaultExportProofs` | `VaultInvHolds`, `NoTornNoteHolds` | `VaultInv`, and the part of it that no note is torn |
| | `ReportedNoteIsCurrentHolds` | `ReportedNoteIsCurrent` |
| | `UserBytesSurviveHolds` | `UserBytesSurvive` |

### Assumptions

Nothing is assumed but what the modules say of their constants, by name, and
TLC evaluates in each run. Bounds are numbers; sets of tasks and of providers
are finite, since a plan and a configuration list them (`PlanAssumption`,
`ConfigAssumption`). The others:

* `VaultAssumption`: an export takes the notes in some order, each once.
* `InputsAssumption`: finitely many dimensions have gaps, and the description of
  a follow-up is not the brief of a topic, so that the two can be told apart.
* `IngestionAssumption`: a run's batch is a sequence of records of its project.
* `StagesAssumption`, `RecordsAssumption`: a plan has finitely many sections, one
  of them the first; searches find sources, extractions name nodes and claims, a
  claim is about a node; and no id is of two kinds, since `stable_id` starts each
  with the kind it is of.
* `LegacyAssumption`: an older build left tables that are in order: sources
  under ids already given out, each cached content with its file, nodes under
  worker ids as they came (`"raw"`) or scoped by a project, no two under the
  same.

### The projection

`StepKinds` sorts the steps into three kinds: those that leave
the statuses alone, those that move one task (with cascade and rollup), and run
events. Each proof goes along these kinds, with one lemma on what a move does
to every task (`AfterValues`) and one on what a rollup says (`RollupSays`).

* `NoPendingBelowFailed` is inductive given types. Its one hard case is a task
  that becomes FAILED: a PENDING dependent of it is downstream of it, so the
  cascade takes it along; and the dependent of a task the cascade itself failed
  is downstream of the same origin (`DownstreamIsClosed`).
* `ActiveTaskHasInputs` is inductive: inputs are terminal and
  `TerminalTaskKept` says that these never move; only `TaskStarted` makes a
  task active, behind the gate.
* The four invariants on the run's status are not inductive one by one. A
  cancelled run stays truthful only because its tasks are terminal and thus
  can take no event; a failed run keeps an open task only because the rollup
  that would close the last one is rejected. `RunAgreesWithTasks` is their
  conjunction, and it is inductive.
* The action properties follow from `TypeOK`, `CancelledRunIsClosed` and
  `TerminalTaskKept`.

### The runner, and the runner with the projection

`RunnerIInv` is inductive, for every graph, pool size and number of attempts.
`NoHandlerOutlivesRun` and `EndedRunIsDone` are not inductive, because what an
ended run promises is decided several steps earlier, from a snapshot: one has
to know that the snapshot still lists every open task (`SnapshotHolds`), that
nothing was inflight when the loop was left without a cancel (`EndFits`), and,
for that to mean anything, that the place of an attempt determines the status
of its task and its membership in `inflight` (`AttemptFits`). `RetryFits` says
that a task that waits for a retry has no attempt running, which is
`AttemptsDoNotOverlap`; `CancelComesFirst`, that nothing is cancelled before
the cancel, which excludes a start after it. `StartedTaskHasInputs` needs only
types. One lemma per action, and in it one step per part of the invariant that
the action can disturb.

With the projection beside it the runner stays a runner (`ImplementsRunner`), so
`RunnerIInv` holds there too. `RunIInv` adds what the core knows:

* `StoredFits`, `UnreadFits`: what an attempt has stored is what it will report,
  and what an unread event says is so, however late it is read. This alone
  gives `CoreIsNeverAhead`, stalled or not.
* `ClaimFits`: `run.started` is projected before anything else and claims every
  task, so every later rollup is over the whole plan.
* `LateFits`: the core retires the job only behind its end, where nothing but
  tasks report, and only then misses anything.
* `Agree`: until an event is refused or the run is cancelled, each task that was
  not missed and has no unread event has in the core the worker's status (`TaskFits`: behind by
  what is stored and not said, ahead by a failure that waits for its retry or
  its cascade), and each unread event leads there. At rest nothing is unread
  and nothing stored, which is `RestAgrees`.
* `EndAgrees`: a late report may take a completed run back to `running` or to
  `needs_review`, but only while a task of it is so in the core; the report
  that settles the last task rolls it up again, if it is read; if it is missed,
  `missed` names the task that keeps the run open. After `run.cancelled`
  everything is terminal and no report can move anything. Hence `RunsEndAlike`.

`ProjectTaskKeeps` and `ProjectRunKeeps` are the steps where the projection's
own operators are opened (`CoreTaskStep`, `CoreRunStep`). That an iteration
and a cascade append one event for each task concerned rests on `InSomeOrder`,
what `SetToSeq` yields for a finite set.

The composition is a projection as well as a runner (`ImplementsProjection`): an
event it reads is one of `TaskOrchestrator`'s, or a refusal, which moves
nothing. So the theorems about any events in any order are cited, instantiated,
for the worker's events (`CoreKeepsItsPromises`, `CoreNeverReopens`); only that
the two instances are the same module is left to show (`SameProjection`).

### The delivery

`DIInv` is inductive, for every size of the log, every budget and every number
of faults and deaths. Its parts say why the properties hold:

* `StartFits`: until `run_start` has submitted the job, nobody has heard of the
  run: nothing is tracked, interrupted, persisted or cancelled. Everything else
  is about what comes after.
* `LogFits`: between batches the log is as long as the cursor; within one, as
  long as what the batch has got through; this is why no event is persisted
  twice, nor skipped, when the pump is stopped between any two of them.
* `CancelFits`: the core cancels on its own account only what is running, and a
  cancelled run never runs again; hence one convergence, whichever of pump,
  `run_cancel` and startup comes first.
* `HeldFits`: a tracked job has no interruption pending; what is neither tracked
  nor interrupted is ingested or, after a death of the core, settled.
* `RecoveryFits`: the two halves of a startup, between which it may die again.
* `JobFits`: a job that may still be tried has a try left.

Most actions begin with a call on the worker, that is with `ensure_started`.
`Reaches` and `Follows` say once what such a call can do to the supervisor, the
job, the interruption and the worker, and the lemmas of those actions rest on
them. `ClosedRunIsFinal` follows from the invariant and `NextStatusOK`, what an
accepted event may do to a status.

`DeliveryImplementsLog` reads `LogFits` as a refinement: `PumpProject` appends
the next event, `PumpAcknowledge` moves the cursor to the end of the core's log,
a death of the core forgets the cursor, the undo of a start discards the log.
The cursor of a deleted run counts as none (it may still be moved, and the
events of the last batch shown, after the row is gone). Every other step
leaves both logs and the cursor alone.

### The stream

`CleanEndIsComplete` rests on the order of four steps (`EndIsOrdered`): the
terminal event is appended before the job is marked, so a server thread that has
*seen* a terminal status saw an ended job; it compares its cursor with the log
after that, so a stream that closes is past the terminal event, whatever threads
append behind it. With the first two exchanged (the mutant) a stream can close on
a job that goes on.

`StreamInv` needs `IInv`, whose heart is `CarryFits`: what is in the client's
buffer, on the wire and still to be yielded brings, in this order, exactly the
events after the cursor, each once, and cut anywhere it brings a beginning of
them. So wherever time, silence, bytes or the connection end a poll, what
decoding keeps is the next events of the log and no torn one. `LogFits` then
carries this to the core's log: between batches it is as long as the cursor,
within one as long as what the batch has got through. What decoding keeps
(`Kept`) is a recursive function of the units received; its lemmas are proved
by induction on their number, with the set of numbers for which they fail.
`StreamImplementsLog` takes the sequence numbers of the core's rows for its log,
and follows from `LogFits` before and after a step.

### The session

`ServeInv`: the environment of an attempt under way was made of the captured
configuration, which does not change while a core runs, and with a key for
each provider; a worker at the gate, or past it, was made of that environment.
`SessionIInv` adds that no child is left by a failed attempt, that attempts keep
within their budget, and `KeyFits`: an environment is made of keys that were
current when its attempt began or were stored since, which is as much as can
be said while the user stores keys during an attempt.

### The stages

Plans of two kinds, one of which grows while it runs, share one invariant,
`StagesIInv`, since a stage is the same handler in both. Its parts:

* `TaskFits`, of each task. `PlaceFits` and `KindFits`: the place of a task's
  thread determines its status and which handlers can be there. `PlanFits`: the
  tasks of the plan are there, and others only as extractions of sources that
  are kept. `StatusFits`: a started task has its dependencies completed, one that
  may be retried has an attempt left, and only validation awaits a review.
  `ResultFits`, `HeldFits`: what a stored result names, and what a handler has
  in its hands, is in the sink, evidence excepted: of a claim in a result some is
  kept (`Evidenced`), or about to be by the handler that holds it (`Written`).
  `FoundFits`: of what a search has found, nothing is left out on its way to
  extraction, unless a result came too late (`torn`).
* `RunFits`: a run is over only when its threads are.
* `RecordsFit`: a claim that is kept is in the result of the task that made it
  (`ClaimsFit`); validation comes behind all makers of claims (`MakersFirst`), so
  what it has looked at is all there is, and what contradicts is flagged
  (`ReviewFits`); evidence has its claim and its content, and is only ever
  replaced by evidence of the same claim; flags stay.

A step is one thread's. `StepOf` says what it leaves alone: the sink only grows,
and other tasks keep place, result and status, or are started, requeued or
added. `OthersFit` then carries `TaskFits` of all other tasks over, once for
all steps, so that each action's lemma is about its own task
(`StepKeeps`, `SinkStays`, `WorkKeeps`). `SinkInv` follows at once;
`OwnSourcesExtracted` and `NoConflictSlips` for a completed run, whose tasks have
all completed, up to validation (`CompletedRun`). The first half of `LoopNeverSpins` is
`IdleStarts`: a task that is ready and may not start waits for an extraction
that may. The second goes down the dependencies: with nothing failed, parked or
at work, a task that waits waits for a task that is there (`UpstreamPresent`)
and waits too, and a search waits for none.

A failed task fails what depends on it, and what depends on that. `Below` goes
four rounds; that one more adds nothing, for any sections and sources, is
`FailureReachesAllBehind`, by the places tasks have in every plan (`Rank`,
`DependsOnEarlier`).

### The ingestion

A batch under way is a function of its run and of how many records it has got
through, and `IngestionIInv` says so of every place the writes are in:

* `TxFits`: the open transaction is the committed tables plus the rows, links and
  contents of the first `n` records; its references resolve, those to nodes and
  claims later in the batch excepted. At the commit nothing is later, so what is
  committed resolves (`ReferencesResolve`).
* `DbFits`, `DeliveredFits`: the tables are in order, and a run marked delivered
  has everything its batch brings. A second delivery of it finds every row
  (`RedeliveryAddsNothing`); one that was turned away has left no row.
* `FilesFit`: a file a row refers to is intact or was damaged from outside; any
  other file is the batch's own, or litter of a crash or of a failed removal;
  and a file the batch may take away again is no committed row's. This is why
  a compensation never takes a file of an earlier batch along
  (`CommittedContentIsIntact`).

What makes identity work is proved apart: ids scoped by project do not collide,
nodes keep unique ids beside an older build's raw ones, a URL keeps its source.
`NoNeedlessRejection` follows from the converse of resolution: a batch that
names only what it brings, or what the tables have, can be written record by
record to the end.

### The plans

`PlanIInv` ties the rows to each other. A claimed task is one of its run's plan
(`ClaimsFit`); where a run is in its start and what has become of it go together
(`RunFits`); a brief is on the topic its plan was made for (`TextFits`), and a
job carries its plan's configuration (`JobFits`). Then:

* `OneSpender`: of one plan's runs at most one is under way or has started. A
  start asks that every task of the plan be untouched and no run of it be under
  way, in one transaction; until `run.started` is projected the plan stays as it
  was sent (`WaitingFits`), from then on its tasks are claimed. Hence
  `OneActiveRunPerPlan` and `PlanRunsOnce`, with `run.started` delayed as long
  as one likes.
* `JobIsWhatWasReviewed`, `SynthesisIsLast`: only a draft's tasks are edited, and
  a plan with a job is no draft any more (`JobFits`); a follow-up of an approved
  gap joins only a plan that is neither executed nor under way, which keeps
  `JobMatchesClaims`. With `TypeOK` these are `JobInv`.
* `FollowUpFits`, `FollowUpReachable`: regeneration carries each waiting
  follow-up over, exactly once and with its text (`FollowUpKeepsItsText`); one
  that waits is in the current plan, or in one with an undone run.

Drafting gives the rows of a plan one by one (`DraftRows`), the carried
follow-ups in some order of their set (`InSomeOrder`).

### The vault

* `VInv`: what the app records as its own, proposes or is about to write is its
  own (`OwnIsOwn`), and a file kept by the user's decision is recorded as the
  user's (`KeptIsTheirs`), so an export that has looked proceeds only over its
  own content or nothing. `WriteIsClear` carries that look to the rename: until
  then the file is the user's only if the user came by in between. It also says
  that what is renamed is the whole note, which is why none is ever torn.
* `VaultIInv` adds what the index knows of the files (`IndexKnowsOwnFiles`,
  `ConflictHasCause`) and what an export may report: nothing before its note is
  in place (`NothingSaidAhead`), and what is about to be written is what the
  records say now (`WriteIsCurrent`), since records change only between
  exports.

### Only model-checked

Liveness under fairness (`JobTerminates`, `ResultsLand`, `LostRunIsClosed`,
`JobArrivesWhole`, `EveryCallReturns`) is out of the prover's reach. So are the
two counterexamples (section 4), which are runs. Every invariant and every
action property of the runs is proved.

The library's induction theorems cannot be used directly, since they take an
operator as a parameter; where a proof needs induction (what decoding keeps,
`Kept`, and what the core reads of a batch, `Parsed`) it goes through the set of counterexamples and its
least element, for one property at a time.

## 6. What is not modelled, and what comes next

* Incremental runs (`worker/incremental.py`, `stores/plan_store.py`): each job
  builds its own orchestrator, cache and sink, so that a baseline never outlives
  the job that made it. In the product this code only ever sees an empty
  baseline; nothing can go wrong in it before that changes.
* Migrations: each is one transaction with its own row in `schema_meta`, and all
  run before anything else. A database written by a newer core is opened as it
  is.
* IPC, redaction, ids, formats, and the demonstration transport
  (`core/worker/fake.rs`), which runs nothing.
* The user interface, whose mocks do not run in the product, the shared
  packages, deployment and the prototype.
* The readers of the knowledge tables, `llm_usage`, `project_update` and
  `project_archive`: nothing reads what the latter two write to decide anything.
* Paths without a caller in the application: the runner's pause, resume and
  `retry_task`, and `resolve_review`. The core's side of them (`run.paused`,
  `review.resolved`) is in `TaskOrchestrator`, since an event of that type would
  be projected.
* The contents of models' answers, notes and records; providers' own HTTP
  retries, which are one outcome of a call here; several jobs at once, which
  share only the supervisor's state and the database's mutex.

Next, in this order: two jobs under one supervisor; several projects in
`PlanLifecycle`; an abstract sink that `ResearchStages` implements and
`ResultIngestion` takes its batches from.
