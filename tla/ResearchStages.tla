-------------------------- MODULE ResearchStages --------------------------
(***************************************************************************)
(* What the tasks of a run do: ResearchOrchestrator's handlers on the      *)
(* runner's threads, the records they put into the job's result sink and   *)
(* the results by which a task finds what its inputs made.                 *)
(*                                                                         *)
(* A run executes a provided plan (ADR-024: per section search, evaluation *)
(* and normalization, beside an approved gap's follow-up search) or one    *)
(* the worker planned (search fans out into extract tasks, then normalize  *)
(* and claims); validation and the writer close both.  The races between   *)
(* the scheduler and its threads are DagRunner's; here a thread's steps    *)
(* are the reads and writes other tasks can observe.                       *)
(***************************************************************************)
EXTENDS Naturals, FiniteSets

CONSTANTS
    Sections, First,      \* the plan's sections; follow-ups attach to the first
    Sources, Nodes, Claims,
    Found(_, _),          \* what a search of a kind finds in a section
    Mentions(_),          \* the nodes the extraction of a source names
    Asserts(_),           \* the claims it makes
    Subject(_),           \* the node a claim is about
    Rivals(_, _),         \* RuleBasedContradictionJudge.contradicts
    Last(_),              \* the one of some sources or claims that a stage keeps last
    MaxWorkers,           \* threads of the pool
    MaxAttempts,          \* attempts of a task
    MaxTries,             \* attempts of the structured output pipeline
    MaxFailures           \* bound: failures of providers

ASSUME StagesAssumption ==
    /\ IsFiniteSet(Sections) /\ First \in Sections
    /\ MaxWorkers \in Nat \ {0} /\ MaxAttempts \in Nat \ {0} /\ MaxTries \in Nat \ {0}
    /\ MaxFailures \in Nat

Searches == {"search", "followup"}

\* A stable_id is made of what it names: an evidence, of its claim and its
\* source (the quotes of a source are taken together).
EvidenceIds == Claims \X Sources
RecordIds   == Sources \cup Nodes \cup Claims \cup EvidenceIds

\* What stages make of what, and that an id says what it is the id of (stable_id).
ASSUME RecordsAssumption ==
    /\ \A k \in Searches, s \in Sections : Found(k, s) \subseteq Sources
    /\ \A x \in Sources : Mentions(x) \subseteq Nodes /\ Asserts(x) \subseteq Claims
    /\ \A c \in Claims : Subject(c) \in Nodes
    /\ Sources \cap Nodes = {} /\ Sources \cap Claims = {} /\ Nodes \cap Claims = {}
    /\ EvidenceIds \cap (Sources \cup Nodes \cup Claims) = {}
    /\ \A S \in (SUBSET Sources) \cup (SUBSET Claims) : S # {} => Last(S) \in S

Extract(s, x) == <<"extract", s, x>>
Validate == <<"validate">>
Writer   == <<"writer">>

Extracts == UNION {{Extract(s, x) : x \in Found("search", s)} : s \in Sections}
Closing  == {Validate, Writer}

\* ResearchOrchestrator._provided_tasks, of the plan the core drafts.
Provided == {<<k, s>> : k \in {"search", "evaluation", "normalization"}, s \in Sections}
            \cup {<<"followup", First>>} \cup Closing

\* ResearchOrchestrator._static_tasks.
Static == {<<k, s>> : k \in {"search", "normalize", "claims"}, s \in Sections} \cup Closing

AllTasks == Provided \cup Static \cup Extracts

VARIABLES
    plan,        \* whose plan is executed
    status,      \* task statuses, "absent" before a task is added
    attempt,
    due,         \* failed tasks to be requeued
    result,      \* the ids a handler returned
    stored,      \* tasks whose result set_result has stored
    job,         \* what a handler holds and where it is
    source, content, extraction, node, claim, notes, \* the sink
    evidence,    \* the source of a claim's evidence: the sink keeps one of a claim
    dropped,     \* the claim dropped of a source: it keeps one of a source
    flagged,     \* needs_review_claim_ids of the validation report
    cached,      \* sources whose extraction the output cache holds
    torn,        \* tasks a dependent found completed without their result
    cancelled, run, failures

tasks == <<status, attempt, due, result, stored>>
sink  == <<source, content, extraction, node, claim, evidence, dropped, notes, flagged>>
svars  == <<plan, tasks, job, sink, cached, torn, cancelled, run, failures>>

Kind(t)    == t[1]
Section(t) == t[2]
Idle       == [at |-> "idle", todo |-> {}, now |-> {}, known |-> {}, tries |-> 1]
NoClaim    == [from |-> {}, review |-> FALSE]

StagesTypeOK ==
    /\ plan \in {"provided", "planned"}
    /\ status \in [AllTasks -> {"absent", "pending", "planning", "running", "completed",
                                "failed", "needs_review", "cancelled"}]
    /\ attempt \in [AllTasks -> 0 .. MaxAttempts] /\ due \subseteq AllTasks
    /\ result \in [AllTasks -> SUBSET RecordIds]
    /\ stored \subseteq AllTasks
    /\ \A t \in AllTasks :
        /\ job[t].at \in {"idle", "enter", "search", "persist", "ask", "nodes", "claims",
                          "evidence", "validate", "write", "return", "stop", "store"}
        /\ job[t].todo \subseteq RecordIds
        /\ job[t].now \subseteq Sources /\ job[t].known \subseteq Nodes
        /\ job[t].tries \in 1 .. MaxTries
    /\ source \in [Sources -> {"none", "found", "rated"}]
    /\ content \subseteq Sources /\ extraction \subseteq Sources /\ cached \subseteq Sources
    /\ node \in [Nodes -> SUBSET Sources]
    /\ claim \in [Claims -> [from : SUBSET Sources, review : BOOLEAN]]
    /\ evidence \in [Claims -> SUBSET Sources] /\ dropped \in [Sources -> SUBSET Claims]
    /\ notes \subseteq Nodes /\ flagged \subseteq Claims /\ torn \subseteq AllTasks
    /\ cancelled \in BOOLEAN /\ run \in {"running", "completed", "failed", "cancelled"}
    /\ failures \in 0 .. MaxFailures

-----------------------------------------------------------------------------
(* The DAG and its scheduler.                                              *)

Of(kinds) == {t \in AllTasks : Kind(t) \in kinds /\ status[t] # "absent"}

\* The kinds of the same section a task depends on.  Nothing depends on a
\* follow-up.
Upstream(kind) ==
    CASE kind \in Searches -> {}
      [] kind \in {"evaluation", "extract", "normalize"} -> {"search"}
      [] kind = "normalization" -> {"evaluation"}
      [] kind = "claims" -> {"normalize"}

\* What validation waits for.
FanIn == Of({"normalization", "claims"})

Depends(t) ==
    IF t = Validate THEN FanIn
    ELSE IF t = Writer THEN {Validate}
    ELSE {<<k, Section(t)>> : k \in Upstream(Kind(t))}

IsReady(t) ==
    /\ status[t] = "pending"
    /\ \A u \in Depends(t) : status[u] = "completed"

\* Mutant: a failed extraction is waited for.
ReadinessForAll(t) ==
    Kind(t) = "normalize" =>
        \A u \in Of({"extract"}) :
            Section(u) = Section(t) => status[u] \in {"completed", "cancelled"}

\* _readiness: normalization waits for the section's extractions to settle.
Readiness(t) ==
    Kind(t) = "normalize" =>
        \A u \in Of({"extract"}) :
            Section(u) = Section(t) => status[u] \in {"completed", "cancelled", "failed"}

Inflight == {t \in AllTasks : status[t] \in {"planning", "running"}}
Startable(t) == IsReady(t) /\ Readiness(t) /\ Cardinality(Inflight) < MaxWorkers

Submit(t) ==
    /\ run = "running" /\ ~cancelled /\ Startable(t)
    /\ status' = [status EXCEPT ![t] = "planning"]
    /\ attempt' = [attempt EXCEPT ![t] = @ + 1]
    /\ job' = [job EXCEPT ![t] = [Idle EXCEPT !.at = "enter"]]
    /\ UNCHANGED <<plan, due, result, stored, sink, cached, torn, cancelled, run, failures>>

\* An iteration submits what is ready before it requeues what is due.
Requeue(t) ==
    /\ run = "running" /\ ~cancelled /\ t \in due
    /\ \A u \in AllTasks : ~Startable(u)
    /\ due' = due \ {t}
    /\ status' = [status EXCEPT ![t] = "pending"]
    /\ UNCHANGED <<plan, attempt, result, stored, job, sink, cached, torn, cancelled, run,
                   failures>>

-----------------------------------------------------------------------------
(* What a handler reads when it begins.                                    *)

Completed(kinds) == {t \in Of(kinds) : status[t] = "completed"}
In(s, kinds)     == {t \in Completed(kinds) : Section(t) = s}

\* The ids the results of some tasks name, of those completed and stored.
Ids(ts) == UNION {result[t] : t \in ts \cap stored}

\* Mutant: validation looks for claims of worker-planned runs only.
InputsOfPlanned(t) ==
    CASE Kind(t) = "extract" -> {}
      [] Kind(t) = "evaluation" -> In(Section(t), Searches)
      [] Kind(t) = "normalization" -> In(Section(t), {"evaluation"})
      [] Kind(t) \in {"normalize", "claims"} -> In(Section(t), {"extract"})
      [] t = Validate -> Completed({"claims"})
      [] t = Writer -> Completed({"normalize", "normalization"})
      [] OTHER -> {}

\* The tasks whose results a handler collects.
Inputs(t) ==
    CASE Kind(t) = "extract" -> {}
      [] Kind(t) = "evaluation" -> In(Section(t), Searches)
      [] Kind(t) = "normalization" -> In(Section(t), {"evaluation"})
      [] Kind(t) \in {"normalize", "claims"} -> In(Section(t), {"extract"})
      [] t = Validate -> Completed({"claims", "normalization"})
      [] t = Writer -> Completed({"normalize", "normalization"})
      [] OTHER -> {}

Todo(t) ==
    CASE Kind(t) \in {"evaluation", "normalization", "normalize", "claims"} ->
            Ids(Inputs(t)) \cap Sources
      [] t = Validate -> Ids(Inputs(t)) \cap Claims
      [] t = Writer -> Ids(Inputs(t)) \cap Nodes
      [] OTHER -> {}

FirstStep(t) ==
    CASE Kind(t) \in Searches -> "search"
      [] Kind(t) = "evaluation" -> "persist"
      [] Kind(t) = "extract" -> "ask"
      [] Kind(t) \in {"normalization", "normalize"} -> "nodes"
      [] Kind(t) = "claims" -> "claims"
      [] t = Validate -> "validate"
      [] t = Writer -> "write"

\* Threads at work; one that still has to store a result is not free.
Busy == {t \in AllTasks : job[t].at \notin {"idle", "enter"}}

\* A thread of the pool takes the task: claims resolve subjects among the nodes every
\* completed normalization of the run has stored, in a worker-planned run.
Enter(t) ==
    /\ job[t].at = "enter" /\ Cardinality(Busy) < MaxWorkers
    /\ status' = [status EXCEPT ![t] = "running"]
    /\ job' = [job EXCEPT ![t] =
                [at |-> FirstStep(t), todo |-> Todo(t), tries |-> 1,
                 now |-> IF Kind(t) = "extract" THEN {t[3]} ELSE {},
                 known |-> Ids(Completed({"normalize"})) \cap Nodes]]
    /\ torn' = torn \cup (Inputs(t) \ stored)
    /\ result' = [result EXCEPT ![t] = {}]
    /\ UNCHANGED <<plan, attempt, due, stored, sink, cached, cancelled, run, failures>>

-----------------------------------------------------------------------------
(* The handlers.                                                           *)

Goto(t, step) == job' = [job EXCEPT ![t].at = step]

\* The tasks that wait for one of S, added to S.
WithDependents(S) == S \cup {t \in AllTasks : status[t] # "absent" /\ Depends(t) \cap S # {}}

\* All behind S: the longest chain of a plan is a search, its normalization,
\* the claims, validation and the writer.
Below(S) == WithDependents(WithDependents(WithDependents(WithDependents(S))))

\* _complete, for a failed attempt: it is requeued, or its dependents fail.
Fail(t, retryable) ==
    /\ job' = [job EXCEPT ![t] = Idle]
    /\ IF cancelled THEN status' = [status EXCEPT ![t] = "cancelled"] /\ due' = due
       ELSE IF retryable /\ attempt[t] < MaxAttempts
       THEN status' = [status EXCEPT ![t] = "failed"] /\ due' = due \cup {t}
       ELSE /\ status' = [u \in AllTasks |->
                    IF u = t \/ (u \in Below({t}) /\ status[u] = "pending") THEN "failed"
                    ELSE status[u]]
            /\ due' = due
    /\ UNCHANGED <<plan, attempt, result, stored, sink, cached, torn, cancelled, run>>

\* The search provider answers, or fails for now or for good.
SearchAnswers(t) ==
    /\ job[t].at = "search"
    /\ job' = [job EXCEPT ![t].at = "persist", ![t].todo = Found(Kind(t), Section(t))]
    /\ UNCHANGED <<plan, tasks, sink, cached, torn, cancelled, run, failures>>

SearchFails(t) ==
    /\ job[t].at = "search" /\ failures < MaxFailures
    /\ failures' = failures + 1
    /\ \E retryable \in BOOLEAN : Fail(t, retryable)

\* A cancelled handler stops before its next source, without a result.
SeeCancel(t) ==
    /\ job[t].at = "persist" /\ job[t].todo # {} /\ cancelled
    /\ Goto(t, "stop")
    /\ UNCHANGED <<plan, tasks, sink, cached, torn, cancelled, run, failures>>

\* One source of a search: kept, and in a worker-planned run also fetched,
\* rated and given an extract task of its own.
PersistFound(t, x) ==
    /\ job[t].at = "persist" /\ Kind(t) \in Searches /\ x \in job[t].todo /\ ~cancelled
    /\ job' = [job EXCEPT ![t].todo = @ \ {x}]
    /\ result' = [result EXCEPT ![t] = @ \cup {x}]
    /\ IF plan = "provided"
       THEN source' = [source EXCEPT ![x] = "found"] /\ UNCHANGED <<content, status>>
       ELSE /\ source' = [source EXCEPT ![x] = "rated"]
            /\ content' = content \cup {x}
            /\ status' = [status EXCEPT ![Extract(Section(t), x)] =
                            IF @ = "absent" THEN "pending" ELSE @]
    /\ UNCHANGED <<plan, attempt, due, stored, extraction, node, claim, evidence, dropped,
                   notes, flagged, cached, torn, cancelled, run, failures>>

\* One source of an evaluation: its content and quality are kept, then its
\* extraction is asked for.
Rate(t, x) ==
    /\ job[t].at = "persist" /\ Kind(t) = "evaluation" /\ x \in job[t].todo /\ ~cancelled
    /\ source' = [source EXCEPT ![x] = "rated"]
    /\ content' = content \cup {x}
    /\ job' = [job EXCEPT ![t].at = "ask", ![t].todo = @ \ {x}, ![t].now = {x},
                          ![t].tries = 1]
    /\ UNCHANGED <<plan, tasks, extraction, node, claim, evidence, dropped, notes, flagged,
                   cached, torn, cancelled, run, failures>>

(* ExtractionStage.extract through the structured output pipeline.         *)

After(t) == IF Kind(t) = "extract" THEN "return" ELSE "persist"

Extracted(t, x) ==
    /\ extraction' = extraction \cup {x}
    /\ job' = [job EXCEPT ![t].at = After(t), ![t].now = {}]
    /\ result' = [result EXCEPT ![t] = @ \cup {x}]
    /\ UNCHANGED <<plan, status, attempt, due, stored, source, content, node, claim, evidence,
                   dropped, notes, flagged, torn, cancelled, run, failures>>

\* The model answers in the expected form, now or for an earlier call.
Answered(t, x) ==
    /\ job[t].at = "ask" /\ x \in job[t].now
    /\ cached' = cached \cup {x}
    /\ Extracted(t, x)

Again(t) ==
    /\ job' = [job EXCEPT ![t].tries = @ + 1]
    /\ UNCHANGED <<plan, tasks, sink, cached, torn, cancelled, run>>

\* Mutant: a source nobody can read is passed over.
UnusableSkipped(t) ==
    IF job[t].tries < MaxTries THEN Again(t)
    ELSE /\ job' = [job EXCEPT ![t].at = After(t), ![t].now = {}]
         /\ UNCHANGED <<plan, tasks, sink, cached, torn, cancelled, run>>

\* The answer does not parse or validate: asked again, or failed for good.
Unusable(t) == IF job[t].tries < MaxTries THEN Again(t) ELSE Fail(t, FALSE)

\* The provider fails: what is retryable is asked again and in the end left
\* to the runner, which tries the task again.
ProviderFails(t, retryable) ==
    IF retryable /\ job[t].tries < MaxTries THEN Again(t) ELSE Fail(t, retryable)

AskFails(t) ==
    /\ job[t].at = "ask" /\ job[t].now \cap cached = {} /\ failures < MaxFailures
    /\ failures' = failures + 1
    /\ Unusable(t) \/ \E retryable \in BOOLEAN : ProviderFails(t, retryable)

\* What the search found has no content: the task fails for good.
NothingToExtract(t) ==
    /\ job[t].at = "ask" /\ job[t].now \cap cached = {} /\ failures < MaxFailures
    /\ failures' = failures + 1
    /\ Fail(t, FALSE)

(* Normalization, claims, validation and notes: no calls, no failures.     *)

MentionedIn(xs) == UNION {Mentions(x) : x \in xs}
AssertedIn(xs)  == UNION {Asserts(x) : x \in xs}

\* Nodes and the relations between them, over whatever the sink held.
PersistNodes(t) ==
    /\ job[t].at = "nodes"
    /\ LET made == MentionedIn(job[t].todo)
       IN  /\ node' = [n \in Nodes |->
                IF n \in made THEN {x \in job[t].todo : n \in Mentions(x)} ELSE node[n]]
           /\ result' = [result EXCEPT ![t] = @ \cup made]
           /\ job' = [job EXCEPT ![t].at = IF Kind(t) = "normalize" THEN "return" ELSE "claims",
                                 ![t].known = made]
    /\ UNCHANGED <<plan, status, attempt, due, stored, source, content, extraction, claim,
                   evidence, dropped, notes, flagged, cached, torn, cancelled, run, failures>>

\* A claim is made only about a node that is known.
Resolves(t, c) == Subject(c) \in job[t].known

\* Mutant: evidence and the result name the dropped claims too.
ResolvedAnyway(t) == AssertedIn(job[t].todo)

\* The claims made; the others are dropped.
Resolved(t) == {c \in AssertedIn(job[t].todo) : Resolves(t, c)}

\* The sources among which a handler found a claim, and what it drops of one.
Backing(t, c)    == {x \in job[t].todo : c \in Asserts(x)}
Unresolved(t, x) == {c \in Asserts(x) : ~Resolves(t, c)}

PersistClaims(t) ==
    /\ job[t].at = "claims"
    /\ claim' = [c \in Claims |->
            IF c \in AssertedIn(job[t].todo) /\ Resolves(t, c)
            THEN [from |-> Backing(t, c), review |-> FALSE]
            ELSE claim[c]]
    /\ result' = [result EXCEPT ![t] = @ \cup Resolved(t)]
    /\ Goto(t, "evidence")
    /\ UNCHANGED <<plan, status, attempt, due, stored, source, content, extraction, node,
                   evidence, dropped, notes, flagged, cached, torn, cancelled, run, failures>>

\* The sink finds an evidence record by its claim and a dropped one by its
\* source (_record_identity), so that the last one stays; the result names all.
PersistEvidence(t) ==
    /\ job[t].at = "evidence"
    /\ evidence' = [c \in Claims |->
            IF c \in Resolved(t) THEN {Last(Backing(t, c))} ELSE evidence[c]]
    /\ dropped' = [x \in Sources |->
            IF x \in job[t].todo /\ Unresolved(t, x) # {} THEN {Last(Unresolved(t, x))}
            ELSE dropped[x]]
    /\ result' = [result EXCEPT ![t] =
            @ \cup {e \in EvidenceIds : e[1] \in Resolved(t) /\ e[2] \in Backing(t, e[1])}]
    /\ Goto(t, "return")
    /\ UNCHANGED <<plan, status, attempt, due, stored, source, content, extraction, node, claim,
                   notes, flagged, cached, torn, cancelled, run, failures>>

Contested(cs) == {c \in cs : \E d \in cs : Rivals(c, d)}

\* Every claim that contradicts another one is flagged, and the run parked.
Check(t) ==
    /\ job[t].at = "validate"
    /\ flagged' = Contested(job[t].todo)
    /\ claim' = [c \in Claims |->
            IF c \in Contested(job[t].todo) THEN [claim[c] EXCEPT !.review = TRUE] ELSE claim[c]]
    /\ Goto(t, "return")
    /\ UNCHANGED <<plan, tasks, source, content, extraction, node, evidence, dropped, notes,
                   cached, torn, cancelled, run, failures>>

Write(t) ==
    /\ job[t].at = "write"
    /\ notes' = job[t].todo
    /\ Goto(t, "return")
    /\ UNCHANGED <<plan, tasks, source, content, extraction, node, claim, evidence, dropped,
                   flagged, cached, torn, cancelled, run, failures>>

-----------------------------------------------------------------------------
(* The end of an attempt and of the run.                                   *)

Outcome(t) == IF t = Validate /\ flagged # {} THEN "needs_review" ELSE "completed"

Returns(t) ==
    \/ job[t].at \in {"return", "stop"}
    \/ job[t].at = "persist" /\ job[t].todo = {}

\* What becomes of a task whose handler returned: nothing completes any more
\* once the run is cancelled.
Closed(t) == IF cancelled THEN "cancelled" ELSE Outcome(t)

\* _complete: the status first, the result after it.
Return(t) ==
    /\ Returns(t)
    /\ status' = [status EXCEPT ![t] = Closed(t)]
    /\ job' = [job EXCEPT ![t] =
            IF cancelled \/ job[t].at = "stop" THEN Idle ELSE [Idle EXCEPT !.at = "store"]]
    /\ UNCHANGED <<plan, attempt, due, result, stored, sink, cached, torn, cancelled, run,
                   failures>>

Store(t) ==
    /\ job[t].at = "store"
    /\ stored' = stored \cup {t}
    /\ job' = [job EXCEPT ![t] = Idle]
    /\ UNCHANGED <<plan, status, attempt, due, result, sink, cached, torn, cancelled, run,
                   failures>>

Cancel ==
    /\ run = "running" /\ ~cancelled
    /\ cancelled' = TRUE
    /\ UNCHANGED <<plan, tasks, job, sink, cached, torn, run, failures>>

\* Nothing runs, is ready or is due, or the run is cancelled: _finalize.  A
\* run with a task under review and one behind it keeps its status.
Finalize ==
    /\ run = "running" /\ Inflight = {}
    /\ cancelled \/ (due = {} /\ \A t \in AllTasks : ~IsReady(t))
    /\ \/ cancelled /\ run' = "cancelled"
          /\ status' = [t \in AllTasks |->
                IF status[t] \in {"pending"} THEN "cancelled" ELSE status[t]]
       \/ ~cancelled /\ UNCHANGED status
          /\ \/ run' = "failed" /\ \E t \in AllTasks : status[t] = "failed"
             \/ run' = "completed"
                /\ \A t \in AllTasks : status[t] \notin {"failed", "pending"}
    /\ UNCHANGED <<plan, attempt, due, result, stored, job, sink, cached, torn, cancelled,
                   failures>>

Rests ==
    /\ Inflight = {} /\ \A t \in AllTasks : job[t] = Idle
    /\ \/ run # "running"
       \/ ~cancelled /\ due = {} /\ \A t \in AllTasks : ~IsReady(t)
    /\ UNCHANGED svars

StagesInit ==
    /\ plan \in {"provided", "planned"}
    /\ status = [t \in AllTasks |->
            IF t \in (IF plan = "provided" THEN Provided ELSE Static) THEN "pending"
            ELSE "absent"]
    /\ attempt = [t \in AllTasks |-> 0] /\ due = {} /\ stored = {}
    /\ result = [t \in AllTasks |-> {}] /\ job = [t \in AllTasks |-> Idle]
    /\ source = [x \in Sources |-> "none"] /\ content = {} /\ extraction = {}
    /\ node = [n \in Nodes |-> {}] /\ claim = [c \in Claims |-> NoClaim]
    /\ evidence = [c \in Claims |-> {}] /\ dropped = [x \in Sources |-> {}] /\ notes = {} /\ flagged = {} /\ cached = {} /\ torn = {}
    /\ cancelled = FALSE /\ run = "running" /\ failures = 0

Handler(t) ==
    \/ Enter(t) \/ SearchAnswers(t) \/ SearchFails(t) \/ SeeCancel(t)
    \/ \E x \in Sources : PersistFound(t, x) \/ Rate(t, x) \/ Answered(t, x)
    \/ AskFails(t) \/ NothingToExtract(t)
    \/ PersistNodes(t) \/ PersistClaims(t) \/ PersistEvidence(t) \/ Check(t) \/ Write(t)
    \/ Return(t) \/ Store(t)

StagesNext ==
    \/ Cancel \/ Finalize \/ Rests
    \/ \E t \in AllTasks : Submit(t) \/ Requeue(t) \/ Handler(t)

StagesSpec == StagesInit /\ [][StagesNext]_svars

-----------------------------------------------------------------------------
(* Properties.                                                             *)

\* The sources, extractions, nodes and claims a stored result names are in the
\* sink, and a claim has an evidence there: a task that collects its inputs
\* never looks for a record that was not kept.  An evidence the result names
\* may have been replaced since, by one of the same claim.
ResultsAreKept ==
    \A t \in stored : \A i \in result[t] :
        \/ /\ i \in Sources /\ source[i] # "none"
           /\ Kind(t) \in {"evaluation", "extract"} => i \in extraction
        \/ i \in Nodes /\ node[i] # {}
        \/ i \in Claims /\ claim[i].from # {} /\ evidence[i] # {}
        \/ i \in EvidenceIds /\ evidence[i[1]] # {}

\* Whenever the job's results are fetched, also of a run that failed half
\* way: each evidence comes with its claim, the claim with its node, and the
\* evidence's source with its content.
EvidenceIsGrounded ==
    \A c \in Claims :
        /\ evidence[c] # {} => claim[c].from # {}
        /\ evidence[c] \subseteq content \cap extraction
        /\ claim[c].from # {} => node[Subject(c)] # {}

\* A conflict that validation found stays flagged on its claims: no
\* normalization writes a claim after that.
FlagsStay == \A c \in flagged : claim[c].review

\* In a completed run every source a section's own search found was
\* extracted, unless a result came too late.
OwnSourcesExtracted ==
    run = "completed" /\ torn = {} =>
        \A s \in Sections : Found("search", s) \subseteq extraction

\* A run that completes without a review holds no contradiction between its
\* claims, unless a result came too late.
NoConflictSlips ==
    run = "completed" /\ torn = {} =>
        \A c, d \in Claims : claim[c].from # {} /\ claim[d].from # {} => ~Rivals(c, d)

\* A completed task has a result, or its thread is about to store it.
CompletedHasResult ==
    \A t \in AllTasks : status[t] = "completed" => t \in stored \/ job[t].at = "store"

\* What the sink and the results hold fits together at every moment the core
\* may fetch them or a task may read them.
SinkInv == StagesTypeOK /\ ResultsAreKept /\ EvidenceIsGrounded /\ FlagsStay /\ CompletedHasResult

\* The loop never spins: when no thread works and nothing can be submitted,
\* no task counts as ready, and one that still waits has a failed or reviewed
\* task to blame.
LoopNeverSpins ==
    run = "running" /\ ~cancelled /\ Inflight = {} /\ due = {}
        /\ (\A t \in AllTasks : ~Startable(t)) =>
    /\ \A t \in AllTasks : ~IsReady(t)
    /\ (\E t \in AllTasks : status[t] = "pending") =>
           \E t \in AllTasks : status[t] \in {"failed", "needs_review"}
=============================================================================
