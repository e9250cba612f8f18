------------------------ MODULE PlanLifecycleProofs ------------------------
(***************************************************************************)
(* What PlanLifecycle says of plans, runs, jobs and follow-ups, proved for *)
(* every set of dimensions and topics, however often the plan is edited,   *)
(* regenerated, approved and run.                                          *)
(*                                                                         *)
(* The invariant that carries it says where a run is in its start          *)
(* (RunFits, WaitingFits), that one run at most is under way or has        *)
(* started in a plan (OneSpender), and what the rows that refer to each    *)
(* other have in common.                                                   *)
(***************************************************************************)
EXTENDS PlanLifecycle, SequenceTheorems, FiniteSetTheorems, WellFoundedInduction, TLAPS

-----------------------------------------------------------------------------
(* The invariant, and the steps of runs.                                   *)

\* A row of runs.
RunRow(p, status, at, started, sent, job) ==
    [plan |-> p, status |-> status, sent |-> sent, job |-> job, started |-> started, at |-> at]

\* The rows are rows, numbered from 1.
TaskRow == [plan : Nat, section : Nat \ {0}, type : TaskType, text : Text,
            after : SUBSET Nat, begun : BOOLEAN, run : Nat]

RowsAreRows ==
    /\ task \in Seq(TaskRow)
    /\ Len(run) \in Nat /\ run = [r \in 1 .. Len(run) |-> run[r]]
    /\ \A r \in DOMAIN run :
         run[r] = RunRow(run[r].plan, run[r].status, run[r].at, run[r].started,
                         run[r].sent, run[r].job)

\* A claimed task is one of the plan that the run executes.
ClaimsFit ==
    \A t \in DOMAIN task :
        task[t].run # 0 => task[t].run \in DOMAIN run /\ task[t].plan = run[task[t].run].plan

\* Where a run is in its start and what has become of it go together.
RunFits(r) ==
    /\ run[r].sent \subseteq TasksOf(run[r].plan)
    /\ run[r].status = "deleted" =>
         run[r].at = "done" /\ ~run[r].started /\ run[r].sent = {}
    /\ run[r].at = "submitting" => run[r].status = "running"
    /\ run[r].at \in {"submitting", "refused"} => ~run[r].started
    /\ run[r].at = "refused" => run[r].status \in {"ended", "cancelled"}
    /\ run[r].started => run[r].sent # {} /\ Claims(r) = run[r].sent
    /\ ~run[r].started =>
         run[r].status \in {"running", "cancelled", "deleted"} \/ run[r].at = "refused"

\* Until it starts, the plan of a run under way stays as it was sent.
WaitingFits(r) ==
    run[r].status \in Active /\ ~run[r].started =>
        /\ run[r].sent = TasksOf(run[r].plan) /\ run[r].sent # {}
        /\ \A t \in run[r].sent : Untouched(t)

RunsFit == \A r \in DOMAIN run : RunFits(r) /\ WaitingFits(r)

\* A run that is under way or has started spends its plan.
Spends(r) == run[r].status \in Active \/ run[r].started

OneSpender ==
    \A r, s \in DOMAIN run : run[r].plan = run[s].plan /\ Spends(r) /\ Spends(s) => r = s

PlansHaveTasks == \A p \in DOMAIN plan : TasksOf(p) # {}

\* A brief is on the topic its plan was made for.
TextFits ==
    \A t \in DOMAIN task : \A c \in Topic, d \in Dims :
        task[t].text = Brief(c, d) => c = config[plan[task[t].plan].config].topic

\* A job carries its plan's configuration, and its plan is no draft any more.
JobFits ==
    \A r \in DOMAIN run : run[r].sent # {} =>
        plan[run[r].plan].status # "draft" /\ run[r].job.config = plan[run[r].plan].config

\* An accepted follow-up is a search for the gap, or what the user made of it.
FollowUpFits ==
    \A d \in GapDims : decision[d].status = "approved" =>
        /\ decision[d].task # 0 /\ task[decision[d].task].type = "search"
        /\ task[decision[d].task].text \in {Gap(d), Edited, Empty}

PlanIInv ==
    /\ TypeOK /\ RowsAreRows /\ ClaimsFit /\ RunsFit /\ OneSpender
    /\ PlansHaveTasks /\ TextFits /\ JobFits /\ FollowUpFits
    /\ JobIsWhatWasReviewed /\ SynthesisIsLast /\ FollowUpReachable

\* What the rows refer to is there.
LEMMA RowFacts ==
    ASSUME PlanIInv
    PROVE  /\ Len(config) \in Nat /\ DOMAIN config = 1 .. Len(config)
           /\ \A i \in DOMAIN config : config[i] \in Inputs /\ config[i] \in Config
           /\ Len(plan) \in Nat /\ DOMAIN plan = 1 .. Len(plan)
           /\ \A p \in DOMAIN plan : /\ plan[p] \in [status : PlanStatus, config : DOMAIN config]
                                     /\ plan[p].config \in DOMAIN config
           /\ Len(task) \in Nat /\ DOMAIN task = 1 .. Len(task)
           /\ \A t \in DOMAIN task :
                /\ task[t] \in TaskRow /\ task[t].plan \in DOMAIN plan
                /\ task[t].after \subseteq 1 .. t - 1 /\ task[t].run \in 0 .. Len(run)
           /\ Len(run) \in Nat /\ DOMAIN run = 1 .. Len(run)
           /\ \A r \in DOMAIN run : run[r].plan \in DOMAIN plan
           /\ \A d \in GapDims : decision[d].task \in 0 .. Len(task)
<1> USE DEF PlanIInv
<1>1. /\ Len(config) \in Nat /\ DOMAIN config = 1 .. Len(config)
      /\ \A i \in DOMAIN config : config[i] \in Inputs /\ config[i] \in Config
  BY LenProperties, InputsAssumption DEF TypeOK
<1>2. /\ Len(plan) \in Nat /\ DOMAIN plan = 1 .. Len(plan)
      /\ \A p \in DOMAIN plan : plan[p] \in [status : PlanStatus, config : DOMAIN config]
  <2>1. plan \in Seq([status : PlanStatus, config : DOMAIN config])
    BY DEF TypeOK
  <2> QED
    BY <2>1, LenProperties
<1>3. /\ Len(task) \in Nat /\ DOMAIN task = 1 .. Len(task)
      /\ \A t \in DOMAIN task : task[t] \in TaskRow
  BY LenProperties DEF RowsAreRows
<1>4. \A t \in DOMAIN task :
        /\ task[t].plan \in DOMAIN plan
        /\ task[t].after \subseteq 1 .. t - 1 /\ task[t].run \in 0 .. Len(run)
  BY DEF TypeOK
<1>5. /\ Len(run) \in Nat /\ DOMAIN run = 1 .. Len(run)
      /\ \A r \in DOMAIN run : run[r].plan \in DOMAIN plan
  BY DEF RowsAreRows, TypeOK
<1>6. \A d \in GapDims : decision[d].task \in 0 .. Len(task)
  BY DEF TypeOK
<1> QED
  BY <1>1, <1>2, <1>3, <1>4, <1>5, <1>6

\* What a change of two columns makes of a row.
LEMMA RowMoves ==
    ASSUME NEW r \in DOMAIN run, NEW x, x = run[r],
           x = RunRow(x.plan, x.status, x.at, x.started, x.sent, x.job),
           NEW to, NEW at, Move(r, to, at)
    PROVE  run' = [run EXCEPT ![r] = RunRow(x.plan, to, at, x.started, x.sent, x.job)]
<1>1. PICK y : y = run[r]
  OBVIOUS
<1>2. PICK g : g = [run EXCEPT ![r].status = to]
  OBVIOUS
<1>3. run' = [g EXCEPT ![r].at = at]
  BY <1>2 DEF Move
<1>4. g[r] = RunRow(x.plan, to, x.at, x.started, x.sent, x.job)
  <2>1. [y EXCEPT !.status = to] = RunRow(x.plan, to, x.at, x.started, x.sent, x.job)
    BY <1>1 DEF RunRow
  <2>2. g = [run EXCEPT ![r] = [y EXCEPT !.status = to]]
    BY <1>1, <1>2
  <2> QED
    BY <2>1, <2>2
<1>5. PICK z : z = g[r]
  OBVIOUS
<1>6. [z EXCEPT !.at = at] = RunRow(x.plan, to, at, x.started, x.sent, x.job)
  BY <1>4, <1>5 DEF RunRow
<1>7. [g EXCEPT ![r].at = at] = [g EXCEPT ![r] = [z EXCEPT !.at = at]]
  BY <1>5
<1>8. PICK u : u = RunRow(x.plan, to, at, x.started, x.sent, x.job)
  OBVIOUS
<1>9. [g EXCEPT ![r] = u] = [run EXCEPT ![r] = u]
  BY <1>2
<1> QED
  BY <1>3, <1>6, <1>7, <1>8, <1>9

\* The row of a run that starts.
LEMMA RowStarts ==
    ASSUME NEW r \in DOMAIN run, NEW x, x = run[r],
           x = RunRow(x.plan, x.status, x.at, x.started, x.sent, x.job), RunStarted(r)
    PROVE  run' = [run EXCEPT ![r] = RunRow(x.plan, "running", x.at, TRUE, x.sent, x.job)]
<1>1. PICK y : y = run[r]
  OBVIOUS
<1>2. PICK b : b = TRUE
  OBVIOUS
<1>3. PICK g : g = [run EXCEPT ![r].started = b]
  OBVIOUS
<1>4. run' = [g EXCEPT ![r].status = "running"]
  BY <1>2, <1>3 DEF RunStarted
<1>5. g[r] = RunRow(x.plan, x.status, x.at, b, x.sent, x.job)
  <2>1. [y EXCEPT !.started = b] = RunRow(x.plan, x.status, x.at, b, x.sent, x.job)
    BY <1>1 DEF RunRow
  <2>2. g = [run EXCEPT ![r] = [y EXCEPT !.started = b]]
    BY <1>1, <1>3
  <2> QED
    BY <2>1, <2>2
<1>6. PICK z : z = g[r]
  OBVIOUS
<1>7. [z EXCEPT !.status = "running"] = RunRow(x.plan, "running", x.at, b, x.sent, x.job)
  BY <1>5, <1>6 DEF RunRow
<1>8. [g EXCEPT ![r].status = "running"] = [g EXCEPT ![r] = [z EXCEPT !.status = "running"]]
  BY <1>6
<1>9. PICK u : u = RunRow(x.plan, "running", x.at, b, x.sent, x.job)
  OBVIOUS
<1>10. [g EXCEPT ![r] = u] = [run EXCEPT ![r] = u]
  BY <1>3
<1> QED
  BY <1>2, <1>4, <1>7, <1>8, <1>9, <1>10

\* A function on 1 .. n is a sequence of length n.
LEMMA FunctionIsSeq ==
    ASSUME NEW S, NEW n \in Nat, NEW f \in [1 .. n -> S]
    PROVE  f \in Seq(S) /\ Len(f) = n /\ DOMAIN f = 1 .. n
OBVIOUS

\* What tasks say, and which the decisions are linked to, stays.
SameTexts == decision' = decision /\ \A t \in DOMAIN task : task'[t].text = task[t].text

\* What a step of a run may do to its rows and to those of its plan's tasks.
LEMMA RunStepKeeps ==
    ASSUME PlanIInv, NEW r \in DOMAIN run, UNCHANGED <<config, plan, decision, edits>>,
           run[r].status # "deleted",
           task' \in Seq(TaskRow), Len(task') = Len(task), DOMAIN task' = DOMAIN task,
           \A t \in DOMAIN task :
             /\ task'[t].plan = task[t].plan /\ task'[t].section = task[t].section
             /\ task'[t].type = task[t].type /\ task'[t].text = task[t].text
             /\ task'[t].after = task[t].after,
           \A t \in DOMAIN task : task'[t].begun # task[t].begun =>
             task'[t].begun /\ task[t].plan = run[r].plan /\ Spends(r),
           \A t \in DOMAIN task : task'[t].run # task[t].run =>
             \/ task[t].run = r /\ task'[t].run = 0 /\ run'[r].status = "deleted"
             \/ task[t].run = 0 /\ task'[t].run = r /\ task[t].plan = run[r].plan /\ Spends(r),
           NEW to \in RunStatus, NEW at \in {"submitting", "refused", "submitted", "done"},
           NEW started \in BOOLEAN, NEW sent, NEW job,
           run' = [run EXCEPT ![r] = RunRow(run[r].plan, to, at, started, sent, job)],
           sent = {} \/ (sent = run[r].sent /\ job = run[r].job),
           to \in Active \/ started => Spends(r),
           RunFits(r)', WaitingFits(r)'
    PROVE  PlanIInv' /\ SameTexts
<1> USE DEF PlanIInv, RunRow
<1>1. /\ Len(run') = Len(run) /\ Len(run) \in Nat /\ DOMAIN run' = DOMAIN run
      /\ run'[r] = [plan |-> run[r].plan, status |-> to, sent |-> sent,
                    job |-> job, started |-> started, at |-> at]
      /\ \A q \in DOMAIN run : q # r => run'[q] = run[q]
      /\ DOMAIN run = 1 .. Len(run)
  <2>1. run = [q \in 1 .. Len(run) |-> run[q]] /\ Len(run) \in Nat
    BY DEF RowsAreRows
  <2> QED
    BY <2>1
<1>2. \A q \in DOMAIN run : run'[q].plan = run[q].plan
  BY <1>1
<1>3. \A p : TasksOf(p)' = TasksOf(p)
  BY DEF TasksOf
<1>4. TypeOK'
  <2>1. \A t \in DOMAIN task : task'[t] \in TaskRow /\ task'[t].run \in 0 .. Len(run)
    <3>1. r \in 0 .. Len(run) /\ 0 \in 0 .. Len(run)
      BY <1>1
    <3> QED
      BY <3>1, RowFacts, LenProperties
  <2>2. \A t \in DOMAIN task :
          task'[t] \in [plan : DOMAIN plan, section : Nat \ {0}, type : TaskType, text : Text,
                        after : SUBSET (1 .. t - 1), begun : BOOLEAN, run : 0 .. Len(run)]
    BY <2>1, RowFacts DEF TaskRow
  <2>3. \A q \in DOMAIN run :
          /\ run'[q].plan \in DOMAIN plan /\ run'[q].status \in RunStatus
          /\ run'[q].sent \subseteq DOMAIN task /\ run'[q].started \in BOOLEAN
          /\ run'[q].at \in {"submitting", "refused", "submitted", "done"}
    BY <1>1 DEF TypeOK
  <2> QED
    BY <1>1, <2>2, <2>3 DEF TypeOK
<1>5. RowsAreRows'
  BY <1>1 DEF RowsAreRows
<1>6. ClaimsFit'
  BY <1>1, <1>2 DEF ClaimsFit
<1>7. PlansHaveTasks'
  BY <1>3 DEF PlansHaveTasks
<1>8. TextFits' /\ FollowUpFits'
  <2>1. \A d \in GapDims : decision[d].task # 0 => decision[d].task \in DOMAIN task
    BY RowFacts
  <2> QED
    BY <2>1 DEF TextFits, FollowUpFits
<1>9. JobFits'
  BY <1>1 DEF JobFits
<1>10. JobIsWhatWasReviewed'
  <2>1. \A t \in DOMAIN task : Query(t)' = Query(t)
    BY DEF Query
  <2>2. \A q \in DOMAIN run : run[q].sent \subseteq DOMAIN task
    BY DEF TypeOK
  <2>3. \A q \in DOMAIN run : run'[q].sent = {} \/ (run'[q].sent = run[q].sent /\ run'[q].job = run[q].job)
    BY <1>1
  <2> QED
    BY <1>1, <2>1, <2>2, <2>3 DEF JobIsWhatWasReviewed
<1>11. SynthesisIsLast'
  <2> SUFFICES ASSUME NEW t \in DOMAIN task
               PROVE  /\ \A u \in task[t].after : task'[u].plan = task[t].plan
                      /\ \A s \in TasksOf(task[t].plan) : task[s].type = "synthesis" /\ t < s
                           => \E u \in DOMAIN task : t \in task[u].after
    BY <1>3 DEF SynthesisIsLast, TasksOf
  <2>1. task[t].after \subseteq DOMAIN task
    BY RowFacts
  <2>2. \A u \in task[t].after : task'[u].plan = task[t].plan
    BY <2>1 DEF SynthesisIsLast
  <2>3. \A s \in TasksOf(task[t].plan) : task[s].type = "synthesis" /\ t < s
          => \E u \in DOMAIN task : t \in task[u].after
    BY DEF SynthesisIsLast
  <2> QED
    BY <2>2, <2>3
<1>12. \A q \in DOMAIN run : q # r => Claims(q)' = Claims(q)
  <2> SUFFICES ASSUME NEW q \in DOMAIN run, q # r, NEW t \in DOMAIN task
               PROVE  task'[t].run = q <=> task[t].run = q
    BY DEF Claims
  <2> QED
    BY <1>1
<1>13. ASSUME NEW q \in DOMAIN run, q # r PROVE RunFits(q)'
  BY <1>1, <1>3, <1>12, <1>13 DEF RunsFit, RunFits
<1>14. ASSUME NEW q \in DOMAIN run, q # r PROVE WaitingFits(q)'
  <2> SUFFICES ASSUME run[q].status \in Active, ~run[q].started
               PROVE  /\ run[q].sent = TasksOf(run[q].plan) /\ run[q].sent # {}
                      /\ \A t \in run[q].sent : Untouched(t)'
    BY <1>1, <1>3, <1>14 DEF WaitingFits
  <2>1. /\ run[q].sent = TasksOf(run[q].plan) /\ run[q].sent # {}
        /\ \A t \in run[q].sent : Untouched(t)
    BY DEF RunsFit, WaitingFits
  <2>2. Spends(r) => run[r].plan # run[q].plan
    BY <1>14 DEF OneSpender, Spends
  <2>3. \A t \in run[q].sent : t \in DOMAIN task /\ task[t].plan = run[q].plan
    BY <2>1 DEF TasksOf
  <2>4. \A t \in run[q].sent : Untouched(t)'
    BY <1>1, <2>1, <2>2, <2>3 DEF Untouched
  <2> QED
    BY <2>1, <2>4
<1>15. RunsFit'
  BY <1>1, <1>13, <1>14 DEF RunsFit
<1>16. \A q \in DOMAIN run : Spends(q)' => Spends(q)
  BY <1>1 DEF Spends
<1>17. OneSpender'
  BY <1>1, <1>2, <1>16 DEF OneSpender
<1>18. FollowUpReachable'
  <2> SUFFICES ASSUME NEW d \in GapDims, Carries(d)'
               PROVE  \/ task[decision[d].task].plan = Len(plan)
                      \/ \E s \in DOMAIN run : /\ run'[s].plan = task[decision[d].task].plan
                                               /\ run'[s].status = "deleted"
    <3>1. \A d \in GapDims : decision[d].status = "approved" => decision[d].task \in DOMAIN task
      BY RowFacts DEF FollowUpFits
    <3> QED
      BY <1>1, <3>1 DEF FollowUpReachable, Carries, Current
  <2> DEFINE t == decision[d].task
  <2>1. t \in DOMAIN task /\ decision[d].status = "approved" /\ Untouched(t)'
    BY RowFacts DEF FollowUpFits, Carries
  <2>2. CASE Untouched(t)
    <3>1. Carries(d)
      BY <2>1, <2>2 DEF Carries
    <3> QED
      BY <1>1, <1>2, <3>1 DEF FollowUpReachable, Current
  <2>3. CASE ~Untouched(t)
    <3>1. ~task'[t].begun /\ task'[t].run = 0
      BY <2>1 DEF Untouched
    <3>2. ~task[t].begun
      BY <2>1, <3>1
    <3>3. task[t].run # 0
      BY <2>3, <3>2 DEF Untouched
    <3>4. task[t].run = r /\ run'[r].status = "deleted"
      BY <1>1, <2>1, <3>1, <3>3
    <3> QED
      BY <1>2, <2>1, <3>3, <3>4 DEF ClaimsFit
  <2> QED
    BY <2>2, <2>3
<1> QED
  BY <1>4, <1>5, <1>6, <1>7, <1>8, <1>9, <1>10, <1>11, <1>15, <1>17, <1>18 DEF SameTexts

\* Every step of a run is such a step.
LEMMA RunStepsKeep ==
    ASSUME PlanIInv, NEW r \in DOMAIN run,
           \/ Submit(r) \/ Bind(r) \/ RunStarted(r) \/ RunEnded(r) \/ Converge(r)
           \/ LaterTaskEvents(r)
           \/ \E t \in run[r].sent : FirstTaskEvent(r, t)
    PROVE  PlanIInv' /\ SameTexts
<1> USE DEF PlanIInv
<1> DEFINE x == run[r]
           Row(to, at, started, sent, job) == RunRow(x.plan, to, at, started, sent, job)
<1>1. /\ x = Row(x.status, x.at, x.started, x.sent, x.job)
      /\ Len(run) \in Nat /\ run = [q \in 1 .. Len(run) |-> run[q]] /\ r \in 1 .. Len(run)
      /\ r # 0
  BY RowFacts DEF RowsAreRows
<1> USE DEF RunRow
<1>2. RunFits(r) /\ WaitingFits(r) /\ x.status \in RunStatus /\ x.started \in BOOLEAN
      /\ x.at \in {"submitting", "refused", "submitted", "done"} /\ x.sent \subseteq DOMAIN task
  BY DEF RunsFit, TypeOK
<1>3. task \in Seq(TaskRow) /\ Len(task) \in Nat /\ DOMAIN task = 1 .. Len(task)
      /\ \A t \in DOMAIN task : task[t] \in TaskRow
  BY RowFacts DEF RowsAreRows
<1>4. TasksOf(x.plan) = {t \in DOMAIN task : task[t].plan = x.plan}
      /\ Claims(r) = {t \in DOMAIN task : task[t].run = r}
      /\ \A t \in Claims(r) : task[t].plan = x.plan
  BY <1>1 DEF TasksOf, Claims, ClaimsFit
<1>5. ASSUME task' = task, UNCHANGED <<config, plan, decision, edits>>, x.status # "deleted",
             NEW to \in RunStatus, NEW at \in {"submitting", "refused", "submitted", "done"},
             run' = [run EXCEPT ![r] = Row(to, at, x.started, x.sent, x.job)],
             to # "deleted", x.at = "submitting" \/ at = x.at \/ (at = "done" /\ to = x.status),
             to \in Active => x.status = to \/ x.started,
             at = "submitting" => x.at = "submitting" /\ to = "running",
             at = "refused" => ~x.started /\ to = "ended",
             ~x.started => to \in {"running", "cancelled"} \/ at = "refused"
      PROVE  PlanIInv' /\ SameTexts
  <2>1. run'[r] = Row(to, at, x.started, x.sent, x.job)
    BY <1>1, <1>5
  <2>2. TasksOf(x.plan)' = TasksOf(x.plan) /\ Claims(r)' = Claims(r)
        /\ \A t : Untouched(t)' = Untouched(t) /\ run'[r].plan = x.plan
    BY <1>5, <2>1 DEF TasksOf, Claims, Untouched
  <2>3. RunFits(r)'
    BY <1>2, <1>5, <2>1, <2>2 DEF RunFits, TasksOf
  <2>4. WaitingFits(r)'
    BY <1>2, <1>5, <2>1, <2>2 DEF WaitingFits, TasksOf, Active
  <2>5. (to \in Active \/ x.started => Spends(r)) /\ DOMAIN task' = DOMAIN task /\ Len(task') = Len(task)
    BY <1>5 DEF Spends
  <2> QED
    BY <1>2, <1>3, <1>5, <2>3, <2>4, <2>5, RunStepKeeps
<1>6. ASSUME NEW S \in SUBSET TasksOf(x.plan), task' = Begun(S),
             UNCHANGED <<config, plan, decision, edits>>, x.status # "deleted", Spends(r),
             NEW to \in RunStatus \ {"deleted"}, NEW at \in {"submitting", "refused", "submitted", "done"},
             run' = [run EXCEPT ![r] = Row(to, at, x.started, x.sent, x.job)],
             at # "submitting", at = "refused" => ~x.started /\ to \in {"ended", "cancelled"},
             ~x.started => to = "cancelled"
      PROVE  PlanIInv' /\ SameTexts
  <2>1. run'[r] = Row(to, at, x.started, x.sent, x.job)
    BY <1>1, <1>6
  <2>2. /\ task' \in Seq(TaskRow) /\ Len(task') = Len(task) /\ DOMAIN task' = DOMAIN task
        /\ \A t \in DOMAIN task :
             /\ task'[t].plan = task[t].plan /\ task'[t].section = task[t].section
             /\ task'[t].type = task[t].type /\ task'[t].text = task[t].text
             /\ task'[t].after = task[t].after /\ task'[t].run = task[t].run
             /\ task'[t].begun # task[t].begun => task'[t].begun /\ t \in S
    <3>1. task' = [t \in 1 .. Len(task) |-> IF t \in S THEN [task[t] EXCEPT !.begun = TRUE] ELSE task[t]]
      BY <1>3, <1>6 DEF Begun
    <3>2. \A t \in 1 .. Len(task) : task'[t] \in TaskRow
      BY <1>3, <3>1 DEF TaskRow
    <3>3. task' \in [1 .. Len(task) -> TaskRow]
      BY <3>1, <3>2
    <3>4. task' \in Seq(TaskRow) /\ Len(task') = Len(task) /\ DOMAIN task' = DOMAIN task
      BY <1>3, <3>3, FunctionIsSeq
    <3>5. \A t \in DOMAIN task :
             /\ task'[t].plan = task[t].plan /\ task'[t].section = task[t].section
             /\ task'[t].type = task[t].type /\ task'[t].text = task[t].text
             /\ task'[t].after = task[t].after
      BY <1>3, <3>1 DEF TaskRow
    <3> QED
      BY <1>3, <3>1, <3>4, <3>5 DEF TaskRow
  <2>3. TasksOf(x.plan)' = TasksOf(x.plan) /\ Claims(r)' = Claims(r) /\ run'[r].plan = x.plan
    BY <2>1, <2>2 DEF TasksOf, Claims
  <2>4. RunFits(r)'
    BY <1>2, <1>6, <2>1, <2>3 DEF RunFits, TasksOf
  <2>5. WaitingFits(r)'
    BY <1>6, <2>1 DEF WaitingFits, Active
  <2>6. \A t \in S : task[t].plan = x.plan
    BY <1>4
  <2> QED
    BY <1>2, <1>6, <2>2, <2>4, <2>5, <2>6, RunStepKeeps DEF Spends
<1>7. ASSUME Undo(r), UNCHANGED <<config, plan, decision, edits>>, x.status # "deleted"
      PROVE  PlanIInv' /\ SameTexts
  <2>1. run' = [run EXCEPT ![r] = Row("deleted", "done", FALSE, {}, NoJob)]
    BY <1>1, <1>7 DEF Undo, RunRow
  <2>2. run'[r] = Row("deleted", "done", FALSE, {}, NoJob)
    BY <1>1, <2>1
  <2>3. /\ task' \in Seq(TaskRow) /\ Len(task') = Len(task) /\ DOMAIN task' = DOMAIN task
        /\ \A t \in DOMAIN task :
             /\ task'[t].plan = task[t].plan /\ task'[t].section = task[t].section
             /\ task'[t].type = task[t].type /\ task'[t].text = task[t].text
             /\ task'[t].after = task[t].after /\ task'[t].begun = task[t].begun
             /\ task'[t].run # task[t].run => task[t].run = r /\ task'[t].run = 0
    <3>1. task' = [t \in 1 .. Len(task) |-> IF task[t].run = r THEN [task[t] EXCEPT !.run = 0] ELSE task[t]]
      BY <1>3, <1>7 DEF Undo
    <3>2. \A t \in 1 .. Len(task) : task'[t] \in TaskRow
      BY <1>3, <3>1 DEF TaskRow
    <3>3. task' \in [1 .. Len(task) -> TaskRow]
      BY <3>1, <3>2
    <3>4. task' \in Seq(TaskRow) /\ Len(task') = Len(task) /\ DOMAIN task' = DOMAIN task
      BY <1>3, <3>3, FunctionIsSeq
    <3>5. \A t \in DOMAIN task :
             /\ task'[t].plan = task[t].plan /\ task'[t].section = task[t].section
             /\ task'[t].type = task[t].type /\ task'[t].text = task[t].text
             /\ task'[t].after = task[t].after
      BY <1>3, <3>1 DEF TaskRow
    <3> QED
      BY <1>3, <3>1, <3>4, <3>5 DEF TaskRow
  <2>4. RunFits(r)'
    BY <2>2 DEF RunFits
  <2>5. WaitingFits(r)'
    BY <2>2 DEF WaitingFits, Active
  <2>6. "deleted" \in RunStatus /\ "deleted" \notin Active
    BY DEF RunStatus, Active
  <2> QED
    BY <1>2, <1>7, <2>1, <2>2, <2>3, <2>4, <2>5, <2>6, RunStepKeeps
<1>8. CASE Submit(r)
  <2>1. x.at = "submitting" /\ x.status = "running" /\ ~x.started
        /\ UNCHANGED <<config, plan, decision, edits>>
    BY <1>2, <1>8 DEF Submit, RunFits
  <2>2. CASE Move(r, x.status, "submitted") /\ UNCHANGED task
    <3>1. run' = [run EXCEPT ![r] = Row("running", "submitted", x.started, x.sent, x.job)]
      BY <1>1, <2>1, <2>2, RowMoves
    <3> QED
      BY <1>5, <2>1, <2>2, <3>1 DEF RunStatus, Active
  <2>3. CASE Undo(r)
    BY <1>7, <2>1, <2>3
  <2>4. CASE Move(r, "ended", "refused") /\ UNCHANGED task
    <3>1. run' = [run EXCEPT ![r] = Row("ended", "refused", x.started, x.sent, x.job)]
      BY <1>1, <2>4, RowMoves
    <3> QED
      BY <1>5, <2>1, <2>4, <3>1 DEF RunStatus, Active
  <2> QED
    BY <1>8, <2>2, <2>3, <2>4 DEF Submit
<1>9. CASE Bind(r)
  <2>1. x.at = "submitted" /\ x.status # "deleted" /\ UNCHANGED <<config, plan, decision, edits>>
    BY <1>2, <1>9 DEF Bind, RunFits
  <2>2. CASE Move(r, x.status, "done") /\ UNCHANGED task
    <3>1. run' = [run EXCEPT ![r] = Row(x.status, "done", x.started, x.sent, x.job)]
      BY <1>1, <2>2, RowMoves
    <3>2. ~x.started => x.status \in {"running", "cancelled"}
      BY <1>2, <2>1 DEF RunFits
    <3> QED
      BY <1>2, <1>5, <2>1, <2>2, <3>1, <3>2
  <2>3. CASE Undo(r)
    BY <1>7, <2>1, <2>3
  <2> QED
    BY <1>9, <2>2, <2>3 DEF Bind
<1>10. CASE RunStarted(r)
  <2>1. /\ x.at \in {"submitted", "done"} /\ ~x.started /\ x.status = "running"
        /\ UNCHANGED <<config, plan, decision, edits>>
    BY <1>2, <1>10 DEF RunStarted, Heard, RunFits
  <2>2. run' = [run EXCEPT ![r] = Row("running", x.at, TRUE, x.sent, x.job)]
    BY <1>1, <1>10, RowStarts
  <2>3. run'[r] = Row("running", x.at, TRUE, x.sent, x.job)
    BY <1>1, <2>2
  <2>4. x.sent = TasksOf(x.plan) /\ x.sent # {} /\ \A t \in TasksOf(x.plan) : Untouched(t)
    BY <1>2, <2>1 DEF WaitingFits, Active
  <2>5. /\ task' \in Seq(TaskRow) /\ Len(task') = Len(task) /\ DOMAIN task' = DOMAIN task
        /\ \A t \in DOMAIN task :
             /\ task'[t].plan = task[t].plan /\ task'[t].section = task[t].section
             /\ task'[t].type = task[t].type /\ task'[t].text = task[t].text
             /\ task'[t].after = task[t].after /\ task'[t].begun = task[t].begun
             /\ task[t].plan = x.plan /\ Untouched(t) => task'[t].run = r
             /\ ~(task[t].plan = x.plan /\ Untouched(t)) => task'[t].run = task[t].run
    <3>1. task' = [t \in 1 .. Len(task) |->
                     IF task[t].plan = x.plan /\ Untouched(t) THEN [task[t] EXCEPT !.run = r] ELSE task[t]]
      BY <1>3, <1>10 DEF RunStarted, Claim
    <3>2. \A t \in 1 .. Len(task) : task'[t] \in TaskRow
      <4>1. r \in Nat
        BY <1>1
      <4> QED
        BY <1>3, <3>1, <4>1 DEF TaskRow
    <3>3. task' \in [1 .. Len(task) -> TaskRow]
      BY <3>1, <3>2
    <3>4. task' \in Seq(TaskRow) /\ Len(task') = Len(task) /\ DOMAIN task' = DOMAIN task
      BY <1>3, <3>3, FunctionIsSeq
    <3>5. \A t \in DOMAIN task :
             /\ task'[t].plan = task[t].plan /\ task'[t].section = task[t].section
             /\ task'[t].type = task[t].type /\ task'[t].text = task[t].text
             /\ task'[t].after = task[t].after
      BY <1>3, <3>1 DEF TaskRow
    <3> QED
      BY <1>1, <1>3, <3>1, <3>4, <3>5 DEF TaskRow
  <2>6. \A t \in DOMAIN task : task'[t].run # task[t].run =>
          task[t].run = 0 /\ task'[t].run = r /\ task[t].plan = x.plan
    BY <2>5 DEF Untouched
  <2>7. TasksOf(x.plan)' = TasksOf(x.plan) /\ run'[r].plan = x.plan
    BY <2>3, <2>5 DEF TasksOf
  <2>8. Claims(r)' = x.sent
    <3>1. \A t \in DOMAIN task : task'[t].run = r <=> task[t].plan = x.plan
      BY <1>4, <2>4, <2>5
    <3> QED
      BY <1>4, <2>4, <2>5, <3>1 DEF Claims
  <2>9. RunFits(r)'
    BY <1>2, <2>1, <2>3, <2>4, <2>7, <2>8 DEF RunFits, TasksOf
  <2>10. WaitingFits(r)'
    BY <2>3 DEF WaitingFits
  <2>11. Spends(r) /\ "running" \in RunStatus
    BY <2>1 DEF Spends, Active, RunStatus
  <2> QED
    BY <1>2, <2>1, <2>2, <2>5, <2>6, <2>9, <2>10, <2>11, RunStepKeeps
<1>11. ASSUME Heard(r), x.started, UNCHANGED <<config, plan, decision, edits>>,
              NEW S \in SUBSET TasksOf(x.plan), task' = Begun(S), NEW to \in RunStatus \ {"deleted"},
              Move(r, to, x.at)
       PROVE  PlanIInv' /\ SameTexts
  <2>1. run' = [run EXCEPT ![r] = Row(to, x.at, x.started, x.sent, x.job)]
    BY <1>1, <1>11, RowMoves
  <2>2. x.at \notin {"submitting", "refused"} /\ x.status # "deleted"
    BY <1>2, <1>11 DEF Heard, RunFits
  <2> QED
    BY <1>2, <1>6, <1>11, <2>1, <2>2 DEF Spends
<1>12. ASSUME Rollup(r)
       PROVE  \E to \in RunStatus \ {"deleted"} : Move(r, to, x.at)
  BY <1>12 DEF Rollup, RunStatus, Active
<1>13. CASE LaterTaskEvents(r)
  <2>1. x.sent \in SUBSET TasksOf(x.plan)
    BY <1>2 DEF RunFits
  <2> QED
    BY <1>11, <1>12, <1>13, <2>1 DEF LaterTaskEvents
<1>14. CASE \E t \in run[r].sent : FirstTaskEvent(r, t)
  <2>1. PICK t \in x.sent : FirstTaskEvent(r, t)
    BY <1>14
  <2>2. {t} \in SUBSET TasksOf(x.plan)
    BY <1>2 DEF RunFits
  <2> QED
    BY <1>11, <1>12, <2>1, <2>2 DEF FirstTaskEvent
<1>15. Claims(r) \in SUBSET TasksOf(x.plan)
  BY <1>4
<1>16. CASE RunEnded(r)
  <2>1. Heard(r) /\ x.started /\ UNCHANGED <<config, plan, decision, edits>>
    BY <1>16 DEF RunEnded
  <2>2. CASE Move(r, "ended", x.at) /\ UNCHANGED task
    <3>1. run' = [run EXCEPT ![r] = Row("ended", x.at, x.started, x.sent, x.job)]
      BY <1>1, <2>2, RowMoves
    <3>2. x.at \notin {"submitting", "refused"} /\ x.status # "deleted"
      BY <1>2, <2>1 DEF Heard, RunFits
    <3> QED
      BY <1>2, <1>5, <2>1, <2>2, <3>1, <3>2 DEF RunStatus, Active
  <2>3. CASE Cancelled(r, x.at)
    BY <1>11, <1>15, <2>1, <2>3 DEF Cancelled, RunStatus
  <2> QED
    BY <1>16, <2>2, <2>3 DEF RunEnded
<1>17. CASE Converge(r)
  <2>1. x.status = "running" /\ UNCHANGED <<config, plan, decision, edits>>
    BY <1>17 DEF Converge
  <2>2. PICK at \in {"done"} \cup ({x.at} \ {"submitting"}) : Cancelled(r, at)
    BY <1>17 DEF Converge
  <2>3. run' = [run EXCEPT ![r] = Row("cancelled", at, x.started, x.sent, x.job)]
    BY <1>1, <2>2, RowMoves DEF Cancelled
  <2>4. x.at # "refused"
    BY <1>2, <2>1 DEF RunFits
  <2> QED
    BY <1>2, <1>6, <1>15, <2>1, <2>2, <2>3, <2>4 DEF Cancelled, Spends, Active, RunStatus
<1> QED
  BY <1>8, <1>9, <1>10, <1>13, <1>14, <1>16, <1>17

-----------------------------------------------------------------------------
(* The steps that add rows.                                                *)

\* Plans may be added, and none becomes a draft again.
PlansGrow ==
    /\ plan' \in Seq([status : PlanStatus, config : DOMAIN config])
    /\ Len(plan) <= Len(plan') /\ Len(plan') <= MaxPlans
    /\ Len(config) + edits + Len(plan') + Len(run) <= MaxWork
    /\ \A p \in DOMAIN plan : /\ plan'[p].config = plan[p].config
                              /\ plan'[p].status = "draft" => plan[p].status = "draft"

\* Tasks may be added to the last plan, if it is new or nothing of it has run.
TasksGrow(Added) ==
    /\ DOMAIN task' \ DOMAIN task = Added /\ task' \in Seq(TaskRow) /\ Len(task) <= Len(task')
    /\ \A t \in DOMAIN task : task'[t] = task[t]
    /\ \A t \in Added :
        /\ task'[t].plan = Len(plan') /\ Len(plan') # 0
        /\ ~task'[t].begun /\ task'[t].run = 0
        /\ task'[t].after \subseteq Added \cap 1 .. t - 1
        /\ \A c \in Topic, d \in Dims :
             task'[t].text = Brief(c, d) => c = config[plan'[Len(plan')].config].topic
        /\ task'[t].type = "synthesis" => Len(plan') > Len(plan)
        /\ (\E s \in Added : task'[s].type = "synthesis" /\ t < s)
             => \E u \in Added : t \in task'[u].after
    /\ Len(plan') <= Len(plan) => Added = {} \/ (Fresh(Len(plan')) /\ Idle(Len(plan')))
    /\ \A p \in DOMAIN plan' : p \in DOMAIN plan \/ (p = Len(plan') /\ Added # {})

\* What a step may do that leaves the runs alone.
LEMMA RowsAdded ==
    ASSUME PlanIInv, UNCHANGED <<config, run, edits>>, PlansGrow, NEW Added, TasksGrow(Added),
           decision' \in [GapDims -> [status : {"none", "approved", "dismissed"},
                                      task : 0 .. Len(task')]],
           FollowUpFits', FollowUpReachable'
    PROVE  PlanIInv'
<1> USE DEF PlanIInv, PlansGrow, TasksGrow
<1> DEFINE n == Len(plan')
<1>1. /\ Len(plan) \in Nat /\ DOMAIN plan = 1 .. Len(plan)
      /\ Len(plan') \in Nat /\ DOMAIN plan' = 1 .. n /\ DOMAIN plan \subseteq DOMAIN plan'
      /\ Len(task) \in Nat /\ DOMAIN task = 1 .. Len(task)
      /\ Len(task') \in Nat /\ DOMAIN task' = 1 .. Len(task') /\ DOMAIN task \subseteq DOMAIN task'
      /\ Len(run) \in Nat /\ DOMAIN run = 1 .. Len(run)
      /\ \A t \in DOMAIN task' : t \in DOMAIN task \/ t \in Added
  <2>1. DOMAIN plan' = 1 .. n /\ n \in Nat
    BY LenProperties
  <2>2. DOMAIN task' = 1 .. Len(task') /\ Len(task') \in Nat
    BY LenProperties
  <2> QED
    BY <2>1, <2>2, RowFacts
<1>2. \A t \in DOMAIN task :
        /\ task[t] \in TaskRow /\ task[t].plan \in DOMAIN plan
        /\ task[t].after \subseteq 1 .. t - 1 /\ task[t].run \in 0 .. Len(run)
  BY RowFacts
<1>3. \A t \in DOMAIN task' : task'[t] \in TaskRow
  BY LenProperties
<1>4. \A p \in DOMAIN plan : p # n \/ Added = {} => TasksOf(p)' = TasksOf(p)
  <2> SUFFICES ASSUME NEW p \in DOMAIN plan, p # n \/ Added = {}, NEW t \in DOMAIN task'
               PROVE  task'[t].plan = p <=> t \in DOMAIN task /\ task[t].plan = p
    BY <1>1 DEF TasksOf
  <2> QED
    BY <1>1
<1>5. \A r \in DOMAIN run : Claims(r)' = Claims(r)
  <2> SUFFICES ASSUME NEW r \in DOMAIN run, NEW t \in DOMAIN task'
               PROVE  task'[t].run = r <=> t \in DOMAIN task /\ task[t].run = r
    BY <1>1 DEF Claims
  <2> QED
    BY <1>1
<1>6. TypeOK'
  <2>1. \A t \in DOMAIN task' :
          /\ task'[t].plan \in DOMAIN plan' /\ task'[t].after \subseteq 1 .. t - 1
          /\ task'[t].run \in 0 .. Len(run)
    <3> SUFFICES ASSUME NEW t \in DOMAIN task'
                 PROVE  /\ task'[t].plan \in DOMAIN plan' /\ task'[t].after \subseteq 1 .. t - 1
                        /\ task'[t].run \in 0 .. Len(run)
      OBVIOUS
    <3>1. CASE t \in DOMAIN task
      BY <1>1, <1>2, <3>1
    <3>2. CASE t \in Added
      BY <1>1, <3>2
    <3> QED
      BY <1>1, <3>1, <3>2
  <2>2. \A t \in DOMAIN task' :
          task'[t] \in [plan : DOMAIN plan', section : Nat \ {0}, type : TaskType, text : Text,
                        after : SUBSET (1 .. t - 1), begun : BOOLEAN, run : 0 .. Len(run)]
    BY <1>3, <2>1 DEF TaskRow
  <2>3. \A r \in DOMAIN run :
          /\ run[r].plan \in DOMAIN plan' /\ run[r].status \in RunStatus
          /\ run[r].sent \subseteq DOMAIN task' /\ run[r].started \in BOOLEAN
          /\ run[r].at \in {"submitting", "refused", "submitted", "done"}
    BY <1>1 DEF TypeOK
  <2>4. config \in Seq(Inputs) /\ edits \in Nat
    BY DEF TypeOK
  <2> QED
    BY <2>2, <2>3, <2>4 DEF TypeOK
<1>7. RowsAreRows'
  BY DEF RowsAreRows
<1>8. ClaimsFit'
  BY <1>1 DEF ClaimsFit
<1>9. ASSUME NEW r \in DOMAIN run PROVE RunFits(r)'
  <2>1. run[r].sent \subseteq TasksOf(run[r].plan)'
    BY <1>1 DEF RunsFit, RunFits, TasksOf
  <2> QED
    BY <1>5, <2>1 DEF RunsFit, RunFits
<1>10. ASSUME NEW r \in DOMAIN run PROVE WaitingFits(r)'
  <2> SUFFICES ASSUME run[r].status \in Active, ~run[r].started
               PROVE  /\ run[r].sent = TasksOf(run[r].plan)' /\ run[r].sent # {}
                      /\ \A t \in run[r].sent : Untouched(t)'
    BY DEF WaitingFits
  <2>1. /\ run[r].sent = TasksOf(run[r].plan) /\ run[r].sent # {}
        /\ \A t \in run[r].sent : Untouched(t)
    BY DEF RunsFit, WaitingFits
  <2>2. (run[r].plan \in DOMAIN plan /\ run[r].plan # n) \/ Added = {}
    <3>1. run[r].plan \in DOMAIN plan
      BY RowFacts
    <3>2. run[r].plan = n => n <= Len(plan) /\ ~Idle(n)
      BY <1>1, <3>1 DEF Idle
    <3> QED
      BY <3>1, <3>2
  <2>3. TasksOf(run[r].plan)' = TasksOf(run[r].plan)
    BY <1>4, <2>2, RowFacts
  <2>4. \A t \in run[r].sent : Untouched(t)'
    BY <2>1 DEF Untouched, TasksOf
  <2> QED
    BY <2>1, <2>3, <2>4
<1>11. RunsFit'
  BY <1>9, <1>10 DEF RunsFit
<1>12. OneSpender'
  BY DEF OneSpender, Spends
<1>13. PlansHaveTasks'
  <2> SUFFICES ASSUME NEW p \in DOMAIN plan' PROVE \E t \in DOMAIN task' : task'[t].plan = p
    BY DEF PlansHaveTasks, TasksOf
  <2>1. CASE p \in DOMAIN plan
    <3>1. PICK t \in DOMAIN task : task[t].plan = p
      BY <2>1 DEF PlansHaveTasks, TasksOf
    <3> QED
      BY <1>1, <3>1
  <2>2. CASE p = n /\ Added # {}
    BY <1>1, <2>2
  <2> QED
    BY <2>1, <2>2
<1>14. TextFits'
  <2> SUFFICES ASSUME NEW t \in DOMAIN task', NEW c \in Topic, NEW d \in Dims,
                      task'[t].text = Brief(c, d)
               PROVE  c = config[plan'[task'[t].plan].config].topic
    BY DEF TextFits, Brief
  <2>1. CASE t \in DOMAIN task
    <3>1. task'[t].plan = task[t].plan /\ task[t].text = Brief(c, d)
      BY <2>1
    <3>2. c = config[plan[task[t].plan].config].topic
      BY <2>1, <3>1 DEF TextFits
    <3> QED
      BY <1>2, <2>1, <3>1, <3>2
  <2>2. CASE t \in Added
    BY <2>2
  <2> QED
    BY <1>1, <2>1, <2>2
<1>15. \A r \in DOMAIN run : run[r].plan \in DOMAIN plan
  BY RowFacts
<1>16. JobFits'
  BY <1>15 DEF JobFits
<1>17. JobIsWhatWasReviewed'
  <2>1. \A t \in DOMAIN task : Query(t)' = Query(t)
    BY <1>2 DEF Query
  <2>2. \A r \in DOMAIN run : run[r].sent \subseteq DOMAIN task
    BY DEF TypeOK
  <2> SUFFICES ASSUME NEW r \in DOMAIN run, NEW t \in run[r].sent
               PROVE  /\ run[r].job.query[t] = Query(t)'
                      /\ \A c \in Topic, d \in Dims : run[r].job.query[t] = Brief(c, d) =>
                           c = config[run[r].job.config].topic
    BY DEF JobIsWhatWasReviewed, Brief
  <2> QED
    BY <2>1, <2>2 DEF JobIsWhatWasReviewed
<1>18. SynthesisIsLast'
  <2> SUFFICES ASSUME NEW t \in DOMAIN task'
               PROVE  /\ \A u \in task'[t].after : task'[u].plan = task'[t].plan
                      /\ \A s \in DOMAIN task' :
                           task'[s].plan = task'[t].plan /\ task'[s].type = "synthesis" /\ t < s
                             => \E u \in DOMAIN task' : t \in task'[u].after
    BY DEF SynthesisIsLast, TasksOf
  <2>1. CASE t \in DOMAIN task
    <3>1. \A u \in task[t].after : u \in DOMAIN task
      BY <1>1, <1>2, <2>1
    <3>2. \A u \in task'[t].after : task'[u].plan = task'[t].plan
      BY <2>1, <3>1 DEF SynthesisIsLast
    <3>3. ASSUME NEW s \in DOMAIN task', task'[s].plan = task'[t].plan,
                 task'[s].type = "synthesis", t < s
          PROVE  \E u \in DOMAIN task' : t \in task'[u].after
      <4>1. s \in DOMAIN task
        BY <1>1, <1>2, <2>1, <3>3
      <4>2. \E u \in DOMAIN task : t \in task[u].after
        BY <2>1, <3>3, <4>1 DEF SynthesisIsLast, TasksOf
      <4> QED
        BY <1>1, <4>2
    <3> QED
      BY <3>2, <3>3
  <2>2. CASE t \in Added
    <3>1. \A s \in DOMAIN task' : t < s => s \in Added
      BY <1>1, <2>2
    <3> QED
      BY <2>2, <3>1
  <2> QED
    BY <1>1, <2>1, <2>2
<1> QED
  BY <1>6, <1>7, <1>8, <1>11, <1>12, <1>13, <1>14, <1>16, <1>17, <1>18

\* The texts that are no brief.
LEMMA NoBrief ==
    /\ \A c \in Topic, d \in Dims : Brief(c, d) \notin {Fixed, Edited, Empty}
    /\ \A c \in Topic, d \in Dims, g \in GapDims : Brief(c, d) # Gap(g)
    /\ Empty # Edited /\ \A g \in GapDims : Gap(g) # Edited /\ Gap(g) # Empty
<1>1. \A c, d : Len(<<c, d>>) = 2
  OBVIOUS
<1>2. Len(<<"fixed">>) = 1 /\ Len(<<"edited">>) = 1 /\ Len(<<>>) = 0
  OBVIOUS
<1>3. \A c, d : <<c, d>>[1] = c
  OBVIOUS
<1>4. \A c \in Topic, d \in Dims, g \in GapDims : Brief(c, d) # Gap(g)
  BY <1>3, InputsAssumption DEF Brief, Gap
<1> QED
  BY <1>1, <1>2, <1>4 DEF Brief, Fixed, Edited, Empty, Gap

\* The review of a plan changes a status and nothing that was sent.
LEMMA ReviewKeeps ==
    ASSUME PlanIInv, NEW p \in DOMAIN plan, NEW status \in PlanStatus, status # "draft",
           SetStatus(p, status), UNCHANGED <<config, task, run, decision, edits>>
    PROVE  PlanIInv'
<1> USE DEF PlanIInv
<1> DEFINE S == [status : PlanStatus, config : DOMAIN config]
<1>1. plan \in Seq(S) /\ Len(plan) \in Nat /\ DOMAIN plan = 1 .. Len(plan)
  BY RowFacts DEF TypeOK
<1>2. \A q \in DOMAIN plan : plan[q] \in S
  BY RowFacts
<1>3. /\ plan' = [q \in 1 .. Len(plan) |-> IF q = p THEN [plan[p] EXCEPT !.status = status] ELSE plan[q]]
  BY <1>1 DEF SetStatus
<1>4. \A q \in DOMAIN plan : /\ plan'[q] \in S /\ plan'[q].config = plan[q].config
                             /\ plan'[q].status = "draft" => plan[q].status = "draft"
  BY <1>1, <1>2, <1>3
<1>5. plan' \in [1 .. Len(plan) -> S]
  BY <1>1, <1>3, <1>4
<1>6. plan' \in Seq(S) /\ Len(plan') = Len(plan) /\ DOMAIN plan' = DOMAIN plan
  BY <1>1, <1>5, FunctionIsSeq
<1>7. FollowUpFits' /\ FollowUpReachable'
  BY <1>6 DEF FollowUpFits, FollowUpReachable, Carries, Untouched, Current
<1>8. task \in Seq(TaskRow) /\ Len(task) \in Nat
  BY RowFacts DEF RowsAreRows
<1>9. TasksGrow({})
  BY <1>1, <1>6, <1>8 DEF TasksGrow
<1>10. Len(plan) <= MaxPlans /\ Len(config) + edits + Len(plan) + Len(run) <= MaxWork
  BY DEF TypeOK
<1>12. PlansGrow
  BY <1>1, <1>4, <1>6, <1>10 DEF PlansGrow
<1>11. decision' \in [GapDims -> [status : {"none", "approved", "dismissed"}, task : 0 .. Len(task')]]
  BY DEF TypeOK
<1> QED
  BY <1>7, <1>9, <1>11, <1>12, RowsAdded

\* A gap is dismissed: its follow-up, if any, is not handed on any more.
LEMMA DismissGapKeeps ==
    ASSUME PlanIInv, NEW d \in GapDims, DismissGap(d)
    PROVE  PlanIInv'
<1> USE DEF PlanIInv
<1>1. /\ decision' = [decision EXCEPT ![d] = [status |-> "dismissed", task |-> 0]]
      /\ UNCHANGED <<config, plan, task, run, edits>>
  BY DEF DismissGap, Decide
<1>2. /\ decision \in [GapDims -> [status : {"none", "approved", "dismissed"}, task : 0 .. Len(task)]]
      /\ Len(plan) <= MaxPlans /\ Len(config) + edits + Len(plan) + Len(run) <= MaxWork
      /\ plan \in Seq([status : PlanStatus, config : DOMAIN config])
  BY DEF TypeOK
<1>3. decision'[d].status = "dismissed" /\ \A e \in GapDims : e # d => decision'[e] = decision[e]
  BY <1>1, <1>2
<1>4. decision' \in [GapDims -> [status : {"none", "approved", "dismissed"}, task : 0 .. Len(task')]]
  <2>1. [status |-> "dismissed", task |-> 0] \in
          [status : {"none", "approved", "dismissed"}, task : 0 .. Len(task)]
    BY RowFacts
  <2> QED
    BY <1>1, <1>2, <2>1
<1>5. FollowUpFits'
  BY <1>1, <1>3 DEF FollowUpFits
<1>6. FollowUpReachable'
  BY <1>1, <1>3 DEF FollowUpReachable, Carries, Untouched, Current
<1>7. task \in Seq(TaskRow) /\ Len(task) \in Nat /\ Len(plan) \in Nat
  BY RowFacts DEF RowsAreRows
<1>8. TasksGrow({})
  BY <1>1, <1>7 DEF TasksGrow
<1>9. PlansGrow
  BY <1>1, <1>2, <1>7 DEF PlansGrow
<1> QED
  BY <1>1, <1>4, <1>5, <1>6, <1>8, <1>9, RowsAdded

\* A gap is accepted: the current plan, which has not run, gets a search for it.
LEMMA ApproveGapKeeps ==
    ASSUME PlanIInv, NEW d \in GapDims, ApproveGap(d)
    PROVE  PlanIInv'
<1> USE DEF PlanIInv
<1> DEFINE n == Len(plan)
           new == Len(task) + 1
<1>1. /\ task' = Append(task, FollowUp(d)) /\ UNCHANGED <<config, plan, run, edits>>
      /\ decision' = [decision EXCEPT ![d] = [status |-> "approved", task |-> new]]
      /\ plan # <<>> /\ Fresh(n) /\ Idle(n)
  BY DEF ApproveGap, Decide, Reported, CanExecute, Current
<1>2. /\ decision \in [GapDims -> [status : {"none", "approved", "dismissed"}, task : 0 .. Len(task)]]
      /\ n <= MaxPlans /\ Len(config) + edits + n + Len(run) <= MaxWork
      /\ plan \in Seq([status : PlanStatus, config : DOMAIN config])
  BY DEF TypeOK
<1>3. task \in Seq(TaskRow) /\ Len(task) \in Nat /\ n \in Nat /\ n # 0
      /\ DOMAIN task = 1 .. Len(task) /\ DOMAIN plan = 1 .. n
  BY <1>1, <1>2, RowFacts, EmptySeq DEF RowsAreRows
<1>4. FollowUp(d) \in TaskRow
  BY <1>3, InputsAssumption DEF FollowUp, NewTask, TaskRow, TaskType, Text, Current
<1>5. PICK f : f = FollowUp(d)
  OBVIOUS
<1>6. f = [plan |-> n, section |-> 1, type |-> "search", text |-> Gap(d), after |-> {},
           begun |-> FALSE, run |-> 0]
  BY <1>5 DEF FollowUp, NewTask, Current
<1>7. /\ task' \in Seq(TaskRow) /\ Len(task') = new /\ DOMAIN task' = 1 .. new
      /\ task'[new] = f /\ \A t \in DOMAIN task : task'[t] = task[t]
  <2>1. task' = Append(task, f) /\ f \in TaskRow
    BY <1>1, <1>4, <1>5
  <2> QED
    BY <1>3, <2>1, AppendProperties
<1>8. DOMAIN task' \ DOMAIN task = {new} /\ new \in Nat /\ new # 0
  BY <1>3, <1>7
<1>9. decision'[d] = [status |-> "approved", task |-> new]
      /\ \A e \in GapDims : e # d => decision'[e] = decision[e]
  BY <1>1, <1>2
<1>10. decision' \in [GapDims -> [status : {"none", "approved", "dismissed"}, task : 0 .. Len(task')]]
  BY <1>1, <1>2, <1>3, <1>7
<1>11. FollowUpFits'
  <2> SUFFICES ASSUME NEW e \in GapDims, decision'[e].status = "approved"
               PROVE  /\ decision'[e].task # 0 /\ task'[decision'[e].task].type = "search"
                      /\ task'[decision'[e].task].text \in {Gap(e), Edited, Empty}
    BY DEF FollowUpFits, Gap, Edited, Empty
  <2>1. CASE e = d
    BY <1>6, <1>7, <1>8, <1>9, <2>1
  <2>2. CASE e # d
    <3>1. decision'[e] = decision[e] /\ decision[e].task \in 0 .. Len(task)
      BY <1>9, <2>2, RowFacts
    <3>2. decision[e].task # 0
      BY <3>1 DEF FollowUpFits
    <3>3. decision[e].task \in DOMAIN task
      BY <1>3, <3>1, <3>2
    <3>4. task'[decision'[e].task] = task[decision[e].task]
      BY <1>7, <3>1, <3>3
    <3> QED
      BY <3>1, <3>4 DEF FollowUpFits
  <2> QED
    BY <2>1, <2>2
<1>12. FollowUpReachable'
  <2> SUFFICES ASSUME NEW e \in GapDims, Carries(e)'
               PROVE  \/ task'[decision'[e].task].plan = n
                      \/ \E r \in DOMAIN run : /\ run[r].plan = task'[decision'[e].task].plan
                                               /\ run[r].status = "deleted"
    BY <1>1 DEF FollowUpReachable, Current
  <2>1. CASE e = d
    BY <1>6, <1>7, <1>9, <2>1
  <2>2. CASE e # d
    <3>1. decision'[e] = decision[e] /\ decision[e].task \in 0 .. Len(task)
          /\ decision[e].status = "approved"
      BY <1>9, <2>2, RowFacts DEF Carries
    <3>2. decision[e].task # 0
      BY <3>1 DEF FollowUpFits
    <3>3. decision[e].task \in DOMAIN task
      BY <1>3, <3>1, <3>2
    <3>4. task'[decision'[e].task] = task[decision[e].task]
      BY <1>7, <3>1, <3>3
    <3>5. Carries(e)
      BY <3>1, <3>4 DEF Carries, Untouched
    <3> QED
      BY <3>4, <3>5 DEF FollowUpReachable, Current
  <2> QED
    BY <2>1, <2>2
<1>13. /\ task'[new].plan = n /\ ~task'[new].begun /\ task'[new].run = 0
       /\ task'[new].after = {} /\ task'[new].type # "synthesis"
       /\ \A c \in Topic, e \in Dims : task'[new].text # Brief(c, e)
  BY <1>6, <1>7, NoBrief
<1>14. TasksGrow({new})
  BY <1>1, <1>3, <1>7, <1>8, <1>13 DEF TasksGrow
<1>15. PlansGrow
  BY <1>1, <1>2, <1>3 DEF PlansGrow
<1> QED
  BY <1>1, <1>10, <1>11, <1>12, <1>14, <1>15, RowsAdded

-----------------------------------------------------------------------------
(* Configurations, edits, and the start of a run.                          *)

\* A new configuration leaves plans and jobs with theirs.
LEMMA InsertConfigKeeps ==
    ASSUME PlanIInv, Room, NEW c \in Inputs, InsertConfig(c),
           UNCHANGED <<plan, task, run, decision, edits>>
    PROVE  PlanIInv'
<1> USE DEF PlanIInv
<1>1. config \in Seq(Inputs) /\ Len(config) \in Nat /\ DOMAIN config = 1 .. Len(config)
  BY RowFacts DEF TypeOK
<1>2. config' = Append(config, c)
  BY DEF InsertConfig
<1>3. /\ config' \in Seq(Inputs) /\ Len(config') = Len(config) + 1
      /\ DOMAIN config' = 1 .. Len(config) + 1
      /\ \A i \in DOMAIN config : config'[i] = config[i]
  BY <1>1, <1>2, AppendProperties
<1>4. DOMAIN config \subseteq DOMAIN config'
  BY <1>1, <1>3
<1>5. plan \in Seq([status : PlanStatus, config : DOMAIN config'])
  <2>1. Len(plan) \in Nat /\ plan \in [1 .. Len(plan) -> [status : PlanStatus, config : DOMAIN config]]
    BY LenProperties DEF TypeOK
  <2>2. plan \in [1 .. Len(plan) -> [status : PlanStatus, config : DOMAIN config']]
    BY <1>4, <2>1
  <2> QED
    BY <2>1, <2>2, FunctionIsSeq
<1>6. TypeOK'
  <2>1. Len(config') + edits' + Len(plan') + Len(run') <= MaxWork
    <3>1. Len(plan) \in Nat /\ Len(run) \in Nat /\ edits \in Nat /\ MaxWork \in Nat
      BY RowFacts, PlanBoundsAssumption DEF TypeOK
    <3> QED
      BY <1>1, <1>3, <3>1 DEF Room
  <2> QED
    BY <1>3, <1>5, <2>1 DEF TypeOK
<1>7. RowsAreRows' /\ ClaimsFit' /\ OneSpender' /\ PlansHaveTasks' /\ FollowUpFits'
  BY DEF RowsAreRows, ClaimsFit, OneSpender, Spends, PlansHaveTasks, TasksOf, FollowUpFits
<1>8. RunsFit' /\ JobFits' /\ SynthesisIsLast' /\ FollowUpReachable'
  BY DEF RunsFit, RunFits, WaitingFits, TasksOf, Claims, Untouched, JobFits, SynthesisIsLast,
         FollowUpReachable, Carries, Current
<1>9. \A t \in DOMAIN task : config'[plan[task[t].plan].config] = config[plan[task[t].plan].config]
  BY <1>3, RowFacts
<1>10. TextFits'
  BY <1>9 DEF TextFits, Brief
<1>11. JobIsWhatWasReviewed'
  <2>1. \A t \in DOMAIN task : Query(t)' = Query(t)
    BY <1>9 DEF Query
  <2>2. \A r \in DOMAIN run : run[r].sent # {} => run[r].job.config \in DOMAIN config
    BY RowFacts DEF JobFits
  <2>3. \A r \in DOMAIN run : run[r].sent \subseteq DOMAIN task
    BY DEF TypeOK
  <2> SUFFICES ASSUME NEW r \in DOMAIN run, NEW t \in run[r].sent
               PROVE  /\ run[r].job.query[t] = Query(t)'
                      /\ \A u \in Topic, d \in Dims : run[r].job.query[t] = Brief(u, d) =>
                           u = config'[run[r].job.config].topic
    BY DEF JobIsWhatWasReviewed, Brief
  <2>4. config'[run[r].job.config] = config[run[r].job.config]
    BY <1>3, <2>2
  <2> QED
    BY <2>1, <2>3, <2>4 DEF JobIsWhatWasReviewed
<1> QED
  BY <1>6, <1>7, <1>8, <1>10, <1>11

\* What is edited has not been sent.
LEMMA UpdateTaskKeeps ==
    ASSUME PlanIInv, NEW t \in DOMAIN task, UpdateTask(t)
    PROVE  PlanIInv'
<1> USE DEF PlanIInv
<1>1. /\ plan[task[t].plan].status = "draft" /\ edits' = edits + 1 /\ Room
      /\ task[t].type = "search" /\ UNCHANGED <<config, plan, run, decision>>
  BY DEF UpdateTask, Editable
<1>2. PICK text \in {Edited, Empty} : task' = [task EXCEPT ![t].text = text]
  BY DEF UpdateTask, SetText
<1>3. task \in Seq(TaskRow) /\ Len(task) \in Nat /\ DOMAIN task = 1 .. Len(task)
      /\ \A u \in DOMAIN task : task[u] \in TaskRow
  BY RowFacts DEF RowsAreRows
<1>4. text \in Text
  BY DEF Text
<1>5. task' = [u \in 1 .. Len(task) |-> IF u = t THEN [task[t] EXCEPT !.text = text] ELSE task[u]]
  BY <1>2, <1>3
<1>6. \A u \in 1 .. Len(task) : task'[u] \in TaskRow
  BY <1>3, <1>4, <1>5 DEF TaskRow
<1>7. task' \in [1 .. Len(task) -> TaskRow]
  BY <1>5, <1>6
<1>8. task' \in Seq(TaskRow) /\ Len(task') = Len(task) /\ DOMAIN task' = DOMAIN task
  BY <1>3, <1>7, FunctionIsSeq
<1>9. \A u \in DOMAIN task :
        /\ task'[u].plan = task[u].plan /\ task'[u].section = task[u].section
        /\ task'[u].type = task[u].type /\ task'[u].after = task[u].after
        /\ task'[u].begun = task[u].begun /\ task'[u].run = task[u].run
        /\ u # t => task'[u].text = task[u].text
  BY <1>3, <1>5 DEF TaskRow
<1>10. task'[t].text = text
  BY <1>3, <1>5 DEF TaskRow
<1>11. TypeOK'
  <2>1. \A u \in DOMAIN task :
          task'[u] \in [plan : DOMAIN plan, section : Nat \ {0}, type : TaskType, text : Text,
                        after : SUBSET (1 .. u - 1), begun : BOOLEAN, run : 0 .. Len(run)]
    BY <1>3, <1>6, <1>9, RowFacts DEF TaskRow
  <2>2. edits' \in Nat /\ Len(config) + edits' + Len(plan) + Len(run) <= MaxWork
    <3>1. Len(config) \in Nat /\ Len(plan) \in Nat /\ Len(run) \in Nat /\ edits \in Nat
          /\ MaxWork \in Nat
      BY RowFacts, PlanBoundsAssumption DEF TypeOK
    <3> QED
      BY <1>1, <3>1 DEF Room
  <2> QED
    BY <1>1, <1>8, <2>1, <2>2 DEF TypeOK
<1>12. \A p : TasksOf(p)' = TasksOf(p) /\ Claims(p)' = Claims(p)
  BY <1>8, <1>9 DEF TasksOf, Claims
<1>13. \A u \in DOMAIN task : Untouched(u)' <=> Untouched(u)
  BY <1>9 DEF Untouched
<1>14. RowsAreRows' /\ ClaimsFit' /\ OneSpender' /\ PlansHaveTasks'
  BY <1>1, <1>8, <1>9, <1>12 DEF RowsAreRows, ClaimsFit, OneSpender, Spends, PlansHaveTasks
<1>15. RunsFit'
  <2>1. \A r \in DOMAIN run : RunFits(r)'
    BY <1>1, <1>12 DEF RunsFit, RunFits
  <2>2. \A r \in DOMAIN run : WaitingFits(r)'
    <3> SUFFICES ASSUME NEW r \in DOMAIN run, run[r].status \in Active, ~run[r].started
                 PROVE  /\ run[r].sent = TasksOf(run[r].plan)' /\ run[r].sent # {}
                        /\ \A u \in run[r].sent : Untouched(u)'
      BY <1>1 DEF WaitingFits
    <3>1. /\ run[r].sent = TasksOf(run[r].plan) /\ run[r].sent # {}
          /\ \A u \in run[r].sent : Untouched(u)
      BY DEF RunsFit, WaitingFits
    <3>2. run[r].sent \subseteq DOMAIN task
      BY <3>1 DEF TasksOf
    <3> QED
      BY <1>1, <1>12, <1>13, <3>1, <3>2
  <2> QED
    BY <1>1, <2>1, <2>2 DEF RunsFit
<1>16. TextFits'
  <2> SUFFICES ASSUME NEW u \in DOMAIN task, NEW c \in Topic, NEW d \in Dims,
                      task'[u].text = Brief(c, d)
               PROVE  c = config[plan[task[u].plan].config].topic
    BY <1>1, <1>8, <1>9 DEF TextFits, Brief
  <2>1. u # t
    BY <1>10, NoBrief
  <2>2. task[u].text = Brief(c, d)
    BY <1>9, <2>1
  <2> QED
    BY <2>2 DEF TextFits
<1>17. FollowUpFits' /\ FollowUpReachable'
  <2>1. \A d \in GapDims : decision[d].task # 0 => decision[d].task \in DOMAIN task
    BY RowFacts
  <2>2. FollowUpFits'
    <3> SUFFICES ASSUME NEW d \in GapDims, decision[d].status = "approved"
                 PROVE  /\ decision[d].task # 0 /\ task'[decision[d].task].type = "search"
                        /\ task'[decision[d].task].text \in {Gap(d), Edited, Empty}
      BY <1>1 DEF FollowUpFits, Gap, Edited, Empty
    <3> QED
      BY <1>9, <1>10, <2>1 DEF FollowUpFits
  <2>3. \A d \in GapDims : decision[d].status = "approved" => decision[d].task \in DOMAIN task
    BY <2>1 DEF FollowUpFits
  <2> QED
    BY <1>1, <1>9, <1>13, <2>2, <2>3 DEF FollowUpReachable, Carries, Current
<1>18. JobFits'
  BY <1>1 DEF JobFits
<1>19. JobIsWhatWasReviewed'
  <2> SUFFICES ASSUME NEW r \in DOMAIN run, NEW u \in run[r].sent
               PROVE  /\ run[r].job.query[u] = Query(u)'
                      /\ \A c \in Topic, d \in Dims : run[r].job.query[u] = Brief(c, d) =>
                           c = config[run[r].job.config].topic
    BY <1>1 DEF JobIsWhatWasReviewed, Brief
  <2>1. u \in DOMAIN task /\ task[u].plan = run[r].plan
    BY DEF RunsFit, RunFits, TasksOf
  <2>2. u # t
    BY <1>1, <2>1 DEF JobFits
  <2>3. Query(u)' = Query(u)
    BY <1>1, <1>9, <2>1, <2>2 DEF Query
  <2> QED
    BY <2>3 DEF JobIsWhatWasReviewed
<1>20. SynthesisIsLast'
  <2> SUFFICES ASSUME NEW v \in DOMAIN task
               PROVE  /\ \A u \in task[v].after : task'[u].plan = task[v].plan
                      /\ \A s \in TasksOf(task[v].plan) : task[s].type = "synthesis" /\ v < s
                           => \E u \in DOMAIN task : v \in task[u].after
    BY <1>8, <1>9, <1>12 DEF SynthesisIsLast, TasksOf
  <2>1. task[v].after \subseteq DOMAIN task
    BY RowFacts
  <2>2. \A u \in task[v].after : task'[u].plan = task[v].plan
    BY <1>9, <2>1 DEF SynthesisIsLast
  <2>3. \A s \in TasksOf(task[v].plan) : task[s].type = "synthesis" /\ v < s
          => \E u \in DOMAIN task : v \in task[u].after
    BY DEF SynthesisIsLast
  <2> QED
    BY <2>2, <2>3
<1> QED
  BY <1>11, <1>14, <1>15, <1>16, <1>17, <1>18, <1>19, <1>20

\* The gate: a plan that starts is not under way and has not been executed.
LEMMA StartKeeps ==
    ASSUME PlanIInv, NEW p \in DOMAIN plan, Start(p)
    PROVE  PlanIInv'
<1> USE DEF PlanIInv
<1>0. PICK new : new = Len(run) + 1
  OBVIOUS
<1>1. /\ run' = Append(run, NewRun(p)) /\ UNCHANGED <<config, plan, task, decision, edits>>
      /\ plan[p].status = "approved" /\ Idle(p) /\ Fresh(p) /\ Room
  BY DEF Start
<1>2. Len(run) \in Nat /\ run = [r \in 1 .. Len(run) |-> run[r]] /\ DOMAIN run = 1 .. Len(run)
  BY DEF RowsAreRows
<1>3. PICK y : y = NewRun(p)
  OBVIOUS
<1>4. y = RunRow(p, "running", "submitting", FALSE, TasksOf(p), JobOf(p))
  BY <1>3 DEF NewRun, RunRow
<1>5. /\ Len(run') = new /\ DOMAIN run' = 1 .. new /\ run'[new] = y
      /\ \A r \in DOMAIN run : run'[r] = run[r]
      /\ run' = [r \in 1 .. new |-> run'[r]]
  <2>1. PICK S : S = {run[r] : r \in 1 .. Len(run)} \cup {y}
    OBVIOUS
  <2>2. run \in [1 .. Len(run) -> S]
    BY <1>2, <2>1
  <2>3. run \in Seq(S) /\ y \in S /\ run' = Append(run, y)
    BY <1>1, <1>2, <1>3, <2>1, <2>2, FunctionIsSeq
  <2>4. run' \in Seq(S) /\ Len(run') = new /\ DOMAIN run' = 1 .. new /\ run'[new] = y
        /\ \A r \in 1 .. Len(run) : run'[r] = run[r]
    BY <1>0, <2>3, AppendProperties
  <2> QED
    BY <1>0, <1>2, <2>4
<1>6. new \in Nat /\ new # 0 /\ new \notin DOMAIN run /\ DOMAIN run' = DOMAIN run \cup {new}
  BY <1>0, <1>2, <1>5
<1>7. /\ run'[new].plan = p /\ run'[new].status = "running" /\ run'[new].at = "submitting"
      /\ run'[new].started = FALSE /\ run'[new].sent = TasksOf(p) /\ run'[new].job = JobOf(p)
      /\ run'[new] = RunRow(p, "running", "submitting", FALSE, TasksOf(p), JobOf(p))
  BY <1>4, <1>5 DEF RunRow
<1>8. \A q : TasksOf(q)' = TasksOf(q) /\ Claims(q)' = Claims(q)
  BY <1>1 DEF TasksOf, Claims
<1>9. TasksOf(p) # {} /\ TasksOf(p) \subseteq DOMAIN task /\ \A t \in TasksOf(p) : Untouched(t)
  BY <1>1 DEF PlansHaveTasks, TasksOf, Fresh
<1>10. ASSUME NEW r \in DOMAIN run, run[r].plan = p PROVE ~Spends(r)
  <2>1. run[r].status \notin Active
    BY <1>1, <1>10 DEF Idle
  <2>2. ~run[r].started
    <3> SUFFICES ASSUME run[r].started PROVE FALSE
      OBVIOUS
    <3>1. run[r].sent # {} /\ Claims(r) = run[r].sent /\ run[r].sent \subseteq TasksOf(p)
      BY <1>10 DEF RunsFit, RunFits
    <3>2. PICK t : t \in Claims(r) /\ t \in TasksOf(p)
      BY <3>1
    <3>3. task[t].run = r /\ task[t].run = 0
      BY <1>9, <3>2 DEF Claims, Untouched
    <3> QED
      BY <1>2, <3>3
  <2> QED
    BY <2>1, <2>2 DEF Spends
<1>11. TypeOK'
  <2>1. \A t \in DOMAIN task : task[t].run \in 0 .. Len(run')
    BY <1>0, <1>2, <1>5, RowFacts
  <2>2. \A t \in DOMAIN task :
          task[t] \in [plan : DOMAIN plan, section : Nat \ {0}, type : TaskType, text : Text,
                       after : SUBSET (1 .. t - 1), begun : BOOLEAN, run : 0 .. Len(run')]
    BY <2>1 DEF TypeOK
  <2>3. \A r \in DOMAIN run' :
          /\ run'[r].plan \in DOMAIN plan /\ run'[r].status \in RunStatus
          /\ run'[r].sent \subseteq DOMAIN task /\ run'[r].started \in BOOLEAN
          /\ run'[r].at \in {"submitting", "refused", "submitted", "done"}
    <3> SUFFICES ASSUME NEW r \in DOMAIN run'
                 PROVE  /\ run'[r].plan \in DOMAIN plan /\ run'[r].status \in RunStatus
                        /\ run'[r].sent \subseteq DOMAIN task /\ run'[r].started \in BOOLEAN
                        /\ run'[r].at \in {"submitting", "refused", "submitted", "done"}
      OBVIOUS
    <3>1. CASE r \in DOMAIN run
      BY <1>5, <3>1 DEF TypeOK
    <3>2. CASE r = new
      BY <1>7, <1>9, <3>2 DEF RunStatus, Active
    <3> QED
      BY <1>6, <3>1, <3>2
  <2>4. Len(config) + edits + Len(plan) + Len(run') <= MaxWork
    <3>1. Len(config) \in Nat /\ Len(plan) \in Nat /\ edits \in Nat /\ MaxWork \in Nat
      BY RowFacts, PlanBoundsAssumption DEF TypeOK
    <3> QED
      BY <1>0, <1>1, <1>2, <1>5, <3>1 DEF Room
  <2> QED
    BY <1>1, <2>2, <2>3, <2>4 DEF TypeOK
<1>12. RowsAreRows'
  <2>1. \A r \in DOMAIN run' :
          run'[r] = RunRow(run'[r].plan, run'[r].status, run'[r].at, run'[r].started,
                           run'[r].sent, run'[r].job)
    BY <1>5, <1>6, <1>7 DEF RowsAreRows
  <2> QED
    BY <1>1, <1>5, <1>6, <2>1 DEF RowsAreRows
<1>13. ClaimsFit'
  BY <1>1, <1>5, <1>6 DEF ClaimsFit
<1>14. RunsFit'
  <2> SUFFICES ASSUME NEW r \in DOMAIN run' PROVE RunFits(r)' /\ WaitingFits(r)'
    BY DEF RunsFit
  <2>1. CASE r \in DOMAIN run
    <3>1. RunFits(r)'
      BY <1>5, <1>8, <2>1 DEF RunsFit, RunFits
    <3>2. WaitingFits(r)'
      BY <1>1, <1>5, <1>8, <2>1 DEF RunsFit, WaitingFits, Untouched
    <3> QED
      BY <3>1, <3>2
  <2>2. CASE r = new
    <3>1. RunFits(new)'
      BY <1>7, <1>8 DEF RunFits
    <3>2. WaitingFits(new)'
      BY <1>1, <1>7, <1>8, <1>9 DEF WaitingFits, Untouched
    <3> QED
      BY <2>2, <3>1, <3>2
  <2> QED
    BY <1>6, <2>1, <2>2
<1>15. OneSpender'
  <2> SUFFICES ASSUME NEW r \in DOMAIN run', NEW s \in DOMAIN run',
                      run'[r].plan = run'[s].plan, Spends(r)', Spends(s)'
               PROVE  r = s
    BY DEF OneSpender
  <2>1. \A q \in DOMAIN run : Spends(q)' = Spends(q) /\ run'[q].plan = run[q].plan
    BY <1>5 DEF Spends
  <2> QED
    BY <1>6, <1>7, <1>10, <2>1 DEF OneSpender
<1>16. PlansHaveTasks' /\ TextFits' /\ FollowUpFits' /\ SynthesisIsLast'
  BY <1>1, <1>8 DEF PlansHaveTasks, TextFits, FollowUpFits, SynthesisIsLast
<1>17. FollowUpReachable'
  <2> SUFFICES ASSUME NEW d \in GapDims, Carries(d)
               PROVE  \/ task[decision[d].task].plan = Len(plan)
                      \/ \E r \in DOMAIN run' : /\ run'[r].plan = task[decision[d].task].plan
                                                /\ run'[r].status = "deleted"
    BY <1>1 DEF FollowUpReachable, Current, Carries, Untouched
  <2> QED
    BY <1>5, <1>6 DEF FollowUpReachable, Current
<1>18. JobFits'
  <2>1. run'[new].job.config = plan[p].config
    BY <1>7 DEF JobOf
  <2>2. \A r \in DOMAIN run' : r = new \/ r \in DOMAIN run
    BY <1>6
  <2> QED
    <3>1. \A r \in DOMAIN run : run'[r].sent # {} =>
            plan[run'[r].plan].status # "draft" /\ run'[r].job.config = plan[run'[r].plan].config
      BY <1>5 DEF JobFits
    <3>2. plan[run'[new].plan].status # "draft" /\ run'[new].job.config = plan[run'[new].plan].config
      BY <1>1, <1>7, <2>1
    <3> QED
      BY <1>1, <2>2, <3>1, <3>2 DEF JobFits
<1>19. JobIsWhatWasReviewed'
  <2>1. \A t : Query(t)' = Query(t)
    BY <1>1 DEF Query
  <2>2. ASSUME NEW t \in TasksOf(p)
        PROVE  /\ JobOf(p).query[t] = Query(t)
               /\ \A c \in Topic, d \in Dims : Query(t) = Brief(c, d) =>
                    c = config[JobOf(p).config].topic
    <3>1. JobOf(p).query[t] = Query(t) /\ JobOf(p).config = plan[p].config
      BY <2>2 DEF JobOf
    <3>2. t \in DOMAIN task /\ task[t].plan = p
      BY <2>2 DEF TasksOf
    <3>3. ASSUME NEW c \in Topic, NEW d \in Dims, Query(t) = Brief(c, d)
          PROVE  c = config[plan[p].config].topic
      <4>1. CASE task[t].text # Empty
        <5>1. task[t].text = Brief(c, d)
          BY <3>3, <4>1 DEF Query
        <5> QED
          BY <3>2, <5>1 DEF TextFits
      <4>2. CASE task[t].text = Empty
        BY <3>2, <3>3, <4>2 DEF Query, Brief
      <4> QED
        BY <4>1, <4>2
    <3> QED
      BY <3>1, <3>3
  <2> SUFFICES ASSUME NEW r \in DOMAIN run', NEW t \in run'[r].sent
               PROVE  /\ run'[r].job.query[t] = Query(t)
                      /\ \A c \in Topic, d \in Dims : run'[r].job.query[t] = Brief(c, d) =>
                           c = config[run'[r].job.config].topic
    BY <1>1, <2>1 DEF JobIsWhatWasReviewed, Brief
  <2>3. CASE r \in DOMAIN run
    BY <1>5, <2>3 DEF JobIsWhatWasReviewed
  <2>4. CASE r = new
    BY <1>7, <2>2, <2>4
  <2> QED
    BY <1>6, <2>3, <2>4
<1> QED
  BY <1>11, <1>12, <1>13, <1>14, <1>15, <1>16, <1>17, <1>18, <1>19

\* Where there is nothing, everything fits.
LEMMA InitKeeps ==
    ASSUME Init PROVE PlanIInv
<1>1. /\ config = <<>> /\ plan = <<>> /\ task = <<>> /\ run = <<>> /\ edits = 0
      /\ decision = [d \in GapDims |-> NoDecision]
  BY DEF Init
<1>2. /\ Len(config) = 0 /\ Len(plan) = 0 /\ Len(task) = 0 /\ Len(run) = 0
      /\ DOMAIN config = {} /\ DOMAIN plan = {} /\ DOMAIN task = {} /\ DOMAIN run = {}
  BY <1>1
<1>3. \A d \in GapDims : decision[d].status = "none" /\ decision[d].task = 0
  BY <1>1 DEF NoDecision
<1>4. decision \in [GapDims -> [status : {"none", "approved", "dismissed"}, task : 0 .. Len(task)]]
  <2>1. NoDecision \in [status : {"none", "approved", "dismissed"}, task : 0 .. Len(task)]
    BY <1>2 DEF NoDecision
  <2> QED
    BY <1>1, <2>1
<1>5. TypeOK
  BY <1>1, <1>2, <1>4, PlanBoundsAssumption DEF TypeOK
<1>6. RowsAreRows
  BY <1>1, <1>2 DEF RowsAreRows
<1>7. FollowUpFits /\ FollowUpReachable
  BY <1>3 DEF FollowUpFits, FollowUpReachable, Carries
<1> QED
  BY <1>2, <1>5, <1>6, <1>7 DEF PlanIInv, ClaimsFit, RunsFit, OneSpender, PlansHaveTasks,
     TextFits, JobFits, JobIsWhatWasReviewed, SynthesisIsLast

-----------------------------------------------------------------------------
(* The draft of a new generation, and what it takes over.                  *)

\* The elements of a finite set, in some order.
LEMMA InSomeOrder ==
    ASSUME NEW S, IsFiniteSet(S)
    PROVE  /\ Cardinality(S) \in Nat /\ SetToSeq(S) \in [1 .. Cardinality(S) -> S]
           /\ \A i, j \in 1 .. Cardinality(S) : SetToSeq(S)[i] = SetToSeq(S)[j] => i = j
           /\ \A e \in S : \E i \in 1 .. Cardinality(S) : SetToSeq(S)[i] = e
<1>1. PICK n \in Nat : n = Cardinality(S) /\ ExistsBijection(1 .. n, S)
  BY FS_CardinalityType
<1>2. PICK g \in [1 .. n -> S] : IsInjective(g)
  BY <1>1 DEF ExistsBijection, Bijection, Injection
<1>3. PICK f : f = SetToSeq(S)
  OBVIOUS
<1>4. f \in [1 .. n -> S] /\ IsInjective(f)
  BY <1>1, <1>2, <1>3 DEF SetToSeq
<1>5. f \in Injection(1 .. n, S)
  BY <1>4 DEF Injection
<1>6. Cardinality(1 .. n) = n
  BY <1>1, FS_Interval
<1>7. f \in Surjection(1 .. n, S)
  BY <1>1, <1>5, <1>6, FS_Injection
<1> QED
  BY <1>1, <1>3, <1>4, <1>7 DEF IsInjective, Surjection

\* A plan has no more sections than there are dimensions, and one.
LEMMA BreadthType ==
    ASSUME NEW c \in Config
    PROVE  c.dims \in Seq(Dims) /\ Breadth(c) \in 0 .. Len(c.dims)
<1>1. c.dims \in Seq(Dims) /\ Len(c.dims) \in Nat /\ c.depth \in Nat /\ Extra \in Nat
  BY PlanBoundsAssumption, LenProperties DEF Config
<1> QED
  BY <1>1 DEF Breadth

\* A follow-up gets a section the plan has.
LEMMA SectionForType ==
    ASSUME NEW c \in Config, NEW d
    PROVE  SectionFor(c, d) \in Nat \ {0}
<1>1. PICK s : s = Sections(c)
  OBVIOUS
<1>2. PICK of : of = {i \in DOMAIN s : s[i] = d}
  OBVIOUS
<1>3. SectionFor(c, d) = IF of = {} THEN 1 ELSE Min(of)
  BY <1>1, <1>2 DEF SectionFor
<1>4. DOMAIN s \subseteq Nat \ {0}
  <2>1. s \in Seq(Dims \cup {Concepts})
    <3>1. c.dims \in Seq(Dims)
      BY BreadthType
    <3>2. c.dims # <<>> => c.dims[1] \in Dims
      BY <3>1, LenProperties, EmptySeq
    <3>3. PICK v : v = IF c.dims = <<>> THEN Concepts ELSE c.dims[1]
      OBVIOUS
    <3>4. v \in Dims \cup {Concepts}
      BY <3>2, <3>3
    <3>5. SubSeq(c.dims, 1, Breadth(c)) \in Seq(Dims \cup {Concepts})
      <4>1. PICK u, m : u = c.dims /\ m = Breadth(c)
        OBVIOUS
      <4>2. u \in Seq(Dims \cup {Concepts}) /\ m \in 0 .. Len(u)
        BY <3>1, <4>1, BreadthType
      <4>3. Len(u) \in Nat /\ \A i \in 1 .. m : u[i] \in Dims \cup {Concepts}
        BY <4>2, LenProperties
      <4>4. SubSeq(u, 1, m) = [i \in 1 .. m |-> u[i]]
        BY <4>2
      <4>5. SubSeq(u, 1, m) \in Seq(Dims \cup {Concepts})
        BY <4>2, <4>3, <4>4, FunctionIsSeq
      <4> QED
        BY <4>1, <4>5
    <3> QED
      BY <1>1, <3>3, <3>4, <3>5 DEF Sections
  <2> QED
    BY <2>1, LenProperties
<1>5. of # {} => Min(of) \in Nat \ {0}
  <2> SUFFICES ASSUME of # {} PROVE Min(of) \in of
    BY <1>2, <1>4
  <2>1. of \subseteq Nat
    BY <1>2, <1>4
  <2>2. \E x \in of : \A y \in of : x <= y
    <3> DEFINE R == {ss \in Nat \X Nat : ss[1] < ss[2]}
    <3>1. IsWellFoundedOn(R, Nat)
      BY NatLessThanWellFounded DEF OpToRel
    <3> HIDE DEF R
    <3>2. PICK x \in of : \A y \in of : ~(<<y, x>> \in R)
      BY <2>1, <3>1, WFMin
    <3>3. \A y \in of : ~(y < x)
      BY <2>1, <3>2 DEF R
    <3> QED
      BY <2>1, <3>3
  <2> QED
    BY <2>2 DEF Min
<1> QED
  BY <1>3, <1>5

\* The tasks of a draft: of its plan, on its topic, none waits for a later one,
\* and something waits for each but the last, which is the synthesis.
DraftFits(draft, n, topic, p, row) ==
    /\ n \in Nat /\ draft \in Seq(TaskRow) /\ Len(draft) = 3 * n + 2
    /\ \A j \in 1 .. 3 * n + 2 :
         /\ draft[j].plan = p /\ ~draft[j].begun /\ draft[j].run = 0
         /\ draft[j].after \subseteq row + 1 .. row + j - 1
         /\ \A a \in Topic, d \in Dims : draft[j].text = Brief(a, d) => a = topic
         /\ j < 3 * n + 2 => /\ draft[j].type # "synthesis"
                             /\ \E u \in 1 .. 3 * n + 2 : row + j \in draft[u].after

\* So are those of the planner's draft.
LEMMA DraftRows ==
    ASSUME NEW c \in Config, NEW p \in Nat, NEW row \in Nat, NEW n, n = Breadth(c),
           NEW draft, draft = Draft(c, p, row)
    PROVE  DraftFits(draft, n, c.topic, p, row)
<1>1. n \in Nat /\ \A i \in 1 .. n : c.dims[i] \in Dims
  <2>1. Len(c.dims) \in Nat
    BY BreadthType, LenProperties
  <2>2. \A i \in 1 .. Len(c.dims) : c.dims[i] \in Dims
    BY BreadthType, LenProperties
  <2> QED
    BY <2>1, <2>2, BreadthType
<1>2. c.topic \in Topic
  BY DEF Config
<1> DEFINE Link(i) == Chain(c, p, i + 1, row)
<1>3. PICK a : a = [j \in 1 .. 3 * n |-> LET i == (j - 1) \div 3 IN Link(i)[j - 3 * i]]
  OBVIOUS
<1>4. PICK v : v = NewTask(p, n + 1, "validation", Fixed, FanIn(n, row))
  OBVIOUS
<1>5. PICK z : z = NewTask(p, n + 1, "synthesis", Fixed, {row + 3 * n + 1})
  OBVIOUS
<1>6. draft = a \o <<v, z>>
  BY <1>3, <1>4, <1>5 DEF Draft
<1>7. ASSUME NEW i \in 0 .. n - 1
      PROVE  /\ a[3 * i + 1] = NewTask(p, i + 1, "search", Brief(c.topic, c.dims[i + 1]), {})
             /\ a[3 * i + 2] = NewTask(p, i + 1, "source_evaluation", Fixed, {row + 3 * i + 1})
             /\ a[3 * i + 3] = NewTask(p, i + 1, "normalization", Fixed, {row + 3 * i + 2})
  <2>1. ASSUME NEW k \in 1 .. 3 PROVE a[3 * i + k] = Link(i)[k]
    <3>1. 3 * i + k \in 1 .. 3 * n
      BY <1>1
    <3>2. ((3 * i + k) - 1) \div 3 = i
      BY <1>1
    <3>3. (3 * i + k) - 3 * i = k
      BY <1>1
    <3> HIDE DEF Link
    <3> QED
      BY <1>3, <3>1, <3>2, <3>3
  <2>2. row + 3 * ((i + 1) - 1) = row + 3 * i
    BY <1>1
  <2>3. /\ Link(i)[1] = NewTask(p, i + 1, "search", Brief(c.topic, c.dims[i + 1]), {})
        /\ Link(i)[2] = NewTask(p, i + 1, "source_evaluation", Fixed, {row + 3 * i + 1})
        /\ Link(i)[3] = NewTask(p, i + 1, "normalization", Fixed, {row + 3 * i + 2})
    BY <2>2 DEF Chain
  <2> HIDE DEF Link
  <2> QED
    BY <2>1, <2>3
<1>8. \A j \in 1 .. 3 * n : \E i \in 0 .. n - 1 : j = 3 * i + 1 \/ j = 3 * i + 2 \/ j = 3 * i + 3
  <2> SUFFICES ASSUME NEW j \in 1 .. 3 * n
               PROVE  \E i \in 0 .. n - 1 : j = 3 * i + 1 \/ j = 3 * i + 2 \/ j = 3 * i + 3
    OBVIOUS
  <2>1. PICK i : i = (j - 1) \div 3
    OBVIOUS
  <2>2. i \in 0 .. n - 1 /\ (j = 3 * i + 1 \/ j = 3 * i + 2 \/ j = 3 * i + 3)
    BY <1>1, <2>1
  <2> QED
    BY <2>2
<1> DEFINE Good(j, t) ==
        /\ t \in TaskRow
        /\ t.plan = p /\ ~t.begun /\ t.run = 0
        /\ t.after \subseteq row + 1 .. row + j - 1
        /\ \A b \in Topic, d \in Dims : t.text = Brief(b, d) => b = c.topic
<1>9. ASSUME NEW s \in Nat \ {0}, NEW type \in TaskType, NEW after \in SUBSET Nat, NEW j,
             after \subseteq row + 1 .. row + j - 1
      PROVE  Good(j, NewTask(p, s, type, Fixed, after))
  <2>1. Fixed \in Text
    BY DEF Text
  <2> QED
    BY <1>9, <2>1, NoBrief DEF NewTask, TaskRow
<1>10. ASSUME NEW i \in 1 .. n, NEW j
       PROVE  Good(j, NewTask(p, i, "search", Brief(c.topic, c.dims[i]), {}))
  <2>1. Brief(c.topic, c.dims[i]) \in Text
    BY <1>1, <1>2 DEF Text
  <2>2. \A b, d, e : Brief(b, d) = Brief(c.topic, e) => b = c.topic
    BY DEF Brief
  <2> QED
    BY <1>1, <2>1, <2>2 DEF NewTask, TaskRow, TaskType
<1>11. ASSUME NEW i \in 0 .. n - 1
       PROVE  /\ Good(3 * i + 1, a[3 * i + 1]) /\ a[3 * i + 1].type # "synthesis"
              /\ Good(3 * i + 2, a[3 * i + 2]) /\ a[3 * i + 2].type # "synthesis"
              /\ Good(3 * i + 3, a[3 * i + 3]) /\ a[3 * i + 3].type # "synthesis"
              /\ row + (3 * i + 1) \in a[3 * i + 2].after
              /\ row + (3 * i + 2) \in a[3 * i + 3].after
  <2>1. i + 1 \in 1 .. n /\ i + 1 \in Nat \ {0}
    BY <1>1
  <2>2. {row + 3 * i + 1} \in SUBSET Nat /\ {row + 3 * i + 2} \in SUBSET Nat
        /\ {row + 3 * i + 1} \subseteq row + 1 .. row + (3 * i + 2) - 1
        /\ {row + 3 * i + 2} \subseteq row + 1 .. row + (3 * i + 3) - 1
        /\ row + (3 * i + 1) = row + 3 * i + 1 /\ row + (3 * i + 2) = row + 3 * i + 2
    BY <1>1
  <2>3. "source_evaluation" \in TaskType /\ "normalization" \in TaskType
    BY DEF TaskType
  <2> HIDE DEF Good
  <2>4. Good(3 * i + 1, a[3 * i + 1])
    BY <1>7, <1>10, <2>1
  <2>5. Good(3 * i + 2, a[3 * i + 2])
    BY <1>7, <1>9, <2>1, <2>2, <2>3
  <2>6. Good(3 * i + 3, a[3 * i + 3])
    BY <1>7, <1>9, <2>1, <2>2, <2>3
  <2>7. a[3 * i + 1].type # "synthesis" /\ a[3 * i + 2].type # "synthesis"
        /\ a[3 * i + 3].type # "synthesis"
        /\ a[3 * i + 2].after = {row + 3 * i + 1} /\ a[3 * i + 3].after = {row + 3 * i + 2}
    <3>1. PICK x, y, w, text : /\ x = a[3 * i + 1] /\ y = a[3 * i + 2] /\ w = a[3 * i + 3]
                               /\ text = Brief(c.topic, c.dims[i + 1])
      OBVIOUS
    <3>2. x = NewTask(p, i + 1, "search", text, {})
      BY <1>7, <3>1
    <3>3. y = NewTask(p, i + 1, "source_evaluation", Fixed, {row + 3 * i + 1})
      BY <1>7, <3>1
    <3>4. w = NewTask(p, i + 1, "normalization", Fixed, {row + 3 * i + 2})
      BY <1>7, <3>1
    <3>5. x.type # "synthesis"
      BY <3>2 DEF NewTask
    <3>6. y.type # "synthesis" /\ y.after = {row + 3 * i + 1}
      BY <3>3 DEF NewTask
    <3>7. w.type # "synthesis" /\ w.after = {row + 3 * i + 2}
      BY <3>4 DEF NewTask
    <3> QED
      BY <3>1, <3>5, <3>6, <3>7
  <2> QED
    BY <2>2, <2>4, <2>5, <2>6, <2>7
<1>12. /\ Good(3 * n + 1, v) /\ v.type # "synthesis" /\ v.after = FanIn(n, row)
       /\ Good(3 * n + 2, z) /\ z.after = {row + 3 * n + 1}
  <2>1. FanIn(n, row) \in SUBSET Nat /\ FanIn(n, row) \subseteq row + 1 .. row + (3 * n + 1) - 1
    BY <1>1 DEF FanIn
  <2>2. {row + 3 * n + 1} \in SUBSET Nat
        /\ {row + 3 * n + 1} \subseteq row + 1 .. row + (3 * n + 2) - 1
        /\ n + 1 \in Nat \ {0}
    BY <1>1
  <2>3. "validation" \in TaskType /\ "synthesis" \in TaskType
    BY DEF TaskType
  <2>4. v.type # "synthesis" /\ v.after = FanIn(n, row) /\ z.after = {row + 3 * n + 1}
    BY <1>4, <1>5 DEF NewTask
  <2> HIDE DEF Good
  <2> QED
    BY <1>4, <1>5, <1>9, <2>1, <2>2, <2>3, <2>4
<1>13. \A j \in 1 .. 3 * n : Good(j, a[j]) /\ a[j].type # "synthesis"
  <2> HIDE DEF Good
  <2> SUFFICES ASSUME NEW j \in 1 .. 3 * n PROVE Good(j, a[j]) /\ a[j].type # "synthesis"
    OBVIOUS
  <2>1. PICK i \in 0 .. n - 1 : j = 3 * i + 1 \/ j = 3 * i + 2 \/ j = 3 * i + 3
    BY <1>8
  <2> QED
    BY <1>11, <2>1
<1>14. a \in Seq(TaskRow) /\ Len(a) = 3 * n
  <2>1. a \in [1 .. 3 * n -> TaskRow]
    BY <1>3, <1>13
  <2> QED
    BY <1>1, <2>1, FunctionIsSeq
<1>15. /\ draft \in Seq(TaskRow) /\ Len(draft) = 3 * n + 2
       /\ \A j \in 1 .. 3 * n : draft[j] = a[j]
       /\ draft[3 * n + 1] = v /\ draft[3 * n + 2] = z
  <2>1. PICK b : b = <<v, z>>
    OBVIOUS
  <2>2. b \in Seq(TaskRow) /\ Len(b) = 2 /\ b[1] = v /\ b[2] = z
    BY <1>12, <2>1
  <2>3. draft = a \o b
    BY <1>6, <2>1
  <2>4. /\ draft \in Seq(TaskRow) /\ Len(draft) = 3 * n + 2
        /\ \A j \in 1 .. 3 * n + 2 : draft[j] = IF j <= 3 * n THEN a[j] ELSE b[j - 3 * n]
    <3>1. /\ draft \in Seq(TaskRow) /\ Len(draft) = Len(a) + Len(b)
          /\ \A j \in 1 .. Len(a) + Len(b) : draft[j] = IF j <= Len(a) THEN a[j] ELSE b[j - Len(a)]
      <4>1. a \in Seq(TaskRow) /\ b \in Seq(TaskRow)
        BY <1>14, <2>2
      <4>2. /\ a \o b \in Seq(TaskRow) /\ Len(a \o b) = Len(a) + Len(b)
            /\ \A j \in 1 .. Len(a) + Len(b) :
                 (a \o b)[j] = IF j <= Len(a) THEN a[j] ELSE b[j - Len(a)]
        BY <4>1, ConcatProperties, Zenon
      <4> QED
        BY <2>3, <4>2, Zenon
    <3> QED
      BY <1>1, <1>14, <2>2, <3>1
  <2>5. 3 * n + 1 \in 1 .. 3 * n + 2 /\ 3 * n + 2 \in 1 .. 3 * n + 2
        /\ ~(3 * n + 1 <= 3 * n) /\ ~(3 * n + 2 <= 3 * n)
        /\ (3 * n + 1) - 3 * n = 1 /\ (3 * n + 2) - 3 * n = 2
        /\ \A j \in 1 .. 3 * n : j \in 1 .. 3 * n + 2 /\ j <= 3 * n
    BY <1>1
  <2> QED
    BY <2>2, <2>4, <2>5
<1>16. \A j \in 1 .. 3 * n + 2 : j \in 1 .. 3 * n \/ j = 3 * n + 1 \/ j = 3 * n + 2
  BY <1>1
<1>17. \A j \in 1 .. 3 * n + 2 : Good(j, draft[j])
  <2> HIDE DEF Good
  <2> QED
    BY <1>12, <1>13, <1>15, <1>16
<1>18. ASSUME NEW j \in 1 .. 3 * n + 2, j < 3 * n + 2
       PROVE  /\ draft[j].type # "synthesis"
              /\ \E u \in 1 .. 3 * n + 2 : row + j \in draft[u].after
  <2>1. CASE j = 3 * n + 1
    <3>1. draft[j].type # "synthesis" /\ draft[3 * n + 2].after = {row + 3 * n + 1}
      BY <1>12, <1>15, <2>1
    <3>2. 3 * n + 2 \in 1 .. 3 * n + 2 /\ row + j = row + 3 * n + 1
      BY <1>1, <2>1
    <3> QED
      BY <3>1, <3>2
  <2>2. CASE j \in 1 .. 3 * n
    <3>1. draft[j].type # "synthesis"
      BY <1>13, <1>15, <2>2
    <3>2. PICK i \in 0 .. n - 1 : j = 3 * i + 1 \/ j = 3 * i + 2 \/ j = 3 * i + 3
      BY <1>8, <2>2
    <3>3. CASE j = 3 * i + 1
      <4>1. 3 * i + 2 \in 1 .. 3 * n /\ 3 * i + 2 \in 1 .. 3 * n + 2
        BY <1>1
      <4>2. row + j \in draft[3 * i + 2].after
        BY <1>11, <1>15, <3>3, <4>1
      <4> QED
        BY <3>1, <4>1, <4>2
    <3>4. CASE j = 3 * i + 2
      <4>1. 3 * i + 3 \in 1 .. 3 * n /\ 3 * i + 3 \in 1 .. 3 * n + 2
        BY <1>1
      <4>2. row + j \in draft[3 * i + 3].after
        BY <1>11, <1>15, <3>4, <4>1
      <4> QED
        BY <3>1, <4>1, <4>2
    <3>5. CASE j = 3 * i + 3
      <4>1. 3 * n + 1 \in 1 .. 3 * n + 2 /\ i + 1 \in 1 .. n /\ row + j = row + 3 * (i + 1)
        BY <1>1, <3>5
      <4>2. row + j \in FanIn(n, row)
        BY <4>1 DEF FanIn
      <4>3. row + j \in draft[3 * n + 1].after
        BY <1>12, <1>15, <4>2
      <4> QED
        BY <3>1, <4>1, <4>3
    <3> QED
      BY <3>2, <3>3, <3>4, <3>5
  <2> QED
    BY <1>1, <1>18, <2>1, <2>2
<1> QED
  BY <1>1, <1>15, <1>17, <1>18 DEF DraftFits

\* A new generation: the old plans are superseded, and every follow-up that
\* waits is handed on to the new one.
LEMMA RegenerateKeeps ==
    ASSUME PlanIInv, Regenerate
    PROVE  PlanIInv' /\ \A d \in GapDims : Carries(d) =>
                          task'[decision'[d].task].text = task[decision[d].task].text
<1> USE DEF PlanIInv
<1>1. PICK new, c, row, draft, S, q :
        /\ new = Len(plan) + 1 /\ c = config[Latest] /\ row = Len(task)
        /\ draft = Draft(c, new, row) /\ S = {d \in GapDims : Carries(d)} /\ q = SetToSeq(S)
  OBVIOUS
<1>2. PICK w : w = [i \in DOMAIN q |-> Carried(q[i], c, new)]
  OBVIOUS
<1>3. /\ config # <<>> /\ Room /\ Len(plan) < MaxPlans /\ UNCHANGED <<config, run, edits>>
      /\ plan' = Append(Superseded, [status |-> "draft", config |-> Latest])
      /\ task' = task \o draft \o w
      /\ decision' = [d \in GapDims |->
            IF Carries(d)
            THEN [status |-> "approved",
                  task |-> row + Len(draft) + (CHOOSE i \in DOMAIN q : q[i] = d)]
            ELSE decision[d]]
  BY <1>1, <1>2 DEF Regenerate
<1>4. Latest \in DOMAIN config /\ c \in Config
  <2>1. Len(config) # 0
    BY <1>3, EmptySeq DEF TypeOK
  <2>2. Latest \in DOMAIN config
    BY <2>1, RowFacts DEF Latest
  <2> QED
    BY <1>1, <2>2, RowFacts
<1>5. /\ Len(plan) \in Nat /\ DOMAIN plan = 1 .. Len(plan) /\ new \in Nat /\ new # 0
      /\ row \in Nat /\ DOMAIN task = 1 .. row /\ task \in Seq(TaskRow)
  BY <1>1, RowFacts DEF RowsAreRows
<1>6. PICK n : n = Breadth(c)
  OBVIOUS
<1>7. /\ n \in Nat /\ draft \in Seq(TaskRow) /\ Len(draft) = 3 * n + 2
      /\ \A j \in 1 .. 3 * n + 2 :
           /\ draft[j].plan = new /\ ~draft[j].begun /\ draft[j].run = 0
           /\ draft[j].after \subseteq row + 1 .. row + j - 1
           /\ \A a \in Topic, d \in Dims : draft[j].text = Brief(a, d) => a = c.topic
           /\ j < 3 * n + 2 => /\ draft[j].type # "synthesis"
                               /\ \E u \in 1 .. 3 * n + 2 : row + j \in draft[u].after
  <2>1. c \in Config /\ new \in Nat /\ row \in Nat /\ n = Breadth(c) /\ draft = Draft(c, new, row)
    BY <1>1, <1>4, <1>5, <1>6
  <2>2. DraftFits(draft, n, c.topic, new, row)
    BY <2>1, DraftRows
  <2> QED
    BY <2>2 DEF DraftFits
<1>8. PICK m : m = Cardinality(S)
  OBVIOUS
<1>9. /\ m \in Nat /\ q \in [1 .. m -> S] /\ DOMAIN q = 1 .. m
      /\ \A i, j \in 1 .. m : q[i] = q[j] => i = j
      /\ \A d \in S : \E i \in 1 .. m : q[i] = d
  <2>1. S \subseteq GapDims
    BY <1>1
  <2>2. IsFiniteSet(S)
    BY <2>1, InputsAssumption, FS_Subset
  <2> QED
    BY <1>1, <1>8, <2>2, InSomeOrder
<1>10. \A d \in S : /\ d \in GapDims /\ decision[d].status = "approved"
                    /\ decision[d].task \in DOMAIN task /\ Untouched(decision[d].task)
  BY <1>1, RowFacts DEF Carries, FollowUpFits
<1>11. ASSUME NEW i \in 1 .. m
       PROVE  /\ w[i] \in TaskRow /\ w[i].plan = new /\ ~w[i].begun /\ w[i].run = 0
              /\ w[i].after = {} /\ w[i].type = "search"
              /\ w[i].text = task[decision[q[i]].task].text
              /\ w[i].text \in {Gap(q[i]), Edited, Empty}
  <2>1. PICK d, old, s : d = q[i] /\ old = task[decision[d].task] /\ s = SectionFor(c, d)
    OBVIOUS
  <2>2. d \in S /\ d \in GapDims
    BY <1>9, <1>10, <2>1
  <2>3. old \in TaskRow /\ old.type = "search" /\ old.text \in {Gap(d), Edited, Empty}
    BY <1>10, <2>1, <2>2, RowFacts DEF FollowUpFits
  <2>4. s \in Nat \ {0}
    BY <1>4, <2>1, SectionForType
  <2>5. w[i] = [plan |-> new, section |-> s, type |-> old.type, text |-> old.text, after |-> {},
                begun |-> FALSE, run |-> 0]
    BY <1>2, <1>9, <2>1 DEF Carried, NewTask
  <2>6. w[i] \in TaskRow
    BY <1>5, <2>3, <2>4, <2>5 DEF TaskRow
  <2> QED
    BY <2>1, <2>3, <2>5, <2>6
<1>12. w \in Seq(TaskRow) /\ Len(w) = m
  <2>1. w \in [1 .. m -> TaskRow]
    BY <1>2, <1>9, <1>11
  <2> QED
    BY <1>9, <2>1, FunctionIsSeq
<1>13. PICK k : k = row + (3 * n + 2)
  OBVIOUS
<1>14. /\ k \in Nat /\ row <= k /\ task' \in Seq(TaskRow) /\ Len(task') = k + m
       /\ DOMAIN task' = 1 .. k + m
       /\ \A t \in DOMAIN task : task'[t] = task[t]
       /\ \A t \in row + 1 .. k : t - row \in 1 .. 3 * n + 2 /\ task'[t] = draft[t - row]
       /\ \A i \in 1 .. m : task'[k + i] = w[i]
  <2>1. PICK b : b = task \o draft
    OBVIOUS
  <2>2. /\ task \o draft \in Seq(TaskRow) /\ Len(task \o draft) = Len(task) + Len(draft)
        /\ \A i \in 1 .. Len(task) + Len(draft) :
             (task \o draft)[i] = IF i <= Len(task) THEN task[i] ELSE draft[i - Len(task)]
    BY <1>5, <1>7, ConcatProperties, Zenon
  <2>3. /\ b \in Seq(TaskRow) /\ Len(b) = k
        /\ \A i \in 1 .. k : b[i] = IF i <= row THEN task[i] ELSE draft[i - row]
    BY <1>1, <1>7, <1>13, <2>1, <2>2
  <2>4. /\ b \o w \in Seq(TaskRow) /\ Len(b \o w) = Len(b) + Len(w)
        /\ \A i \in 1 .. Len(b) + Len(w) :
             (b \o w)[i] = IF i <= Len(b) THEN b[i] ELSE w[i - Len(b)]
    BY <1>12, <2>3, ConcatProperties, Zenon
  <2>5. task' = b \o w
    BY <1>3, <2>1
  <2>6. k \in Nat /\ row <= k
    BY <1>5, <1>7, <1>13
  <2>7. /\ task' \in Seq(TaskRow) /\ Len(task') = k + m
        /\ \A i \in 1 .. k + m : task'[i] = IF i <= k THEN b[i] ELSE w[i - k]
    <3>1. PICK v : v = b \o w
      OBVIOUS
    <3>2. /\ v \in Seq(TaskRow) /\ Len(v) = Len(b) + Len(w)
          /\ \A i \in 1 .. Len(b) + Len(w) : v[i] = IF i <= Len(b) THEN b[i] ELSE w[i - Len(b)]
      BY <2>4, <3>1
    <3> QED
      BY <1>12, <2>3, <2>5, <3>1, <3>2
  <2>8. \A t \in DOMAIN task : task'[t] = task[t]
    BY <1>5, <1>9, <2>3, <2>6, <2>7
  <2>9. \A t \in row + 1 .. k : t - row \in 1 .. 3 * n + 2 /\ task'[t] = draft[t - row]
    BY <1>5, <1>7, <1>9, <1>13, <2>3, <2>6, <2>7
  <2>10. \A i \in 1 .. m : task'[k + i] = w[i]
    <3>1. \A i \in 1 .. m : k + i \in 1 .. k + m /\ ~(k + i <= k) /\ (k + i) - k = i
      BY <1>9, <2>6
    <3> QED
      BY <2>7, <3>1
  <2>11. DOMAIN task' = 1 .. k + m
    BY <2>7, LenProperties
  <2> QED
    BY <2>6, <2>7, <2>8, <2>9, <2>10, <2>11
<1> DEFINE Added == row + 1 .. k + m
<1>15. DOMAIN task' \ DOMAIN task = Added
  BY <1>5, <1>9, <1>14
<1>16. \A t \in Added : t \in row + 1 .. k \/ \E i \in 1 .. m : t = k + i
  <2> SUFFICES ASSUME NEW t \in Added, t \notin row + 1 .. k
               PROVE  t - k \in 1 .. m /\ t = k + (t - k)
    OBVIOUS
  <2> QED
    BY <1>5, <1>9, <1>14
<1>17. /\ Len(plan') = new /\ DOMAIN plan' = 1 .. new
       /\ plan' \in Seq([status : PlanStatus, config : DOMAIN config])
       /\ plan'[new] = [status |-> "draft", config |-> Latest]
       /\ \A p \in DOMAIN plan : plan'[p].config = plan[p].config /\ plan'[p].status = "superseded"
  <2> DEFINE P == [status : PlanStatus, config : DOMAIN config]
  <2>1. PICK f, e : f = Superseded /\ e = [status |-> "draft", config |-> Latest]
    OBVIOUS
  <2>2. e \in P
    BY <1>4, <2>1 DEF PlanStatus
  <2>3. f = [p \in 1 .. Len(plan) |-> [plan[p] EXCEPT !.status = "superseded"]]
    BY <1>5, <2>1 DEF Superseded
  <2>4. \A p \in 1 .. Len(plan) : f[p] \in P /\ f[p].config = plan[p].config
                                   /\ f[p].status = "superseded"
    BY <1>5, <2>3, RowFacts DEF PlanStatus
  <2>5. f \in [1 .. Len(plan) -> P]
    BY <2>3, <2>4
  <2>6. f \in Seq(P) /\ Len(f) = Len(plan)
    BY <1>5, <2>5, FunctionIsSeq
  <2> HIDE DEF P
  <2>7. plan' = Append(f, e)
    BY <1>3, <2>1
  <2>8. /\ plan' \in Seq(P) /\ Len(plan') = new /\ DOMAIN plan' = 1 .. new /\ plan'[new] = e
        /\ \A p \in 1 .. Len(plan) : plan'[p] = f[p]
    BY <1>1, <2>2, <2>6, <2>7, AppendProperties
  <2> QED
    BY <1>5, <2>1, <2>4, <2>8 DEF P
<1>18. PlansGrow
  <2>1. Len(config) + edits + Len(plan') + Len(run) <= MaxWork /\ Len(plan') <= MaxPlans
    <3>1. Len(config) \in Nat /\ Len(run) \in Nat /\ edits \in Nat
          /\ MaxWork \in Nat /\ MaxPlans \in Nat
      BY RowFacts, PlanBoundsAssumption DEF TypeOK
    <3> QED
      BY <1>1, <1>3, <1>5, <1>17, <3>1 DEF Room
  <2> QED
    BY <1>1, <1>5, <1>17, <2>1 DEF PlansGrow
<1>19. TasksGrow(Added)
  <2>1. config[plan'[new].config].topic = c.topic
    BY <1>1, <1>17
  <2>2. ASSUME NEW t \in row + 1 .. k
        PROVE  /\ task'[t].plan = new /\ ~task'[t].begun /\ task'[t].run = 0
               /\ task'[t].after \subseteq Added \cap 1 .. t - 1
               /\ \A a \in Topic, d \in Dims : task'[t].text = Brief(a, d) => a = c.topic
               /\ t < k => /\ task'[t].type # "synthesis"
                           /\ \E u \in Added : t \in task'[u].after
    <3>1. PICK j : j = t - row
      OBVIOUS
    <3>2. j \in 1 .. 3 * n + 2 /\ task'[t] = draft[j] /\ t = row + j
          /\ (t < k => j < 3 * n + 2)
      BY <1>5, <1>7, <1>13, <1>14, <3>1
    <3>3. row + 1 .. row + j - 1 \subseteq Added \cap 1 .. t - 1
      BY <1>5, <1>7, <1>9, <1>13, <3>2
    <3>4. ASSUME t < k
          PROVE  /\ task'[t].type # "synthesis" /\ \E u \in Added : t \in task'[u].after
      <4>1. PICK u \in 1 .. 3 * n + 2 : row + j \in draft[u].after
        BY <1>7, <3>2, <3>4
      <4>2. row + u \in row + 1 .. k /\ row + u \in Added /\ (row + u) - row = u
        BY <1>5, <1>7, <1>9, <1>13
      <4>3. task'[row + u] = draft[u]
        BY <1>14, <4>2
      <4> QED
        BY <1>7, <3>2, <3>4, <4>1, <4>2, <4>3
    <3> QED
      BY <1>7, <3>2, <3>3, <3>4
  <2>3. ASSUME NEW t \in Added, NEW i \in 1 .. m, t = k + i
        PROVE  /\ task'[t].plan = new /\ ~task'[t].begun /\ task'[t].run = 0
               /\ task'[t].after = {} /\ task'[t].type # "synthesis"
               /\ \A a \in Topic, d \in Dims : task'[t].text # Brief(a, d)
    <3>1. task'[t] = w[i]
      BY <1>14, <2>3
    <3>2. q[i] \in GapDims
      BY <1>9, <1>10
    <3> QED
      BY <1>11, <3>1, <3>2, NoBrief
  <2>4. \A t \in Added :
          /\ task'[t].plan = new /\ ~task'[t].begun /\ task'[t].run = 0
          /\ task'[t].after \subseteq Added \cap 1 .. t - 1
          /\ \A a \in Topic, d \in Dims :
               task'[t].text = Brief(a, d) => a = config[plan'[new].config].topic
    BY <1>16, <2>1, <2>2, <2>3
  <2>5. \A t, s \in Added : task'[s].type = "synthesis" /\ t < s => \E u \in Added : t \in task'[u].after
    <3> SUFFICES ASSUME NEW t \in Added, NEW s \in Added, task'[s].type = "synthesis", t < s
                 PROVE  \E u \in Added : t \in task'[u].after
      OBVIOUS
    <3>1. s \in row + 1 .. k
      BY <1>16, <2>3
    <3>2. t \in row + 1 .. k /\ t < k
      BY <1>5, <1>14, <3>1
    <3> QED
      BY <2>2, <3>2
  <2>6. Added # {}
    <3>1. row + 1 \in Added
      BY <1>5, <1>7, <1>9, <1>13
    <3> QED
      BY <3>1
  <2>7. \A p \in DOMAIN plan' : p \in DOMAIN plan \/ p = new
    BY <1>1, <1>5, <1>17
  <2>8. Len(plan') = new /\ new # 0 /\ new > Len(plan) /\ ~(new <= Len(plan))
        /\ Len(task) <= Len(task')
    BY <1>1, <1>5, <1>9, <1>14, <1>17
  <2> HIDE DEF Added
  <2> QED
    BY <1>14, <1>15, <2>4, <2>5, <2>6, <2>7, <2>8 DEF TasksGrow
<1>20. ASSUME NEW d \in S
       PROVE  \E i \in 1 .. m : /\ q[i] = d /\ decision'[d] = [status |-> "approved", task |-> k + i]
                                /\ task'[k + i] = w[i]
  <2>1. PICK i : i = CHOOSE x \in 1 .. m : q[x] = d
    OBVIOUS
  <2>2. i \in 1 .. m /\ q[i] = d
    BY <1>9, <2>1
  <2>3. Carries(d) /\ d \in GapDims
    BY <1>1
  <2>4. decision'[d] = [status |-> "approved", task |-> row + Len(draft) + i]
    BY <1>3, <1>9, <2>1, <2>3
  <2>5. row + Len(draft) + i = k + i
    BY <1>5, <1>7, <1>13, <2>2
  <2> QED
    BY <1>14, <2>2, <2>4, <2>5
<1>21. \A d \in GapDims : d \notin S => decision'[d] = decision[d] /\ ~Carries(d)
  BY <1>1, <1>3
<1>22. decision' \in [GapDims -> [status : {"none", "approved", "dismissed"}, task : 0 .. Len(task')]]
  <2>1. \A d \in GapDims : decision'[d] \in [status : {"none", "approved", "dismissed"},
                                             task : 0 .. Len(task')]
    <3> SUFFICES ASSUME NEW d \in GapDims
                 PROVE  decision'[d] \in [status : {"none", "approved", "dismissed"},
                                          task : 0 .. Len(task')]
      OBVIOUS
    <3>1. CASE d \in S
      <4>1. PICK i \in 1 .. m : decision'[d] = [status |-> "approved", task |-> k + i]
        BY <1>20, <3>1
      <4>2. k + i \in 0 .. Len(task')
        BY <1>9, <1>14
      <4> QED
        BY <4>1, <4>2
    <3>2. CASE d \notin S
      <4>1. decision[d] \in [status : {"none", "approved", "dismissed"}, task : 0 .. Len(task)]
        BY DEF TypeOK
      <4>2. 0 .. Len(task) \subseteq 0 .. Len(task')
        BY <1>1, <1>5, <1>9, <1>14
      <4> QED
        BY <1>21, <3>2, <4>1, <4>2
    <3> QED
      BY <3>1, <3>2
  <2>2. decision' = [d \in GapDims |-> decision'[d]]
    BY <1>3
  <2> QED
    BY <2>1, <2>2
<1>23. FollowUpFits'
  <2> SUFFICES ASSUME NEW d \in GapDims, decision'[d].status = "approved"
               PROVE  /\ decision'[d].task # 0 /\ task'[decision'[d].task].type = "search"
                      /\ task'[decision'[d].task].text \in {Gap(d), Edited, Empty}
    BY DEF FollowUpFits, Gap, Edited, Empty
  <2>1. CASE d \in S
    <3>1. PICK i \in 1 .. m : /\ q[i] = d /\ decision'[d] = [status |-> "approved", task |-> k + i]
                              /\ task'[k + i] = w[i]
      BY <1>20, <2>1
    <3>2. decision'[d].task = k + i /\ k + i # 0
      BY <1>9, <1>14, <3>1
    <3> QED
      BY <1>11, <3>1, <3>2
  <2>2. CASE d \notin S
    <3>1. decision'[d] = decision[d] /\ decision[d].task \in DOMAIN task
      BY <1>21, <2>2, RowFacts DEF FollowUpFits
    <3> QED
      BY <1>14, <3>1 DEF FollowUpFits
  <2> QED
    BY <2>1, <2>2
<1>24. FollowUpReachable'
  <2> SUFFICES ASSUME NEW d \in GapDims, Carries(d)'
               PROVE  task'[decision'[d].task].plan = new
    BY <1>17 DEF FollowUpReachable, Current
  <2>1. CASE d \in S
    <3>1. PICK i \in 1 .. m : /\ q[i] = d /\ decision'[d] = [status |-> "approved", task |-> k + i]
                              /\ task'[k + i] = w[i]
      BY <1>20, <2>1
    <3> QED
      BY <1>11, <3>1
  <2>2. CASE d \notin S
    <3>1. decision'[d] = decision[d] /\ ~Carries(d)
      BY <1>21, <2>2
    <3>2. /\ decision'[d].status = "approved"
          /\ ~task'[decision'[d].task].begun /\ task'[decision'[d].task].run = 0
      BY DEF Carries, Untouched
    <3>3. decision[d].task \in DOMAIN task
      BY <3>1, <3>2, RowFacts DEF FollowUpFits
    <3>4. ~task[decision[d].task].begun /\ task[decision[d].task].run = 0
      BY <1>14, <3>1, <3>2, <3>3
    <3> QED
      BY <3>1, <3>2, <3>4 DEF Carries, Untouched
  <2> QED
    BY <2>1, <2>2
<1>25. PlanIInv'
  <2> HIDE DEF PlanIInv, Added
  <2> QED
    BY <1>3, <1>18, <1>19, <1>22, <1>23, <1>24, RowsAdded
<1>26. ASSUME NEW d \in GapDims, Carries(d)
       PROVE  task'[decision'[d].task].text = task[decision[d].task].text
  <2>1. PICK i \in 1 .. m : /\ q[i] = d /\ decision'[d] = [status |-> "approved", task |-> k + i]
                            /\ task'[k + i] = w[i]
    BY <1>1, <1>20, <1>26
  <2> QED
    BY <1>11, <2>1
<1> QED
  BY <1>25, <1>26

-----------------------------------------------------------------------------
(* Every step, and what follows.                                           *)

\* Every step keeps the invariant; and what an accepted follow-up says, unless
\* a task is edited.
LEMMA PlanStep ==
    ASSUME PlanIInv, [Next]_pvars
    PROVE  /\ PlanIInv'
           /\ \A d \in GapDims : Carries(d) /\ Carries(d)' /\ edits' = edits
                => task'[decision'[d].task].text = task[decision[d].task].text
<1> DEFINE Says == \A d \in GapDims : Carries(d) /\ Carries(d)' /\ edits' = edits
                      => task'[decision'[d].task].text = task[decision[d].task].text
<1>0. \A d \in GapDims : Carries(d) => decision[d].task \in DOMAIN task
  BY RowFacts DEF PlanIInv, Carries, FollowUpFits
<1>1. ASSUME SameTexts PROVE Says
  BY <1>0, <1>1 DEF SameTexts
<1>2. ASSUME task' = task, decision' = decision PROVE Says
  BY <1>2
<1>3. CASE CreateProject \/ PutConfig
  <2>1. /\ Room /\ \E c \in Inputs : InsertConfig(c)
        /\ UNCHANGED <<plan, task, run, decision, edits>>
    BY <1>3 DEF CreateProject, PutConfig
  <2>2. PlanIInv'
    BY <2>1, InsertConfigKeeps
  <2> QED
    BY <1>2, <2>1, <2>2
<1>4. CASE Regenerate
  BY <1>4, RegenerateKeeps
<1>5. CASE Reject
  <2>1. /\ SetStatus(Current, "rejected") /\ UNCHANGED <<config, task, run, decision, edits>>
        /\ plan # <<>>
    BY <1>5 DEF Reject
  <2>2. Current \in DOMAIN plan
    BY <2>1, RowFacts, EmptySeq DEF Current, PlanIInv, TypeOK
  <2>3. "rejected" \in PlanStatus
    BY DEF PlanStatus
  <2>4. PlanIInv'
    BY <2>1, <2>2, <2>3, ReviewKeeps
  <2> QED
    BY <1>2, <2>1, <2>4
<1>6. CASE \E p \in DOMAIN plan : Approve(p)
  <2>1. PICK p \in DOMAIN plan : Approve(p)
    BY <1>6
  <2>2. SetStatus(p, "approved") /\ UNCHANGED <<config, task, run, decision, edits>>
    BY <2>1 DEF Approve
  <2>3. "approved" \in PlanStatus
    BY DEF PlanStatus
  <2>4. PlanIInv'
    BY <2>2, <2>3, ReviewKeeps
  <2> QED
    BY <1>2, <2>2, <2>4
<1>7. CASE \E p \in DOMAIN plan : Start(p)
  <2>1. PlanIInv'
    BY <1>7, StartKeeps
  <2>2. task' = task /\ decision' = decision
    BY <1>7 DEF Start
  <2> QED
    BY <1>2, <2>1, <2>2
<1>8. CASE \E t \in DOMAIN task : UpdateTask(t)
  <2>1. PlanIInv'
    BY <1>8, UpdateTaskKeeps
  <2>2. edits' = edits + 1 /\ edits \in Nat
    BY <1>8 DEF UpdateTask, PlanIInv, TypeOK
  <2>3. edits' # edits
    BY <2>2
  <2> QED
    BY <2>1, <2>3
<1>9. CASE \E d \in GapDims : ApproveGap(d)
  <2>1. PICK d \in GapDims : ApproveGap(d)
    BY <1>9
  <2>2. PlanIInv'
    BY <2>1, ApproveGapKeeps
  <2>3. /\ ~Carries(d) /\ task' = Append(task, FollowUp(d))
        /\ decision' = [decision EXCEPT ![d] = [status |-> "approved", task |-> Len(task) + 1]]
    BY <2>1 DEF ApproveGap, Decide
  <2>4. \A t \in DOMAIN task : task'[t] = task[t]
    <3>1. PICK S, f : S = TaskRow \cup {FollowUp(d)} /\ f = FollowUp(d)
      OBVIOUS
    <3>2. /\ Len(task) \in Nat /\ DOMAIN task = 1 .. Len(task)
          /\ task \in [1 .. Len(task) -> TaskRow]
      BY RowFacts, LenProperties DEF PlanIInv, RowsAreRows
    <3>3. task \in [1 .. Len(task) -> S]
      BY <3>1, <3>2
    <3>4. task \in Seq(S) /\ f \in S /\ task' = Append(task, f)
      BY <2>3, <3>1, <3>2, <3>3, FunctionIsSeq
    <3> QED
      BY <3>2, <3>4, AppendProperties
  <2>5. \A e \in GapDims : e # d => decision'[e] = decision[e]
    BY <2>3
  <2>6. Says
    BY <1>0, <2>3, <2>4, <2>5
  <2> QED
    BY <2>2, <2>6
<1>10. CASE \E d \in GapDims : DismissGap(d)
  <2>1. PICK d \in GapDims : DismissGap(d)
    BY <1>10
  <2>2. PlanIInv'
    BY <2>1, DismissGapKeeps
  <2>3. task' = task /\ decision' = [decision EXCEPT ![d] = [status |-> "dismissed", task |-> 0]]
    BY <2>1 DEF DismissGap, Decide
  <2>4. \A e \in GapDims : e # d => decision'[e] = decision[e]
    BY <2>3
  <2>5. decision \in [GapDims -> [status : {"none", "approved", "dismissed"}, task : 0 .. Len(task)]]
    BY DEF PlanIInv, TypeOK
  <2>6. decision'[d].status = "dismissed"
    BY <2>3, <2>5
  <2>7. ~Carries(d)'
    BY <2>6 DEF Carries
  <2>8. Says
    BY <2>3, <2>4, <2>7
  <2> QED
    BY <2>2, <2>8
<1>11. CASE \E r \in DOMAIN run :
               \/ Submit(r) \/ Bind(r) \/ RunStarted(r) \/ RunEnded(r) \/ Converge(r)
               \/ LaterTaskEvents(r)
               \/ \E t \in run[r].sent : FirstTaskEvent(r, t)
  <2>1. PlanIInv' /\ SameTexts
    BY <1>11, RunStepsKeep
  <2> QED
    BY <1>1, <2>1
<1>12. CASE UNCHANGED pvars
  <2>1. /\ config' = config /\ plan' = plan /\ task' = task /\ run' = run
        /\ decision' = decision /\ edits' = edits
    BY <1>12 DEF pvars
  <2>2. TypeOK' /\ RowsAreRows' /\ ClaimsFit' /\ OneSpender'
    BY <2>1 DEF PlanIInv, TypeOK, RowsAreRows, ClaimsFit, OneSpender, Spends
  <2>6. RunsFit'
    <3>1. \A r \in DOMAIN run : RunFits(r)'
      BY <2>1 DEF PlanIInv, RunsFit, RunFits, TasksOf, Claims
    <3>2. \A r \in DOMAIN run : WaitingFits(r)'
      BY <2>1 DEF PlanIInv, RunsFit, WaitingFits, TasksOf, Untouched
    <3> QED
      BY <2>1, <3>1, <3>2 DEF RunsFit
  <2>3. PlansHaveTasks' /\ TextFits' /\ JobFits' /\ FollowUpFits' /\ SynthesisIsLast'
    BY <2>1 DEF PlanIInv, PlansHaveTasks, TextFits, JobFits, FollowUpFits, SynthesisIsLast, TasksOf
  <2>4. JobIsWhatWasReviewed' /\ FollowUpReachable'
    BY <2>1 DEF PlanIInv, JobIsWhatWasReviewed, Query, FollowUpReachable, Carries, Untouched, Current
  <2>5. PlanIInv'
    BY <2>2, <2>3, <2>4, <2>6 DEF PlanIInv
  <2> QED
    BY <1>2, <2>1, <2>5
<1> HIDE DEF Says
<1> QED
  BY <1>3, <1>4, <1>5, <1>6, <1>7, <1>8, <1>9, <1>10, <1>11, <1>12 DEF Next

\* The invariant holds.
LEMMA PlanIInvHolds == Spec => []PlanIInv
<1>1. Init => PlanIInv
  BY InitKeeps
<1>2. PlanIInv /\ [Next]_pvars => PlanIInv'
  BY PlanStep
<1> QED
  BY <1>1, <1>2, PTL DEF Spec

\* A run does what was reviewed: its job has the tasks that the run claims, with
\* the texts and the topic under review, and a synthesis behind them all
\* (run_start, plan_update_task, plan_regenerate).
THEOREM JobInvHolds == Spec => []JobInv
<1>1. PlanIInv => JobInv
  BY DEF PlanIInv, JobInv, JobMatchesClaims, RunsFit, RunFits
<1> QED
  BY <1>1, PlanIInvHolds, PTL

\* A plan has one run under way (run_start's gate), late events or not.
THEOREM OneActiveRunPerPlanHolds == Spec => []OneActiveRunPerPlan
<1>1. PlanIInv => OneActiveRunPerPlan
  BY DEF PlanIInv, OneActiveRunPerPlan, OneSpender, Spends
<1> QED
  BY <1>1, PlanIInvHolds, PTL

\* A plan is executed once (ensure_plan_can_execute, run_start).
THEOREM PlanRunsOnceHolds == Spec => []PlanRunsOnce
<1>1. PlanIInv => PlanRunsOnce
  BY DEF PlanIInv, PlanRunsOnce, OneSpender, Spends
<1> QED
  BY <1>1, PlanIInvHolds, PTL

\* An accepted follow-up is not left behind by a regeneration (plan_regenerate).
THEOREM FollowUpReachableHolds == Spec => []FollowUpReachable
<1>1. PlanIInv => FollowUpReachable
  BY DEF PlanIInv
<1> QED
  BY <1>1, PlanIInvHolds, PTL

\* Nor does one change what it says (plan_regenerate, projection).
THEOREM FollowUpKeepsItsTextHolds == Spec => FollowUpKeepsItsText
<1>1. PlanIInv /\ [Next]_pvars =>
        [\A d \in GapDims : Carries(d) /\ Carries(d)' /\ edits' = edits
            => task'[decision'[d].task].text = task[decision[d].task].text]_pvars
  BY PlanStep
<1> QED
  BY <1>1, PlanIInvHolds, PTL DEF Spec, FollowUpKeepsItsText
=============================================================================
