--------------------------- MODULE WorkerSession ---------------------------
(***************************************************************************)
(* The supervisor's worker: how a call that needs one finds it alive,      *)
(* starts it with a bounded number of attempts, or refuses.  A start holds *)
(* the supervisor's mutex; settings, keys, the installed runtime and the   *)
(* child's life change meanwhile.                                          *)
(***************************************************************************)
EXTENDS ProviderSettings

CONSTANTS
    MaxRestarts,   \* RestartPolicy::max_restarts
    MaxTroubles,   \* bound: deaths, taken ports, an unavailable keychain
    MaxSessions    \* bound: starts of the core

ASSUME SessionAssumption ==
    MaxRestarts \in Nat \ {0} /\ MaxTroubles \in Nat /\ MaxSessions \in Nat

VARIABLES
    sup,       \* SupervisorState
    attempts,  \* restart_attempts
    phase,     \* where ensure_started is
    env,       \* the environment of the attempt
    began,     \* the keys when the attempt began
    answer,    \* how the last call ended
    worker,    \* the child the transport holds, NoWorker without one
    live,      \* children of this core that run
    runtime,   \* the worker's installation
    troubles, sessions

session == <<sup, attempts, phase, env, began, answer, worker, live>>
vars    == <<settings, session, runtime, troubles, sessions>>

NoWorker == [own |-> FALSE, route |-> "none", key |-> 0, alive |-> FALSE]
Answers  == {"none", "ok", "exhausted", "providers", "key", "denied", "incompatible", "stranger"}

SupervisorState == {"stopped", "ready", "exhausted"}

TypeOK ==
    /\ SettingsTypeOK
    /\ sup \in SupervisorState /\ attempts \in 0 .. MaxRestarts
    /\ phase \in {"rest", "loop", "resolve", "spawn", "gate"}
    /\ env = EmptyEnv \/ (env.ok /\ env.providers \subseteq Provider)
    /\ began \in [Reference -> 0 .. MaxKeys] /\ answer \in Answers
    /\ worker \in [own : BOOLEAN, alive : BOOLEAN, key : 0 .. MaxKeys,
                   route : {"none", "offline", "default", "configured"}]
    /\ live \in 0 .. 1
    /\ runtime \in {"missing", "incompatible", "ok"}
    /\ troubles \in 0 .. MaxTroubles /\ sessions \in 0 .. MaxSessions

Rested ==
    /\ sup' = "stopped" /\ attempts' = 0 /\ phase' = "rest" /\ env' = EmptyEnv
    /\ began' = NoKeys /\ answer' = "none"
    /\ worker' = NoWorker /\ live' = 0

Init ==
    /\ SettingsInit
    /\ sup = "stopped" /\ attempts = 0 /\ phase = "rest" /\ env = EmptyEnv
    /\ began = NoKeys /\ answer = "none"
    /\ worker = NoWorker /\ live = 0
    /\ runtime \in {"missing", "incompatible", "ok"} /\ troubles = 0 /\ sessions = 0

Trouble == troubles < MaxTroubles /\ troubles' = troubles + 1
Outside == UNCHANGED <<settings, runtime, sessions>>

-----------------------------------------------------------------------------
(* ensure_started.                                                         *)

\* is_alive: the child has not exited.
Alive == worker.alive

\* Dropping a transport kills its child.
Dropped == worker' = NoWorker /\ live' = 0

\* The restart budget.
MayTry == attempts < MaxRestarts

\* A live worker is used; a dead one is let go of before a new start.
Call ==
    /\ Up /\ phase = "rest"
    /\ IF sup = "ready" /\ Alive
       THEN answer' = "ok" /\ UNCHANGED <<sup, attempts, phase, worker, live>>
       ELSE /\ phase' = "loop" /\ answer' = "none"
            /\ sup' = IF sup = "ready" THEN "stopped" ELSE sup
            /\ worker' = NoWorker
            /\ UNCHANGED <<attempts, live>>
    /\ UNCHANGED <<env, began, troubles>> /\ Outside

\* The call ends without a worker.
Refuse(why) ==
    /\ sup' = "exhausted" /\ phase' = "rest" /\ answer' = why
    /\ Dropped /\ env' = EmptyEnv /\ began' = NoKeys
    /\ UNCHANGED attempts

\* Mutant: the child of a failed attempt is left running.
LeaveChild ==
    /\ attempts' = attempts + 1 /\ phase' = "loop" /\ worker' = NoWorker
    /\ began' = NoKeys /\ UNCHANGED <<sup, env, answer, live>>

\* Mutant: failures are not counted.
UncountedAttempt ==
    /\ phase' = "loop" /\ Dropped
    /\ began' = NoKeys /\ UNCHANGED <<sup, attempts, env, answer>>

\* A retryable failure of the attempt.
AttemptFails ==
    /\ attempts' = attempts + 1 /\ phase' = "loop" /\ Dropped
    /\ began' = NoKeys /\ UNCHANGED <<sup, env, answer>>

BudgetSpent ==
    /\ phase = "loop" /\ ~MayTry
    /\ Refuse("exhausted") /\ UNCHANGED troubles /\ Outside

\* After the backoff.
Attempt ==
    /\ phase = "loop" /\ MayTry
    /\ phase' = "resolve" /\ began' = Keys
    /\ UNCHANGED <<sup, attempts, env, answer, worker, live>>
    /\ UNCHANGED troubles /\ Outside

FreshEnv == WorkerEnv(captured, Keys)

\* The environment of this spawn, from the keys of this moment.
Resolve ==
    /\ phase = "resolve"
    /\ IF FreshEnv.ok
       THEN phase' = "spawn" /\ env' = FreshEnv
            /\ UNCHANGED <<sup, attempts, began, answer, worker, live>>
       ELSE Refuse(FreshEnv.why)
    /\ UNCHANGED troubles /\ Outside

\* No answer is retryable, a denial is not.
ResolveFails ==
    /\ phase = "resolve" /\ KeychainAsked
    /\ AttemptFails \/ Refuse("denied")
    /\ Trouble /\ Outside

\* The worker can be launched at all.
Launches == runtime # "missing"

\* WorkerProcess::start until the port answers: the child is there ...
Spawn ==
    /\ phase = "spawn" /\ Launches /\ WorkerAccepts(env)
    /\ phase' = "gate" /\ live' = 1
    /\ worker' = [own |-> TRUE, route |-> Routing(env), key |-> env.key, alive |-> TRUE]
    /\ UNCHANGED <<sup, attempts, env, began, answer>>
    /\ UNCHANGED troubles /\ Outside

\* ... or cannot be launched, or exits over its configuration ...
SpawnFails ==
    /\ phase = "spawn" /\ ~(Launches /\ WorkerAccepts(env))
    /\ AttemptFails /\ UNCHANGED troubles /\ Outside

\* ... or somebody else got the port between the pick and the bind.
SpawnOntoStranger ==
    /\ phase = "spawn" /\ Launches
    /\ phase' = "gate" /\ live' = 0
    /\ worker' = [NoWorker EXCEPT !.alive = TRUE]
    /\ UNCHANGED <<sup, attempts, env, began, answer>>
    /\ Trouble /\ Outside

\* The health status, all the core checks of who answers.  It sends its session
\* token along, and a worker refuses one that is not its own: that nothing else
\* on the port says "ok" in the worker's form is assumed ...
Healthy == Alive /\ worker.own

\* ... and the protocol's version make a worker ready.
Compatible == runtime # "incompatible"

Ready ==
    /\ phase = "gate" /\ Healthy /\ Compatible
    /\ sup' = "ready" /\ attempts' = 0 /\ phase' = "rest" /\ answer' = "ok"
    /\ env' = EmptyEnv /\ began' = NoKeys
    /\ UNCHANGED <<worker, live>>
    /\ UNCHANGED troubles /\ Outside

\* A refused token and an answer that is not the worker's are not retryable.
Refusal == IF Healthy THEN "incompatible" ELSE "stranger"

GateRefuses ==
    /\ phase = "gate" /\ Alive /\ ~(Healthy /\ Compatible)
    /\ Refuse(Refusal)
    /\ UNCHANGED troubles /\ Outside

GateFails ==
    /\ phase = "gate" /\ ~Alive
    /\ AttemptFails /\ UNCHANGED troubles /\ Outside

\* The child runs but does not answer in time.
GateTimesOut ==
    /\ phase = "gate" /\ Alive
    /\ AttemptFails /\ Trouble /\ Outside

-----------------------------------------------------------------------------
(* Around it.                                                              *)

WorkerDies ==
    /\ Alive
    /\ worker' = [worker EXCEPT !.alive = FALSE]
    /\ live' = IF worker.own THEN 0 ELSE live
    /\ Trouble
    /\ UNCHANGED <<sup, attempts, phase, env, began, answer>> /\ Outside

\* The user installs, breaks or updates the worker while none runs.
Install ==
    /\ ~Alive
    /\ runtime' \in {"missing", "incompatible", "ok"} \ {runtime}
    /\ Trouble
    /\ UNCHANGED <<settings, session, sessions>>

StartCore ==
    /\ sessions < MaxSessions /\ sessions' = sessions + 1
    /\ CaptureConfig /\ UNCHANGED <<session, runtime, troubles>>

\* What becomes of a child whose core is gone is the system's business.
StopCore == ReleaseConfig /\ Rested /\ UNCHANGED <<runtime, troubles, sessions>>

User == (PutConfig \/ EditFile \/ SetKey \/ LoseKey)
        /\ UNCHANGED <<session, runtime, troubles, sessions>>

StartStep == BudgetSpent \/ Attempt \/ Resolve \/ Spawn \/ SpawnFails
             \/ Ready \/ GateRefuses \/ GateFails

Next == Call \/ StartStep \/ ResolveFails \/ SpawnOntoStranger \/ GateTimesOut
        \/ WorkerDies \/ Install \/ StartCore \/ StopCore \/ User

\* The thread inside ensure_started runs on.
Spec == Init /\ [][Next]_vars /\ WF_vars(StartStep)

-----------------------------------------------------------------------------
\* A worker the core calls ready is its own child, and with a provider
\* configured every language role goes to that provider, with a key: never to
\* the offline mocks nor the worker's own defaults (worker_provider_env, from_env
\* and build_worker_config, which meet only in the environment's variables).
ReadyWorkerServesConfigured ==
    sup = "ready" =>
        /\ worker.own
        /\ captured.providers # {} => worker.route = "configured" /\ worker.key # 0
        /\ captured.providers = {} => worker.route = "offline"

\* A worker started by a call has no older key than the store had when that
\* attempt began (EnvSource: "resolved at spawn time").
KeyIsCurrent ==
    phase = "gate" /\ worker.own =>
        \A p \in captured.providers : worker.key >= began[p.ref]

\* A child of the core runs only while a transport holds it: none outlives a
\* failed start, and there are never two (WorkerProcess is killed on drop).
NoStrayChild ==
    /\ live = (IF worker.own /\ worker.alive THEN 1 ELSE 0)
    /\ phase = "rest" /\ sup # "ready" => live = 0

\* A start leaves neither a child nor an old key behind, wherever it ends.
SessionInv == TypeOK /\ NoStrayChild /\ KeyIsCurrent

\* Every call comes back, with a worker or without (the restart budget).
EveryCallReturns == phase # "rest" ~> phase = "rest"
=============================================================================
