---------------------------- MODULE WorkerProofs ----------------------------
(***************************************************************************)
(* The worker, in two parts.                                               *)
(*                                                                         *)
(* WorkerSession, for any providers, configurations, keys and bounds: a    *)
(* ready worker serves the configuration the core captured, and a start    *)
(* leaves neither a child nor an old key behind.                           *)
(*                                                                         *)
(* ResearchStages, for any plan, sources, findings, judge, pool and number *)
(* of attempts: what the tasks keep fits together whenever it is fetched,  *)
(* a run completes over all its sources and without a hidden conflict, and *)
(* its loop always has something to do or something to blame.              *)
(***************************************************************************)
EXTENDS WorkerSession, ResearchStages, FiniteSetTheorems, TLAPS

-----------------------------------------------------------------------------
(* A start of the worker.                                                  *)

\* What an environment does with the roles under a configuration.
EnvServes(e, c) ==
    /\ c.providers # {} => Routing(e) = "configured" /\ e.key # 0
    /\ c.providers = {} => Routing(e) = "offline"

\* What a child started with such an environment does with them.
WorkerServes(w, c) ==
    /\ c.providers # {} => w.route = "configured" /\ w.key # 0
    /\ c.providers = {} => w.route = "offline"

WorkerIsRecord ==
    worker = [own |-> worker.own, route |-> worker.route, key |-> worker.key,
              alive |-> worker.alive]

\* A start is made for one configuration from its environment to its answer:
\* no core captures another while a call is under way or a worker is there.
ServeInv ==
    /\ WorkerIsRecord
    /\ ~Up => phase = "rest" /\ sup = "stopped"
    /\ phase # "rest" => sup # "ready"
    /\ phase = "spawn" => EnvServes(env, captured)
    /\ phase = "gate" /\ worker.own => WorkerServes(worker, captured)
    /\ sup = "ready" => worker.own /\ WorkerServes(worker, captured)

\* The environment of a worker names a provider and routes the roles to it, or
\* neither (worker_provider_env).
LEMMA EnvironmentServes ==
    ASSUME NEW c, NEW keys, WorkerEnv(c, keys).ok PROVE EnvServes(WorkerEnv(c, keys), c)
<1>1. CASE c.providers = {}
  BY <1>1 DEF WorkerEnv, EmptyEnv, EnvServes, Routing
<1>2. CASE c.providers # {}
  <2> DEFINE p == TheOne(c.providers)
  <2>1. ~ (Cardinality(c.providers) > 1) /\ keys[p.ref] # 0
    BY <1>2 DEF WorkerEnv, Refused
  <2>2. WorkerEnv(c, keys) = [ok |-> TRUE, providers |-> {p}, roles |-> {p.name},
                              key |-> keys[p.ref]]
    BY <1>2, <2>1 DEF WorkerEnv
  <2> QED
    BY <1>2, <2>1, <2>2 DEF EnvServes, Routing
<1> QED
  BY <1>1, <1>2

\* It holds before the first start.
LEMMA InitHoldsServeInv == Init => ServeInv
BY DEF Init, ServeInv, WorkerIsRecord, NoWorker

\* ensure_started: what it is about to launch, has launched, or calls ready.
LEMMA StartKeepsServeInv ==
    ASSUME ServeInv, Call \/ StartStep \/ ResolveFails \/ SpawnOntoStranger \/ GateTimesOut
    PROVE  ServeInv'
<1> USE DEF ServeInv, WorkerIsRecord, WorkerServes, Up, Outside, settings
<1>1. CASE Call
  BY <1>1 DEF Call, NoWorker
<1>2. ASSUME NEW why, Refuse(why), Outside, phase # "rest" PROVE ServeInv'
  BY <1>2 DEF Refuse, Dropped, NoWorker
<1>3. ASSUME AttemptFails, Outside, phase # "rest" PROVE ServeInv'
  BY <1>3 DEF AttemptFails, Dropped, NoWorker
<1>4. CASE BudgetSpent
  BY <1>4, <1>2 DEF BudgetSpent
<1>5. CASE Attempt
  BY <1>5 DEF Attempt
<1>6. CASE Resolve
  <2>1. CASE FreshEnv.ok
    BY <1>6, <2>1, EnvironmentServes DEF Resolve, FreshEnv, EnvServes
  <2>2. CASE ~ FreshEnv.ok
    BY <1>6, <2>2, <1>2 DEF Resolve
  <2> QED
    BY <2>1, <2>2
<1>7. CASE ResolveFails
  BY <1>7, <1>2, <1>3 DEF ResolveFails
<1>8. CASE Spawn
  BY <1>8 DEF Spawn, EnvServes
<1>9. CASE SpawnFails
  BY <1>9, <1>3 DEF SpawnFails
<1>10. CASE SpawnOntoStranger
  BY <1>10 DEF SpawnOntoStranger, NoWorker
<1>11. CASE Ready
  BY <1>11 DEF Ready, Healthy
<1>12. CASE GateRefuses
  BY <1>12, <1>2 DEF GateRefuses
<1>13. CASE GateFails \/ GateTimesOut
  BY <1>13, <1>3 DEF GateFails, GateTimesOut
<1> QED
  BY <1>1, <1>4, <1>5, <1>6, <1>7, <1>8, <1>9, <1>10, <1>11, <1>12, <1>13 DEF StartStep

\* Around it: the child may die, the core go, another configuration come, but
\* not under a worker or a call.
LEMMA AroundKeepsServeInv ==
    ASSUME ServeInv, WorkerDies \/ Install \/ StartCore \/ StopCore \/ User
    PROVE  ServeInv'
<1> USE DEF ServeInv, WorkerIsRecord, WorkerServes, EnvServes, Up
<1>1. CASE WorkerDies
  BY <1>1 DEF WorkerDies, Outside, settings
<1>2. CASE Install
  BY <1>2 DEF Install, settings, session
<1>3. CASE StartCore
  BY <1>3 DEF StartCore, CaptureConfig, session
<1>4. CASE StopCore
  BY <1>4 DEF StopCore, ReleaseConfig, Rested, NoWorker
<1>5. CASE User
  BY <1>5 DEF User, PutConfig, EditFile, SetKey, LoseKey, session
<1> QED
  BY <1>1, <1>2, <1>3, <1>4, <1>5

\* For every configuration, however its keys come and go: a worker the core
\* calls ready is its own child and routes every language role to the one
\* configured provider, with a key, or is offline when none is configured
\* (worker_provider_env, from_env, build_worker_config).
THEOREM ReadyWorkerServes == Spec => []ReadyWorkerServesConfigured
<1>1. Init => ServeInv
  BY InitHoldsServeInv
<1>2. ServeInv /\ [Next]_vars => ServeInv'
  <2> SUFFICES ASSUME ServeInv, [Next]_vars PROVE ServeInv'
    OBVIOUS
  <2>1. CASE UNCHANGED vars
    BY <2>1 DEF vars, settings, session, ServeInv, WorkerIsRecord, WorkerServes,
                EnvServes, Up
  <2> QED
    BY <2>1, StartKeepsServeInv, AroundKeepsServeInv DEF Next
<1>3. ServeInv => ReadyWorkerServesConfigured
  BY DEF ServeInv, WorkerServes, ReadyWorkerServesConfigured
<1> QED
  BY <1>1, <1>2, <1>3, PTL DEF Spec

-----------------------------------------------------------------------------
\* An environment is made of what its configuration lists and of a stored key.
EnvIsTyped ==
    env \in [ok : {TRUE}, providers : SUBSET Provider, roles : SUBSET Names, key : 0 .. MaxKeys]

\* An attempt under way is within the restart budget.
AttemptIsWithinBudget == phase \in {"resolve", "spawn", "gate"} => attempts < MaxRestarts

\* Keys are numbered by the calls that stored them.
KeysAreStored ==
    \A n \in Reference : osKeys[n] <= keyCount /\ memKeys[n] <= keyCount /\ began[n] <= keyCount

\* A key is lost or replaced by a later one, and the environment is made of what
\* is there when it is resolved.
KeyFits ==
    /\ phase = "resolve" => \A n \in Reference : Keys[n] = 0 \/ Keys[n] >= began[n]
    /\ phase = "spawn" => \A p \in captured.providers : env.key >= began[p.ref]
    /\ KeyIsCurrent

\* The inductive invariant of a session: an attempt is within its budget, with an
\* environment made of keys no older than those the attempt began with.
SessionIInv ==
    /\ TypeOK /\ EnvIsTyped /\ ServeInv /\ NoStrayChild
    /\ AttemptIsWithinBudget /\ KeysAreStored /\ KeyFits

\* A configuration with providers but not more than one has the one the
\* environment is made for (worker_provider_env).
LEMMA OnlyProvider ==
    ASSUME NEW P, IsFiniteSet(P), P # {}, ~ (Cardinality(P) > 1)
    PROVE  P = {TheOne(P)}
<1>1. Cardinality(P) \in Nat
  BY FS_CardinalityType
<1>2. Cardinality(P) # 0
  BY FS_EmptySet
<1>3. Cardinality(P) = 1
  BY <1>1, <1>2
<1>4. \E x : P = {x}
  BY <1>3, FS_Singleton
<1> QED
  BY <1>4 DEF TheOne

\* A resolved environment has the key of the only provider's reference, and there
\* is such a key.
LEMMA EnvironmentIsMade ==
    ASSUME NEW c \in Configs \cup {NoCore}, NEW keys \in [Reference -> 0 .. MaxKeys],
           WorkerEnv(c, keys).ok
    PROVE  /\ WorkerEnv(c, keys) \in
                 [ok : {TRUE}, providers : SUBSET Provider, roles : SUBSET Names, key : 0 .. MaxKeys]
           /\ \A p \in c.providers : WorkerEnv(c, keys).key = keys[p.ref] /\ keys[p.ref] # 0
<1>1. c.providers \subseteq Provider /\ IsFiniteSet(c.providers)
  <2>1. CASE c \in Configs
    BY <2>1, ConfigAssumption DEF Config
  <2>2. CASE c = NoCore
    BY <2>2, FS_EmptySet DEF NoCore
  <2> QED
    BY <2>1, <2>2
<1>2. CASE c.providers = {}
  BY <1>2, ConfigAssumption DEF WorkerEnv, EmptyEnv
<1>3. CASE c.providers # {}
  <2> DEFINE q == TheOne(c.providers)
  <2>1. ~ (Cardinality(c.providers) > 1) /\ keys[q.ref] # 0
    BY <1>3 DEF WorkerEnv, Refused
  <2>2. WorkerEnv(c, keys) = [ok |-> TRUE, providers |-> {q}, roles |-> {q.name},
                              key |-> keys[q.ref]]
    BY <1>3, <2>1 DEF WorkerEnv
  <2>3. c.providers = {q}
    BY <1>1, <1>3, <2>1, OnlyProvider
  <2>4. q \in Provider /\ q.name \in Names /\ keys[q.ref] \in 0 .. MaxKeys
    BY <1>1, <2>3 DEF Provider, Reference
  <2> HIDE DEF q
  <2>5. WorkerEnv(c, keys).key = keys[q.ref]
    BY <2>2
  <2> QED
    BY <2>1, <2>2, <2>3, <2>4, <2>5
<1> QED
  BY <1>2, <1>3

\* Nothing runs at first.
LEMMA InitHoldsSessionIInv == Init => SessionIInv
<1> SUFFICES ASSUME Init PROVE SessionIInv
  OBVIOUS
<1>1. NoKeys \in [Reference -> 0 .. MaxKeys] /\ \A n \in Reference : NoKeys[n] = 0
  BY ConfigAssumption DEF NoKeys
<1>2. TypeOK
  BY <1>1, ConfigAssumption, SessionAssumption
     DEF Init, TypeOK, SettingsInit, SettingsTypeOK, NoWorker, SupervisorState, Answers
<1>3. EnvIsTyped
  BY ConfigAssumption DEF Init, EnvIsTyped, EmptyEnv
<1> QED
  BY <1>1, <1>2, <1>3, InitHoldsServeInv
     DEF Init, SettingsInit, SessionIInv, NoStrayChild, NoWorker, AttemptIsWithinBudget,
         KeysAreStored, KeyFits, KeyIsCurrent

\* The steps of ensure_started keep it: what is spawned or let go of, and with
\* which key.
LEMMA StartKeepsSessionIInv ==
    ASSUME SessionIInv, Call \/ StartStep \/ ResolveFails \/ SpawnOntoStranger \/ GateTimesOut
    PROVE  SessionIInv'
<1> USE ConfigAssumption, SessionAssumption
<1>1. ServeInv'
  BY StartKeepsServeInv DEF SessionIInv
<1>2. UNCHANGED settings /\ UNCHANGED runtime /\ UNCHANGED sessions
  BY DEF Call, StartStep, ResolveFails, SpawnOntoStranger, GateTimesOut, BudgetSpent, Attempt,
         Resolve, Spawn, SpawnFails, Ready, GateRefuses, GateFails, Outside
<1>3. troubles' \in 0 .. MaxTroubles
  <2>1. troubles' = troubles \/ Trouble
    BY DEF Call, StartStep, ResolveFails, SpawnOntoStranger, GateTimesOut, BudgetSpent, Attempt,
           Resolve, Spawn, SpawnFails, Ready, GateRefuses, GateFails
  <2> QED
    BY <2>1 DEF SessionIInv, TypeOK, Trouble
<1>4. NoKeys \in [Reference -> 0 .. MaxKeys] /\ (\A n \in Reference : NoKeys[n] = 0)
      /\ keyCount \in 0 .. MaxKeys /\ keyCount' = keyCount /\ osKeys' = osKeys /\ memKeys' = memKeys
      /\ captured' = captured
  BY <1>2 DEF NoKeys, SessionIInv, TypeOK, SettingsTypeOK, settings
<1>5. Keys \in [Reference -> 0 .. MaxKeys] /\ (\A n \in Reference : Keys[n] <= keyCount)
      /\ captured \in Configs \cup {NoCore}
  BY DEF SessionIInv, TypeOK, SettingsTypeOK, KeysAreStored, Keys
<1>6. ASSUME phase' \in {"rest", "loop"}, answer' \in Answers, began' \in {began, NoKeys},
             env' \in {env, EmptyEnv}, sup' \in SupervisorState, attempts' \in 0 .. MaxRestarts,
             \/ worker' = NoWorker /\ live' = 0
             \/ UNCHANGED <<worker, live>> /\ sup' = "ready"
      PROVE  SessionIInv'
  <2>1. SettingsTypeOK' /\ EmptyEnv \in [ok : {TRUE}, providers : SUBSET Provider,
                                        roles : SUBSET Names, key : 0 .. MaxKeys]
    BY <1>2 DEF SessionIInv, TypeOK, SettingsTypeOK, settings, EmptyEnv
  <2>2. EnvIsTyped'
    BY <1>6, <2>1 DEF SessionIInv, EnvIsTyped
  <2>3. env'.ok /\ env'.providers \subseteq Provider
    BY <2>2 DEF EnvIsTyped
  <2>4. began' \in [Reference -> 0 .. MaxKeys] /\ \A n \in Reference : began'[n] <= keyCount
    BY <1>4, <1>6 DEF SessionIInv, TypeOK, KeysAreStored
  <2>5. /\ worker' \in [own : BOOLEAN, alive : BOOLEAN, key : 0 .. MaxKeys,
                        route : {"none", "offline", "default", "configured"}]
        /\ live' \in 0 .. 1
    <3>1. CASE worker' = NoWorker /\ live' = 0
      BY <3>1, <1>4 DEF NoWorker
    <3>2. CASE worker' = worker /\ live' = live
      BY <3>2 DEF SessionIInv, TypeOK
    <3> QED
      BY <1>6, <3>1, <3>2
  <2>6. TypeOK'
    BY <1>2, <1>3, <1>6, <2>1, <2>3, <2>4, <2>5 DEF SessionIInv, TypeOK
  <2>7. NoStrayChild' /\ AttemptIsWithinBudget' /\ KeyFits'
    BY <1>6 DEF SessionIInv, NoStrayChild, NoWorker, AttemptIsWithinBudget, KeyFits, KeyIsCurrent
  <2>8. KeysAreStored'
    BY <1>4, <2>4 DEF SessionIInv, KeysAreStored
  <2> QED
    BY <1>1, <2>2, <2>6, <2>7, <2>8 DEF SessionIInv
<1>7. CASE Call
  <2>1. CASE sup = "ready" /\ Alive
    BY <1>6, <1>7, <2>1 DEF Call, SessionIInv, TypeOK, Answers
  <2>2. CASE ~ (sup = "ready" /\ Alive)
    <3>1. live = 0
      BY <1>7, <2>2 DEF Call, SessionIInv, NoStrayChild, Alive
    <3> QED
      BY <1>6, <1>7, <2>2, <3>1 DEF Call, SessionIInv, TypeOK, Answers, SupervisorState
  <2> QED
    BY <2>1, <2>2
<1>8. ASSUME NEW why \in Answers, Refuse(why) PROVE SessionIInv'
  BY <1>6, <1>8 DEF Refuse, Dropped, SessionIInv, TypeOK, SupervisorState
<1>9. ASSUME AttemptFails, phase \in {"resolve", "spawn", "gate"} PROVE SessionIInv'
  <2>1. attempts' \in 0 .. MaxRestarts
    BY <1>9 DEF AttemptFails, SessionIInv, TypeOK, AttemptIsWithinBudget
  <2> QED
    BY <1>6, <1>9, <2>1 DEF AttemptFails, Dropped, SessionIInv, TypeOK
<1>10. CASE BudgetSpent
  BY <1>8, <1>10 DEF BudgetSpent, Answers
<1>11. CASE Attempt
  <2>1. /\ phase = "loop" /\ attempts < MaxRestarts /\ phase' = "resolve" /\ began' = Keys
        /\ UNCHANGED <<sup, attempts, env, answer, worker, live>>
    BY <1>11 DEF Attempt, MayTry
  <2>2. TypeOK'
    BY <1>2, <1>3, <1>5, <2>1 DEF SessionIInv, TypeOK, SettingsTypeOK, settings
  <2>3. Keys' = Keys
    BY <1>4 DEF Keys
  <2>4. KeyFits'
    <3>1. \A n \in Reference : Keys'[n] >= began'[n]
      BY <1>5, <2>1, <2>3
    <3> QED
      BY <2>1, <3>1 DEF KeyFits, KeyIsCurrent
  <2>5. EnvIsTyped' /\ AttemptIsWithinBudget' /\ NoStrayChild' /\ KeysAreStored'
    BY <1>4, <1>5, <2>1 DEF SessionIInv, EnvIsTyped, AttemptIsWithinBudget, NoStrayChild, KeysAreStored
  <2> QED
    BY <1>1, <2>2, <2>4, <2>5 DEF SessionIInv
<1>12. CASE Resolve
  <2>1. CASE FreshEnv.ok
    <3>1. /\ phase = "resolve" /\ phase' = "spawn" /\ env' = FreshEnv
          /\ UNCHANGED <<sup, attempts, began, answer, worker, live>>
      BY <1>12, <2>1 DEF Resolve
    <3>2. EnvIsTyped' /\ \A p \in captured.providers : env'.key = Keys[p.ref] /\ Keys[p.ref] # 0
      BY <1>5, <2>1, <3>1, EnvironmentIsMade DEF FreshEnv, EnvIsTyped
    <3>3. TypeOK'
      BY <1>2, <1>3, <3>1, <3>2 DEF SessionIInv, TypeOK, SettingsTypeOK, settings, EnvIsTyped
    <3>4. \A p \in captured.providers : p.ref \in Reference
      <4>1. CASE captured \in Configs
        BY <4>1 DEF Config, Provider
      <4>2. CASE captured = NoCore
        BY <4>2 DEF NoCore
      <4> QED
        BY <1>5, <4>1, <4>2
    <3>5. KeyFits'
      BY <1>4, <3>1, <3>2, <3>4 DEF SessionIInv, KeyFits, KeyIsCurrent
    <3>6. AttemptIsWithinBudget' /\ NoStrayChild' /\ KeysAreStored'
      BY <1>4, <3>1 DEF SessionIInv, AttemptIsWithinBudget, NoStrayChild, KeysAreStored
    <3> QED
      BY <1>1, <3>2, <3>3, <3>5, <3>6 DEF SessionIInv
  <2>2. CASE ~ FreshEnv.ok
    <3>1. FreshEnv.why \in Answers
      BY <2>2 DEF FreshEnv, WorkerEnv, EmptyEnv, Refused, Answers
    <3> QED
      BY <1>8, <1>12, <2>2, <3>1 DEF Resolve
  <2> QED
    BY <2>1, <2>2
<1>13. CASE ResolveFails
  BY <1>8, <1>9, <1>13 DEF ResolveFails, Answers
<1>14. CASE Spawn
  <2>1. /\ phase = "spawn" /\ phase' = "gate" /\ live' = 1
        /\ worker' = [own |-> TRUE, route |-> Routing(env), key |-> env.key, alive |-> TRUE]
        /\ UNCHANGED <<sup, attempts, env, began, answer>>
    BY <1>14 DEF Spawn
  <2>2. env.key \in 0 .. MaxKeys /\ Routing(env) \in {"none", "offline", "default", "configured"}
    BY DEF SessionIInv, EnvIsTyped, Routing
  <2>3. TypeOK'
    BY <1>2, <1>3, <2>1, <2>2 DEF SessionIInv, TypeOK, SettingsTypeOK, settings
  <2>4. KeyFits' /\ NoStrayChild' /\ AttemptIsWithinBudget'
    BY <1>4, <2>1 DEF SessionIInv, KeyFits, KeyIsCurrent, NoStrayChild, AttemptIsWithinBudget
  <2>5. EnvIsTyped' /\ KeysAreStored'
    BY <1>4, <2>1 DEF SessionIInv, EnvIsTyped, KeysAreStored
  <2> QED
    BY <1>1, <2>3, <2>4, <2>5 DEF SessionIInv
<1>15. CASE SpawnFails
  BY <1>9, <1>15 DEF SpawnFails
<1>16. CASE SpawnOntoStranger
  <2>1. /\ phase = "spawn" /\ phase' = "gate" /\ live' = 0
        /\ worker' = [own |-> FALSE, route |-> "none", key |-> 0, alive |-> TRUE]
        /\ UNCHANGED <<sup, attempts, env, began, answer>>
    BY <1>16 DEF SpawnOntoStranger, NoWorker
  <2>2. TypeOK'
    BY <1>2, <1>3, <2>1 DEF SessionIInv, TypeOK, SettingsTypeOK, settings
  <2>3. KeyFits' /\ NoStrayChild' /\ AttemptIsWithinBudget' /\ EnvIsTyped' /\ KeysAreStored'
    BY <1>4, <2>1 DEF SessionIInv, KeyFits, KeyIsCurrent, NoStrayChild, AttemptIsWithinBudget,
                      EnvIsTyped, KeysAreStored
  <2> QED
    BY <1>1, <2>2, <2>3 DEF SessionIInv
<1>17. CASE Ready
  BY <1>6, <1>17 DEF Ready, SupervisorState, Answers
<1>18. CASE GateRefuses
  BY <1>8, <1>18 DEF GateRefuses, Refusal, Answers
<1>19. CASE GateFails \/ GateTimesOut
  BY <1>9, <1>19 DEF GateFails, GateTimesOut
<1> QED
  BY <1>7, <1>10, <1>11, <1>12, <1>13, <1>14, <1>15, <1>16, <1>17, <1>18, <1>19 DEF StartStep

\* The child's death, the installation, the core and the user keep it too.
LEMMA AroundKeepsSessionIInv ==
    ASSUME SessionIInv, WorkerDies \/ Install \/ StartCore \/ StopCore \/ User
    PROVE  SessionIInv'
<1> USE ConfigAssumption, SessionAssumption
<1>1. ServeInv'
  BY AroundKeepsServeInv DEF SessionIInv
<1>2. CASE WorkerDies
  <2>1. /\ worker' = [own |-> worker.own, route |-> worker.route, key |-> worker.key, alive |-> FALSE]
        /\ live' = (IF worker.own THEN 0 ELSE live) /\ Trouble /\ worker.alive
        /\ UNCHANGED <<sup, attempts, phase, env, began, answer>> /\ Outside
    BY <1>2 DEF WorkerDies, Alive, SessionIInv, ServeInv, WorkerIsRecord
  <2>2. TypeOK'
    BY <2>1 DEF SessionIInv, TypeOK, SettingsTypeOK, settings, Outside, Trouble
  <2>3. NoStrayChild' /\ KeyFits'
    BY <2>1 DEF SessionIInv, NoStrayChild, KeyFits, KeyIsCurrent, Keys, Outside, settings
  <2>4. AttemptIsWithinBudget' /\ EnvIsTyped' /\ KeysAreStored'
    BY <2>1 DEF SessionIInv, AttemptIsWithinBudget, EnvIsTyped, KeysAreStored, Outside, settings
  <2> QED
    BY <1>1, <2>2, <2>3, <2>4 DEF SessionIInv
<1>3. CASE Install
  <2>1. UNCHANGED <<settings, session, sessions>> /\ Trouble /\ runtime' \in {"missing", "incompatible", "ok"}
    BY <1>3 DEF Install
  <2>2. TypeOK'
    BY <2>1 DEF SessionIInv, TypeOK, SettingsTypeOK, settings, session, Trouble
  <2>3. NoStrayChild' /\ KeyFits' /\ AttemptIsWithinBudget' /\ EnvIsTyped' /\ KeysAreStored'
    BY <2>1 DEF SessionIInv, NoStrayChild, KeyFits, KeyIsCurrent, Keys, AttemptIsWithinBudget,
                EnvIsTyped, KeysAreStored, settings, session
  <2> QED
    BY <1>1, <2>2, <2>3 DEF SessionIInv
<1>4. NoKeys \in [Reference -> 0 .. MaxKeys] /\ \A n \in Reference : NoKeys[n] = 0
  BY DEF NoKeys
<1>5. CASE StartCore
  <2>1. /\ ~Up /\ captured' = file /\ memKeys' = NoKeys /\ UNCHANGED <<file, osKeys, keyCount>>
        /\ sessions' = sessions + 1 /\ sessions < MaxSessions
        /\ UNCHANGED <<session, runtime, troubles>>
    BY <1>5 DEF StartCore, CaptureConfig
  <2>2. TypeOK'
    BY <1>4, <2>1 DEF SessionIInv, TypeOK, SettingsTypeOK, session
  <2>3. phase = "rest"
    BY <2>1 DEF SessionIInv, ServeInv
  <2>4. NoStrayChild' /\ KeyFits' /\ AttemptIsWithinBudget' /\ EnvIsTyped'
    BY <2>1, <2>3 DEF SessionIInv, NoStrayChild, KeyFits, KeyIsCurrent, AttemptIsWithinBudget,
                EnvIsTyped, session
  <2>5. KeysAreStored'
    BY <1>4, <2>1 DEF SessionIInv, TypeOK, SettingsTypeOK, KeysAreStored, session
  <2> QED
    BY <1>1, <2>2, <2>4, <2>5 DEF SessionIInv
<1>6. CASE StopCore
  <2>1. /\ captured' = NoCore /\ memKeys' = NoKeys /\ UNCHANGED <<file, osKeys, keyCount>>
        /\ Rested /\ UNCHANGED <<runtime, troubles, sessions>>
    BY <1>6 DEF StopCore, ReleaseConfig
  <2>2. EnvIsTyped'
    BY <2>1 DEF EnvIsTyped, Rested, EmptyEnv
  <2>3. TypeOK'
    BY <1>4, <2>1 DEF SessionIInv, TypeOK, SettingsTypeOK, Rested, NoWorker, SupervisorState, Answers
  <2>4. NoStrayChild' /\ KeyFits' /\ AttemptIsWithinBudget'
    BY <2>1 DEF NoStrayChild, KeyFits, KeyIsCurrent, AttemptIsWithinBudget, Rested, NoWorker
  <2>5. KeysAreStored'
    BY <1>4, <2>1 DEF SessionIInv, TypeOK, SettingsTypeOK, KeysAreStored, Rested
  <2> QED
    BY <1>1, <2>2, <2>3, <2>4, <2>5 DEF SessionIInv
<1>7. CASE User
  <2>1. UNCHANGED <<session, runtime, troubles, sessions>>
    BY <1>7 DEF User
  <2>2. CASE PutConfig \/ EditFile
    <3>1. file' \in Configs /\ UNCHANGED <<captured, osKeys, memKeys, keyCount>>
      BY <2>2 DEF PutConfig, EditFile, Save
    <3>2. TypeOK'
      BY <2>1, <3>1 DEF SessionIInv, TypeOK, SettingsTypeOK, session
    <3>3. NoStrayChild' /\ KeyFits' /\ AttemptIsWithinBudget' /\ EnvIsTyped' /\ KeysAreStored'
      BY <2>1, <3>1 DEF SessionIInv, NoStrayChild, KeyFits, KeyIsCurrent, Keys, AttemptIsWithinBudget,
                  EnvIsTyped, KeysAreStored, session
    <3> QED
      BY <1>1, <3>2, <3>3 DEF SessionIInv
  <2>3. CASE SetKey \/ LoseKey
    <3>1. PICK n \in Reference, k \in {0, keyCount + 1} :
             /\ keyCount' = (IF k = 0 THEN keyCount ELSE keyCount + 1) /\ keyCount' <= MaxKeys
             /\ \/ osKeys' = [osKeys EXCEPT ![n] = k] /\ UNCHANGED memKeys
                \/ memKeys' = [memKeys EXCEPT ![n] = k] /\ UNCHANGED osKeys
             /\ UNCHANGED <<file, captured>>
      <4>1. CASE SetKey
        BY <4>1 DEF SetKey, Keep, Remember, SessionIInv, TypeOK, SettingsTypeOK
      <4>2. CASE LoseKey
        <5>1. PICK n \in Reference : osKeys' = [osKeys EXCEPT ![n] = 0]
          BY <4>2 DEF LoseKey, Reference
        <5>2. 0 \in {0, keyCount + 1} /\ keyCount' = keyCount /\ keyCount <= MaxKeys
              /\ UNCHANGED <<memKeys, file, captured>>
          BY <4>2 DEF LoseKey, SessionIInv, TypeOK, SettingsTypeOK
        <5> QED
          BY <5>1, <5>2
      <4> QED
        BY <2>3, <4>1, <4>2
    <3>2. keyCount \in Nat /\ keyCount <= keyCount' /\ keyCount' \in 0 .. MaxKeys /\ k \in 0 .. keyCount'
          /\ osKeys \in [Reference -> 0 .. MaxKeys] /\ memKeys \in [Reference -> 0 .. MaxKeys]
          /\ began \in [Reference -> 0 .. MaxKeys]
      BY <3>1 DEF SessionIInv, TypeOK, SettingsTypeOK
    <3>3. osKeys' \in [Reference -> 0 .. MaxKeys] /\ memKeys' \in [Reference -> 0 .. MaxKeys]
      BY <3>1, <3>2
    <3>4. \A m \in Reference : /\ osKeys'[m] \in {osKeys[m], k}
                               /\ memKeys'[m] \in {memKeys[m], k}
      BY <3>1, <3>2
    <3>5. TypeOK'
      BY <2>1, <3>1, <3>2, <3>3 DEF SessionIInv, TypeOK, SettingsTypeOK, session
    <3>6. KeysAreStored'
      <4>1. \A m \in Reference : osKeys[m] <= keyCount /\ memKeys[m] <= keyCount /\ began[m] <= keyCount
        BY DEF SessionIInv, KeysAreStored
      <4> QED
        BY <2>1, <3>2, <3>4, <4>1 DEF KeysAreStored, session
    <3>7. \A m \in Reference : Keys'[m] \in {Keys[m], k}
      BY <3>1, <3>4 DEF Keys
    <3>8. phase = "resolve" => \A m \in Reference : Keys'[m] = 0 \/ Keys'[m] >= began[m]
      <4>1. \A m \in Reference : began[m] <= keyCount
        BY DEF SessionIInv, KeysAreStored
      <4> QED
        BY <3>1, <3>2, <3>7, <4>1 DEF SessionIInv, KeyFits
    <3>9. KeyFits'
      BY <2>1, <3>1, <3>8 DEF SessionIInv, KeyFits, KeyIsCurrent, session
    <3>10. NoStrayChild' /\ AttemptIsWithinBudget' /\ EnvIsTyped'
      BY <2>1 DEF SessionIInv, NoStrayChild, AttemptIsWithinBudget, EnvIsTyped, session
    <3> QED
      BY <1>1, <3>5, <3>6, <3>9, <3>10 DEF SessionIInv
  <2> QED
    BY <1>7, <2>2, <2>3 DEF User
<1> QED
  BY <1>2, <1>3, <1>5, <1>6, <1>7

\* A start leaves neither a child nor an old key behind: no child runs that no
\* transport holds, there are never two, and a worker has no older key than the
\* store had when its attempt began (ensure_started, WorkerProcess::start).
THEOREM SessionInvHolds == Spec => []SessionInv
<1>1. SessionIInv /\ [Next]_vars => SessionIInv'
  <2> SUFFICES ASSUME SessionIInv, [Next]_vars PROVE SessionIInv'
    OBVIOUS
  <2>1. CASE UNCHANGED vars
    <3>1. /\ file' = file /\ captured' = captured /\ osKeys' = osKeys /\ memKeys' = memKeys
          /\ keyCount' = keyCount /\ sup' = sup /\ attempts' = attempts /\ phase' = phase
          /\ env' = env /\ began' = began /\ answer' = answer /\ worker' = worker /\ live' = live
          /\ runtime' = runtime /\ troubles' = troubles /\ sessions' = sessions
      BY <2>1 DEF vars, settings, session
    <3>2. TypeOK' /\ EnvIsTyped'
      BY <3>1 DEF SessionIInv, TypeOK, SettingsTypeOK, EnvIsTyped
    <3>3. ServeInv'
      BY <2>1 DEF SessionIInv, vars, settings, session, ServeInv, WorkerIsRecord, WorkerServes, EnvServes, Up
    <3>4. NoStrayChild' /\ AttemptIsWithinBudget' /\ KeysAreStored' /\ KeyFits'
      BY <3>1 DEF SessionIInv, NoStrayChild, AttemptIsWithinBudget, KeysAreStored, KeyFits,
                  KeyIsCurrent, Keys
    <3> QED
      BY <3>2, <3>3, <3>4 DEF SessionIInv
  <2> QED
    BY <2>1, StartKeepsSessionIInv, AroundKeepsSessionIInv DEF Next
<1>2. SessionIInv => SessionInv
  BY DEF SessionIInv, SessionInv, KeyFits
<1> QED
  BY <1>1, <1>2, InitHoldsSessionIInv, PTL DEF Spec

-----------------------------------------------------------------------------
(* The stages of a run: the inductive invariant.                           *)

Places == {"idle", "enter", "search", "persist", "ask", "nodes", "claims", "evidence",
           "validate", "write", "return", "stop", "store"}
Working == Places \ {"idle", "enter", "store"}

Job == [at : Places, todo : SUBSET RecordIds, now : SUBSET Sources, known : SUBSET Nodes,
        tries : 1 .. MaxTries]

StagesTypes ==
    /\ plan \in {"provided", "planned"}
    /\ status \in [AllTasks -> {"absent", "pending", "planning", "running", "completed",
                                "failed", "needs_review", "cancelled"}]
    /\ attempt \in [AllTasks -> 0 .. MaxAttempts] /\ due \subseteq AllTasks
    /\ result \in [AllTasks -> SUBSET RecordIds] /\ stored \subseteq AllTasks
    /\ job \in [AllTasks -> Job]

SinkTypes ==
    /\ source \in [Sources -> {"none", "found", "rated"}]
    /\ content \subseteq Sources /\ extraction \subseteq Sources /\ cached \subseteq Sources
    /\ node \in [Nodes -> SUBSET Sources]
    /\ claim \in [Claims -> [from : SUBSET Sources, review : BOOLEAN]]
    /\ evidence \in [Claims -> SUBSET Sources] /\ dropped \in [Sources -> SUBSET Claims]
    /\ notes \subseteq Nodes /\ flagged \subseteq Claims /\ torn \subseteq AllTasks
    /\ cancelled \in BOOLEAN /\ run \in {"running", "completed", "failed", "cancelled"}
    /\ failures \in 0 .. MaxFailures

\* Where the thread of a task can be.
PlaceFits(t) ==
    /\ status[t] = "planning" <=> job[t].at = "enter"
    /\ status[t] = "running" <=> job[t].at \in Working
    /\ job[t].at = "store" => status[t] \in {"completed", "needs_review"}
    /\ t \in stored => status[t] \in {"completed", "needs_review"}
    /\ status[t] = "completed" => t \in stored \/ job[t].at = "store"
    /\ job[t].at = "stop" => cancelled

KindFits(t) ==
    /\ job[t].at = "search" => Kind(t) \in Searches
    /\ job[t].at \in {"persist", "stop"} => Kind(t) \in Searches \cup {"evaluation"}
    /\ job[t].at = "ask" => Kind(t) \in {"evaluation", "extract"}
    /\ job[t].at = "nodes" => Kind(t) \in {"normalization", "normalize"}
    /\ job[t].at \in {"claims", "evidence"} => Kind(t) \in {"normalization", "claims"}
    /\ job[t].at = "validate" => t = Validate
    /\ job[t].at = "write" => t = Writer
    /\ job[t].at = "return" => Kind(t) \notin Searches \cup {"evaluation"}

Own(t) == t \in (IF plan = "provided" THEN Provided ELSE Static)
KeptSources  == {x \in Sources : source[x] # "none"}

\* The tasks of the plan are there, and those that a search has added.
PlanFits(t) ==
    /\ Own(t) => status[t] # "absent"
    /\ status[t] # "absent" /\ ~Own(t) =>
         plan = "planned" /\ Kind(t) = "extract" /\ t[3] \in KeptSources \cap content

\* The tasks whose attempts can fail.
MayFail(t) == Kind(t) \in Searches \cup {"evaluation", "extract"}

Started == {"planning", "running", "completed", "needs_review"}

StatusFits(t) ==
    /\ status[t] \in Started => \A u \in Depends(t) : status[u] = "completed"
    /\ t \in due => status[t] = "failed" /\ MayFail(t)
    /\ status[t] \in {"absent", "pending"} \/ t \in due => attempt[t] < MaxAttempts
    /\ status[t] = "cancelled" => cancelled
    /\ status[t] = "needs_review" => t = Validate
    /\ status[t] \in {"absent", "pending", "planning"} /\ ~MayFail(t) => result[t] = {}

Known == {n \in Nodes : node[n] # {}}
Made  == {c \in Claims : claim[c].from # {}}
Evidenced == {c \in Claims : evidence[c] # {}}

\* The claims whose evidence a handler is about to keep.
Written(t) == IF job[t].at = "evidence" THEN Resolved(t) ELSE {}

\* A claim of a result has its evidence, or will have when the handler is done.
ResultFits(t) ==
    \A i \in result[t] :
        \/ /\ i \in KeptSources
           /\ Kind(t) \in {"evaluation", "extract"} => i \in extraction \cap content
        \/ i \in Known
        \/ i \in Made /\ i \in Evidenced \cup Written(t)
        \/ i \in EvidenceIds /\ i[1] \in Evidenced

\* What a handler holds.
HeldFits(t) ==
    /\ Kind(t) = "evaluation" => job[t].todo \subseteq KeptSources
    /\ Kind(t) \in Searches => job[t].todo \subseteq Sources
    /\ Kind(t) \in {"normalization", "normalize", "claims"} =>
         job[t].todo \subseteq content \cap extraction
    /\ t = Validate => job[t].todo \subseteq Claims
    /\ t = Writer => job[t].todo \subseteq Nodes
    /\ job[t].at = "ask" =>
         \E x \in KeptSources \cap content : job[t].now = {x} /\ (Kind(t) = "extract" => x = t[3])
    /\ Kind(t) = "evaluation" /\ job[t].at = "persist" => job[t].now = {}
    /\ job[t].known \subseteq Known
    /\ job[t].at = "evidence" => Resolved(t) \subseteq Made

\* Nothing that a search of a section found is left out further on.
FoundFits(t) ==
    /\ Kind(t) = "search" =>
        /\ job[t].at = "persist" => Found("search", Section(t)) \subseteq result[t] \cup job[t].todo
        /\ status[t] = "completed" => Found("search", Section(t)) \subseteq result[t]
        /\ plan = "planned" =>
             \A x \in Found("search", Section(t)) :
                x \in result[t] => status[Extract(Section(t), x)] # "absent"
    /\ Kind(t) = "extract" /\ (job[t].at = "return" \/ status[t] = "completed") =>
         t[3] \in extraction
    /\ Kind(t) = "evaluation" /\ torn = {} =>
        /\ job[t].at \in {"persist", "ask"} =>
             Found("search", Section(t)) \subseteq extraction \cup job[t].todo \cup job[t].now
        /\ status[t] = "completed" => Found("search", Section(t)) \subseteq extraction

TaskFits(t) ==
    PlaceFits(t) /\ KindFits(t) /\ PlanFits(t) /\ StatusFits(t) /\ ResultFits(t)
    /\ HeldFits(t) /\ FoundFits(t)

RunFits ==
    /\ run # "running" => Inflight = {}
    /\ run = "completed" =>
         ~cancelled /\ \A t \in AllTasks : status[t] \notin {"failed", "pending", "cancelled"}

ClaimsFit == \A c \in Made : \E t \in FanIn : c \in result[t]

\* Validation is behind all claims, and what it has not flagged is no conflict.
ReviewFits ==
    /\ flagged # {} => \A u \in FanIn : status[u] = "completed"
    /\ torn = {} /\ job[Validate].at = "validate" => Made \subseteq job[Validate].todo
    /\ torn = {} /\ (job[Validate].at = "return"
                     \/ status[Validate] \in {"completed", "needs_review"}) =>
         Contested(Made) \subseteq flagged
    /\ status[Validate] = "completed" => flagged = {}

RecordsFit == ClaimsFit /\ ReviewFits /\ EvidenceIsGrounded /\ FlagsStay

StagesIInv ==
    StagesTypes /\ SinkTypes /\ (\A t \in AllTasks : TaskFits(t)) /\ RunFits /\ RecordsFit

-----------------------------------------------------------------------------
(* The tasks.                                                              *)

Kinds == {"search", "followup", "evaluation", "normalization", "normalize", "claims",
          "extract", "validate", "writer"}

\* A task is its kind, its section and its source, as far as it has them.
LEMMA TaskShape ==
    ASSUME NEW t \in AllTasks
    PROVE  /\ Kind(t) \in Kinds
           /\ Kind(t) = "validate" <=> t = Validate
           /\ Kind(t) = "writer" <=> t = Writer
           /\ t \notin Closing => Section(t) \in Sections
           /\ Kind(t) = "extract" <=> t \in Extracts
           /\ Kind(t) = "extract" => /\ t = Extract(Section(t), t[3])
                                     /\ t[3] \in Found("search", Section(t))
           /\ Kind(t) \notin {"extract", "validate", "writer"} => t = <<Kind(t), Section(t)>>
<1>1. CASE t \in Provided \cup Static
  <2>1. CASE t \in Closing
    BY <2>1 DEF Kind, Kinds, Closing, Validate, Writer, Extracts, Extract
  <2>2. CASE t \notin Closing
    <3> DEFINE T(K) == {<<k, s>> : k \in K, s \in Sections}
    <3>1. \/ t \in T({"search", "evaluation", "normalization"})
          \/ t \in T({"search", "normalize", "claims"})
          \/ t = <<"followup", First>>
      BY <1>1, <2>2 DEF Provided, Static
    <3>2. PICK k \in Kinds, s \in Sections :
              t = <<k, s>> /\ k \notin {"extract", "validate", "writer"}
      BY <3>1, StagesAssumption DEF Kinds
    <3> QED
      BY <2>2, <3>2 DEF Kind, Section, Closing, Validate, Writer, Extracts, Extract
  <2> QED
    BY <2>1, <2>2
<1>2. ASSUME NEW s \in Sections, NEW x \in Found("search", s), t = Extract(s, x)
      PROVE  /\ Kind(t) = "extract" /\ Section(t) = s /\ t[3] = x
             /\ t # Validate /\ t # Writer /\ t \in Extracts
  BY <1>2 DEF Extract, Kind, Section, Validate, Writer, Extracts
<1> QED
  BY <1>1, <1>2 DEF AllTasks, Extracts, Kinds, Closing

\* Which tasks a plan has of its own, by their kinds.
LEMMA OwnKinds ==
    ASSUME StagesTypes, NEW t \in AllTasks
    PROVE  /\ Own(t) => t \notin Extracts /\ Kind(t) # "extract"
           /\ Kind(t) \in {"search", "validate", "writer"} => Own(t)
           /\ Own(t) /\ plan = "planned" =>
                Kind(t) \notin {"followup", "evaluation", "normalization"}
           /\ Own(t) /\ plan = "provided" => Kind(t) \notin {"normalize", "claims"}
           /\ Kind(t) \in {"evaluation", "normalization"} /\ plan = "provided" => Own(t)
           /\ Kind(t) \in {"normalize", "claims"} /\ plan = "planned" => Own(t)
<1>1. plan \in {"provided", "planned"}
  BY DEF StagesTypes
<1>2. t \in Provided => Kind(t) \in {"search", "evaluation", "normalization", "followup",
                                    "validate", "writer"}
  BY DEF Provided, Closing, Validate, Writer, Kind
<1>3. t \in Static => Kind(t) \in {"search", "normalize", "claims", "validate", "writer"}
  BY DEF Static, Closing, Validate, Writer, Kind
<1>4. t \in Closing => t \in Provided /\ t \in Static
  BY DEF Provided, Static
<1>5. Kind(t) \in {"search", "evaluation", "normalization"} => t \in Provided
  BY TaskShape DEF Provided, Closing, Validate, Writer, Kind
<1>6. Kind(t) \in {"search", "normalize", "claims"} => t \in Static
  BY TaskShape DEF Static, Closing, Validate, Writer, Kind
<1>7. Kind(t) \in {"validate", "writer"} => t \in Closing
  BY TaskShape DEF Closing
<1> QED
  BY <1>1, <1>2, <1>3, <1>4, <1>5, <1>6, <1>7, TaskShape DEF Own

\* What a task depends on.
LEMMA DependsOn ==
    ASSUME StagesTypes, NEW t \in AllTasks
    PROVE  /\ Depends(Validate) = FanIn /\ Depends(Writer) = {Validate}
           /\ FanIn = {u \in AllTasks : Kind(u) \in {"normalization", "claims"}
                                       /\ status[u] # "absent"}
           /\ Kind(t) \in Searches => Depends(t) = {}
           /\ Kind(t) \in {"evaluation", "extract", "normalize"} =>
                Depends(t) = {<<"search", Section(t)>>}
           /\ Kind(t) = "normalization" => Depends(t) = {<<"evaluation", Section(t)>>}
           /\ Kind(t) = "claims" => Depends(t) = {<<"normalize", Section(t)>>}
<1>1. FanIn = {u \in AllTasks : Kind(u) \in {"normalization", "claims"} /\ status[u] # "absent"}
  BY DEF FanIn, Of
<1>2. Validate # Writer
  BY DEF Validate, Writer
<1>3. Depends(Validate) = FanIn /\ Depends(Writer) = {Validate}
  BY <1>2 DEF Depends
<1>4. ASSUME t # Validate, t # Writer
      PROVE  Depends(t) = {<<k, Section(t)>> : k \in Upstream(Kind(t))}
  BY <1>4 DEF Depends
<1>5. Kind(t) \notin {"validate", "writer"} => t # Validate /\ t # Writer
  BY TaskShape
<1>6. CASE Kind(t) \in Searches
  <2>1. Upstream(Kind(t)) = {}
    BY <1>6 DEF Upstream, Searches
  <2> QED
    BY <1>1, <1>3, <1>4, <1>5, <1>6, <2>1 DEF Searches
<1>7. CASE Kind(t) \in {"evaluation", "extract", "normalize"}
  <2>1. Upstream(Kind(t)) = {"search"}
    BY <1>7 DEF Upstream, Searches
  <2> QED
    BY <1>1, <1>3, <1>4, <1>5, <1>7, <2>1 DEF Searches
<1>8. CASE Kind(t) = "normalization"
  <2>1. Upstream(Kind(t)) = {"evaluation"}
    BY <1>8 DEF Upstream, Searches
  <2> QED
    BY <1>1, <1>3, <1>4, <1>5, <1>8, <2>1 DEF Searches
<1>9. CASE Kind(t) = "claims"
  <2>1. Upstream(Kind(t)) = {"normalize"}
    BY <1>9 DEF Upstream, Searches
  <2> QED
    BY <1>1, <1>3, <1>4, <1>5, <1>9, <2>1 DEF Searches
<1> QED
  BY <1>1, <1>3, <1>6, <1>7, <1>8, <1>9

\* The tasks of a section.
LEMMA SectionTasks ==
    ASSUME NEW s \in Sections,
           NEW k \in {"search", "evaluation", "normalization", "normalize", "claims"}
    PROVE  <<k, s>> \in AllTasks /\ Kind(<<k, s>>) = k /\ Section(<<k, s>>) = s
<1>1. k \in {"search", "evaluation", "normalization"} => <<k, s>> \in Provided
  BY DEF Provided
<1>2. k \in {"search", "normalize", "claims"} => <<k, s>> \in Static
  BY DEF Static
<1> QED
  BY <1>1, <1>2 DEF AllTasks, Kind, Section

\* The two at the end.
LEMMA ClosingTasks ==
    /\ Validate \in AllTasks /\ Writer \in AllTasks /\ Validate # Writer
    /\ Kind(Validate) = "validate" /\ Kind(Writer) = "writer"
BY DEF AllTasks, Provided, Closing, Validate, Writer, Kind

\* The tasks a search adds.
LEMMA ExtractTasks ==
    ASSUME NEW s \in Sections, NEW x \in Found("search", s)
    PROVE  /\ Extract(s, x) \in AllTasks /\ Kind(Extract(s, x)) = "extract"
           /\ Section(Extract(s, x)) = s /\ Extract(s, x)[3] = x
BY DEF AllTasks, Extracts, Extract, Kind, Section

\* A task depends on tasks.
LEMMA DependsAreTasks ==
    ASSUME StagesTypes, NEW t \in AllTasks
    PROVE  \A v \in Depends(t) : v \in AllTasks
<1>1. Kind(t) \in Kinds
  BY TaskShape
<1>2. CASE t = Validate
  BY <1>2, DependsOn
<1>3. CASE t = Writer
  BY <1>3, DependsOn, ClosingTasks
<1>4. CASE t # Validate /\ t # Writer
  <2>1. Section(t) \in Sections /\ Kind(t) \notin {"validate", "writer"}
    BY <1>4, TaskShape DEF Closing
  <2>2. /\ <<"search", Section(t)>> \in AllTasks /\ <<"evaluation", Section(t)>> \in AllTasks
        /\ <<"normalize", Section(t)>> \in AllTasks
    BY <2>1, SectionTasks
  <2>3. \/ Depends(t) = {} \/ Depends(t) = {<<"search", Section(t)>>}
        \/ Depends(t) = {<<"evaluation", Section(t)>>} \/ Depends(t) = {<<"normalize", Section(t)>>}
    BY <1>1, <2>1, DependsOn DEF Kinds, Searches
  <2> QED
    BY <2>2, <2>3
<1> QED
  BY <1>2, <1>3, <1>4

\* How far behind a search a task is.
Rank(t) ==
    IF t = Writer THEN 4 ELSE IF t = Validate THEN 3
    ELSE IF Kind(t) \in {"normalization", "claims"} THEN 2
    ELSE IF Kind(t) \in {"evaluation", "extract", "normalize"} THEN 1 ELSE 0

\* A task is behind what it depends on.
LEMMA DependsOnEarlier ==
    ASSUME StagesTypes, NEW t \in AllTasks, NEW u \in Depends(t)
    PROVE  u \in AllTasks /\ Rank(u) < Rank(t) /\ Rank(t) \in 0 .. 4
<1>1. u \in AllTasks
  BY DependsAreTasks
<1>2. Kind(t) \in Kinds
  BY TaskShape
<1>3. CASE t = Validate
  BY <1>1, <1>3, DependsOn, TaskShape, ClosingTasks DEF Rank
<1>4. CASE t = Writer
  BY <1>1, <1>4, DependsOn, ClosingTasks DEF Rank
<1>5. CASE t # Validate /\ t # Writer
  <2>1. Kind(t) \notin {"validate", "writer"}
    BY <1>5, TaskShape
  <2>2. Kind(t) \in {"evaluation", "extract", "normalize"} => Kind(u) = "search"
    BY DependsOn DEF Kind
  <2>3. Kind(t) \in {"normalization", "claims"} => Kind(u) \in {"evaluation", "normalize"}
    BY DependsOn DEF Kind
  <2>4. Kind(t) \notin Searches
    BY DependsOn
  <2> QED
    BY <1>1, <1>2, <1>5, <2>1, <2>2, <2>3, <2>4, TaskShape, ClosingTasks
       DEF Kinds, Searches, Rank
<1> QED
  BY <1>3, <1>4, <1>5

\* Four rounds reach every task behind a failed one, in any plan: no task
\* outside Below depends on one in it, so that the cascade of a failure
\* (downstream_ids) leaves nothing waiting for what will not complete.
THEOREM FailureReachesAllBehind ==
    ASSUME StagesTypes, NEW t \in AllTasks
    PROVE  WithDependents(Below({t})) = Below({t})
<1>1. ASSUME NEW S, NEW R, S \subseteq AllTasks, R \subseteq S, S = WithDependents(R)
      PROVE  /\ S \subseteq WithDependents(S) /\ WithDependents(S) \subseteq AllTasks
             /\ \A u \in WithDependents(S) \ S : \E v \in S \ R : Rank(v) < Rank(u)
  BY <1>1, DependsOnEarlier DEF WithDependents
<1> DEFINE W1 == WithDependents({t})
           W2 == WithDependents(W1)
           W3 == WithDependents(W2)
           W4 == WithDependents(W3)
           W5 == WithDependents(W4)
<1>2. \A u \in AllTasks : Rank(u) \in 0 .. 4
  BY DEF Rank
<1>3. /\ {t} \subseteq W1 /\ W1 \subseteq AllTasks
      /\ \A u \in W1 \ {t} : Rank(u) >= 1
  BY <1>2, DependsOnEarlier DEF WithDependents
<1> HIDE DEF W1
<1>4. W1 \subseteq W2 /\ W2 \subseteq AllTasks /\ \A u \in W2 \ W1 : Rank(u) >= 2
  BY <1>1, <1>2, <1>3 DEF W1
<1> HIDE DEF W2
<1>5. W2 \subseteq W3 /\ W3 \subseteq AllTasks /\ \A u \in W3 \ W2 : Rank(u) >= 3
  BY <1>1, <1>2, <1>3, <1>4 DEF W2
<1> HIDE DEF W3
<1>6. W3 \subseteq W4 /\ W4 \subseteq AllTasks /\ \A u \in W4 \ W3 : Rank(u) >= 4
  BY <1>1, <1>2, <1>4, <1>5 DEF W3
<1> HIDE DEF W4
<1>7. W4 \subseteq W5 /\ W5 \subseteq AllTasks /\ \A u \in W5 \ W4 : Rank(u) >= 5
  BY <1>1, <1>2, <1>5, <1>6 DEF W4
<1>8. W5 = W4
  BY <1>2, <1>7
<1> QED
  BY <1>8 DEF Below, W1, W2, W3, W4

-----------------------------------------------------------------------------
(* What a step of one task leaves alone.                                   *)

\* Nothing leaves the sink, and what was missed stays missed.
SinkGrows ==
    /\ KeptSources \subseteq KeptSources'
    /\ content \subseteq content' /\ extraction \subseteq extraction'
    /\ Known \subseteq Known' /\ Made \subseteq Made' /\ Evidenced \subseteq Evidenced'
    /\ torn \subseteq torn'
    /\ cancelled => cancelled'
    /\ plan' = plan

\* The other tasks: a failure cascades to what waits, a search adds tasks.
OthersKept(t) ==
    \A u \in AllTasks \ {t} :
        /\ job'[u] = job[u] /\ result'[u] = result[u] /\ attempt'[u] = attempt[u]
        /\ u \in stored' <=> u \in stored
        /\ u \in due' <=> u \in due
        /\ \/ status'[u] = status[u]
           \/ status[u] = "pending" /\ status'[u] = "failed"
           \/ /\ status[u] = "absent" /\ status'[u] = "pending"
              /\ plan = "planned" /\ Kind(u) = "extract" /\ u[3] \in KeptSources' \cap content'

StatusKept(t) ==
    /\ status[t] = "completed" => status'[t] = "completed"
    /\ status[t] = "absent" <=> status'[t] = "absent"

StepOf(t) == SinkGrows /\ OthersKept(t) /\ StatusKept(t)

\* What is behind and before a task does not change while the tasks work.
LEMMA FanInKept ==
    ASSUME StagesIInv, StagesTypes', NEW t \in AllTasks, StepOf(t)
    PROVE  /\ FanIn' = FanIn
           /\ \A u \in AllTasks : Depends(u)' = Depends(u)
           /\ \A u \in AllTasks : status[u] = "completed" => status'[u] = "completed"
           /\ \A u \in AllTasks : status[u] # "absent" => status'[u] # "absent"
<1>1. FanIn' = FanIn
  BY DEF FanIn, Of, StepOf, OthersKept, StatusKept
<1>2. \A u \in AllTasks : Depends(u)' = Depends(u)
  BY <1>1 DEF Depends
<1> QED
  BY <1>1, <1>2 DEF StepOf, OthersKept, StatusKept

\* A task that a search has added stays.
LEMMA FoundPresent ==
    ASSUME StagesIInv, StagesTypes', NEW t \in AllTasks, StepOf(t),
           NEW u \in AllTasks, Kind(u) = "search", NEW x \in Found("search", Section(u))
    PROVE  status[Extract(Section(u), x)] # "absent" => status'[Extract(Section(u), x)] # "absent"
<1>1. Section(u) \in Sections
  BY TaskShape DEF Closing, Validate, Writer, Kind
<1> QED
  BY <1>1, ExtractTasks, FanInKept

\* The other tasks fit where they fitted before.
LEMMA OthersFit ==
    ASSUME StagesIInv, StagesTypes', NEW t \in AllTasks, StepOf(t), NEW u \in AllTasks \ {t}
    PROVE  TaskFits(u)'
<1>1. TaskFits(u) /\ SinkGrows /\ u \in AllTasks /\ u # t
  BY DEF StagesIInv, StepOf
<1>2. /\ job'[u] = job[u] /\ result'[u] = result[u] /\ attempt'[u] = attempt[u]
      /\ u \in stored' <=> u \in stored
      /\ u \in due' <=> u \in due
      /\ \/ status'[u] = status[u]
         \/ status[u] = "pending" /\ status'[u] = "failed"
         \/ /\ status[u] = "absent" /\ status'[u] = "pending"
            /\ plan = "planned" /\ Kind(u) = "extract" /\ u[3] \in KeptSources' \cap content'
  BY DEF StepOf, OthersKept
<1>3. PlaceFits(u)'
  BY <1>1, <1>2 DEF TaskFits, PlaceFits, SinkGrows
<1>4. KindFits(u)'
  BY <1>1, <1>2 DEF TaskFits, KindFits
<1>5. PlanFits(u)'
  BY <1>1, <1>2 DEF TaskFits, PlanFits, SinkGrows, Own
<1>6. StatusFits(u)'
  <2>1. status'[u] \in Started => \A v \in Depends(u)' : status'[v] = "completed"
    <3>1. status'[u] \in Started => status[u] \in Started
      BY <1>2 DEF Started
    <3>2. \A v \in Depends(u) : v \in AllTasks
      BY DependsAreTasks DEF StagesIInv
    <3> QED
      BY <1>1, <3>1, <3>2, FanInKept DEF TaskFits, StatusFits
  <2> QED
    BY <1>1, <1>2, <2>1 DEF TaskFits, StatusFits, SinkGrows, MayFail
<1>7. Resolved(u)' = Resolved(u)
  BY <1>2 DEF Resolved, Resolves
<1>8. ResultFits(u)' /\ HeldFits(u)'
  <2>1. Written(u)' = Written(u)
    BY <1>2, <1>7 DEF Written
  <2> QED
    BY <1>1, <1>2, <1>7, <2>1 DEF TaskFits, ResultFits, HeldFits, SinkGrows
<1>9. FoundFits(u)'
  <2>1. Kind(u) = "search" => \A x \in Found("search", Section(u)) :
          status[Extract(Section(u), x)] # "absent" => status'[Extract(Section(u), x)] # "absent"
    BY FoundPresent
  <2> QED
    BY <1>1, <1>2, <2>1 DEF TaskFits, FoundFits, SinkGrows
<1> QED
  BY <1>3, <1>4, <1>5, <1>6, <1>7, <1>8, <1>9 DEF TaskFits

-----------------------------------------------------------------------------
(* What keeps the rest of the invariant.                                   *)

\* A task at work keeps the run going.
LEMMA WorkingRuns ==
    ASSUME StagesIInv, NEW t \in AllTasks, job[t].at \notin {"idle", "store"}
    PROVE  run = "running" /\ status[t] \in {"planning", "running"}
<1>1. TaskFits(t) /\ job[t].at \in Places
  BY DEF StagesIInv, StagesTypes, Job
<1>2. status[t] \in {"planning", "running"}
  BY <1>1 DEF TaskFits, PlaceFits, Working, Places
<1> QED
  BY <1>2 DEF StagesIInv, RunFits, Inflight

\* Claims, evidence and flags that a step leaves alone go on fitting.
LEMMA RecordsStay ==
    ASSUME StagesIInv, StagesTypes', NEW t \in AllTasks, StepOf(t),
           UNCHANGED <<claim, evidence, flagged>>,
           t \in FanIn => result[t] \subseteq result'[t],
           t = Validate =>
               /\ torn' = {} /\ job'[t].at = "validate" => Made \subseteq job'[t].todo
               /\ torn' = {}
                    /\ (job'[t].at = "return" \/ status'[t] \in {"completed", "needs_review"}) =>
                  Contested(Made) \subseteq flagged
               /\ status'[t] = "completed" => flagged = {}
    PROVE  RecordsFit'
<1>1. RecordsFit /\ SinkGrows /\ SinkTypes
  BY DEF StagesIInv, StepOf
<1>2. Made' = Made
  BY DEF Made
<1>3. FanIn' = FanIn /\ \A u \in AllTasks : status[u] = "completed" => status'[u] = "completed"
  BY FanInKept
<1>4. FanIn \subseteq AllTasks
  BY DEF FanIn, Of
<1>5. ClaimsFit'
  <2>1. \A u \in FanIn : result[u] \subseteq result'[u]
    BY <1>4 DEF StepOf, OthersKept
  <2> QED
    BY <1>1, <1>2, <1>3, <2>1 DEF RecordsFit, ClaimsFit
<1>6. ReviewFits'
  <2>1. flagged' # {} => \A u \in FanIn' : status'[u] = "completed"
    BY <1>1, <1>3, <1>4 DEF RecordsFit, ReviewFits
  <2>2. Contested(Made)' = Contested(Made)
    BY <1>2 DEF Contested
  <2>3. CASE t = Validate
    BY <1>2, <2>1, <2>2, <2>3 DEF ReviewFits
  <2>4. CASE t # Validate
    <3>1. /\ job'[Validate] = job[Validate]
          /\ status'[Validate] \in {"completed", "needs_review"} =>
               status'[Validate] = status[Validate]
      BY <2>4, ClosingTasks DEF StepOf, OthersKept
    <3>2. torn' = {} => torn = {}
      BY <1>1 DEF SinkGrows
    <3> QED
      BY <1>1, <1>2, <2>1, <2>2, <3>1, <3>2 DEF RecordsFit, ReviewFits
  <2> QED
    BY <2>3, <2>4
<1>7. EvidenceIsGrounded'
  <2>1. \A c \in Claims : node[Subject(c)] # {} => node'[Subject(c)] # {}
    BY <1>1, RecordsAssumption DEF SinkGrows, Known
  <2> QED
    BY <1>1, <2>1 DEF RecordsFit, EvidenceIsGrounded, SinkGrows
<1>8. FlagsStay'
  BY <1>1 DEF RecordsFit, FlagsStay
<1> QED
  BY <1>5, <1>6, <1>7, <1>8 DEF RecordsFit

\* A step of one task, put together.
LEMMA StepKeeps ==
    ASSUME StagesIInv, StagesTypes', SinkTypes', NEW t \in AllTasks, StepOf(t),
           TaskFits(t)', RunFits', RecordsFit'
    PROVE  StagesIInv'
BY OthersFit DEF StagesIInv

\* A step that leaves the sink alone lets it fit.
LEMMA SinkStays ==
    ASSUME StagesIInv, UNCHANGED <<plan, sink, torn, cancelled>>
    PROVE  SinkGrows
BY DEF SinkGrows, sink, KeptSources, Known, Made, Evidenced

\* A result stays good as long as the sink does, unless claims are half kept.
LEMMA ResultStays ==
    ASSUME StagesIInv, NEW t \in AllTasks, UNCHANGED sink, result'[t] = result[t],
           job[t].at # "evidence"
    PROVE  ResultFits(t)'
<1>1. /\ KeptSources' = KeptSources /\ Known' = Known /\ Made' = Made
      /\ Evidenced' = Evidenced /\ extraction' = extraction /\ content' = content
  BY DEF sink, KeptSources, Known, Made, Evidenced
<1>2. ResultFits(t) /\ Written(t) = {}
  BY DEF StagesIInv, TaskFits, Written
<1> QED
  BY <1>1, <1>2 DEF ResultFits

-----------------------------------------------------------------------------
(* The scheduler and the threads.                                          *)

\* The loop submits: what a task depends on has completed and stays so.
LEMMA SubmitKeeps ==
    ASSUME StagesIInv, NEW t \in AllTasks, Submit(t)
    PROVE  StagesIInv'
<1> USE DEF Submit
<1>1. StagesTypes /\ SinkTypes /\ TaskFits(t) /\ run = "running"
  BY DEF StagesIInv
<1>2. status[t] = "pending" /\ \A u \in Depends(t) : status[u] = "completed"
  BY DEF Startable, IsReady
<1>3. StagesTypes' /\ SinkTypes'
  <2>1. attempt[t] + 1 \in 0 .. MaxAttempts
    BY <1>1, <1>2, StagesAssumption DEF TaskFits, StatusFits, StagesTypes
  <2> QED
    BY <1>1, <2>1, StagesAssumption DEF StagesTypes, SinkTypes, sink, Idle, Places, Job
<1>4. StepOf(t)
  <2>1. SinkGrows
    BY SinkStays
  <2> QED
    BY <1>1, <1>2, <2>1 DEF StepOf, OthersKept, StatusKept, StagesTypes
<1>5. /\ status'[t] = "planning" /\ job'[t] = [Idle EXCEPT !.at = "enter"]
      /\ result'[t] = result[t] /\ attempt'[t] = attempt[t] + 1
  BY <1>1 DEF StagesTypes
<1>6. TaskFits(t)'
  <2>1. t \notin stored /\ t \notin due
    BY <1>1, <1>2 DEF TaskFits, PlaceFits, StatusFits
  <2>2. PlaceFits(t)' /\ KindFits(t)'
    BY <1>5, <2>1 DEF PlaceFits, KindFits, Idle, Working, Places
  <2>3. PlanFits(t)'
    BY <1>1, <1>2, <1>5 DEF TaskFits, PlanFits, Own, sink, KeptSources
  <2>4. StatusFits(t)'
    <3>1. \A u \in Depends(t)' : status'[u] = "completed"
      BY <1>1, <1>2, <1>3, <1>4, FanInKept, DependsAreTasks
    <3> QED
      BY <1>1, <1>2, <1>5, <2>1, <3>1 DEF TaskFits, StatusFits, MayFail
  <2>5. ResultFits(t)'
    BY <1>1, <1>2, <1>5, ResultStays DEF TaskFits, PlaceFits, Working, Places
  <2>6. HeldFits(t)'
    BY <1>5 DEF HeldFits, Idle
  <2>7. FoundFits(t)'
    BY <1>1, <1>3, <1>4, <1>5, FanInKept, FoundPresent DEF TaskFits, FoundFits, Idle
  <2> QED
    BY <2>2, <2>3, <2>4, <2>5, <2>6, <2>7 DEF TaskFits
<1>7. RunFits'
  BY <1>1 DEF RunFits
<1>8. RecordsFit'
  BY <1>1, <1>3, <1>4, <1>5, RecordsStay DEF sink, Idle
<1> QED
  BY <1>3, <1>4, <1>6, <1>7, <1>8, StepKeeps

\* A failed attempt is tried again, with an attempt left.
LEMMA RequeueKeeps ==
    ASSUME StagesIInv, NEW t \in AllTasks, Requeue(t)
    PROVE  StagesIInv'
<1> USE DEF Requeue
<1>1. StagesTypes /\ SinkTypes /\ TaskFits(t) /\ run = "running"
  BY DEF StagesIInv
<1>2. status[t] = "failed" /\ MayFail(t) /\ attempt[t] < MaxAttempts /\ job[t].at = "idle"
  BY <1>1 DEF TaskFits, StatusFits, PlaceFits, StagesTypes, Places, Working, Job
<1>3. StagesTypes' /\ SinkTypes'
  BY <1>1 DEF StagesTypes, SinkTypes, sink
<1>4. StepOf(t)
  <2>1. SinkGrows
    BY SinkStays
  <2> QED
    BY <1>1, <1>2, <2>1 DEF StepOf, OthersKept, StatusKept, StagesTypes
<1>5. status'[t] = "pending" /\ job' = job /\ result' = result /\ attempt' = attempt
  BY <1>1 DEF StagesTypes
<1>6. TaskFits(t)'
  <2>1. PlaceFits(t)' /\ KindFits(t)'
    BY <1>1, <1>2, <1>5 DEF TaskFits, PlaceFits, KindFits, Working, Places
  <2>2. PlanFits(t)'
    BY <1>1, <1>2, <1>5 DEF TaskFits, PlanFits, Own, sink, KeptSources
  <2>3. StatusFits(t)'
    BY <1>1, <1>2, <1>5 DEF TaskFits, StatusFits, MayFail, Started
  <2>4. ResultFits(t)'
    BY <1>2, <1>5, ResultStays
  <2>5. HeldFits(t)'
    BY <1>1, <1>5 DEF TaskFits, HeldFits, sink, KeptSources, Known, Made, Resolved, Resolves
  <2>6. FoundFits(t)'
    BY <1>1, <1>2, <1>3, <1>4, <1>5, FanInKept, FoundPresent DEF TaskFits, FoundFits, sink
  <2> QED
    BY <2>1, <2>2, <2>3, <2>4, <2>5, <2>6 DEF TaskFits
<1>7. RunFits'
  BY <1>1 DEF RunFits
<1>8. RecordsFit'
  BY <1>1, <1>2, <1>3, <1>4, <1>5, RecordsStay DEF sink
<1> QED
  BY <1>3, <1>4, <1>6, <1>7, <1>8, StepKeeps

\* What the results of completed tasks name fits the kind of the tasks.
LEMMA CollectedFits ==
    ASSUME StagesIInv, NEW ts \in SUBSET AllTasks
    PROVE  /\ Ids(ts) \cap Sources \subseteq KeptSources
           /\ (\A u \in ts : Kind(u) \in {"evaluation", "extract"}) =>
                Ids(ts) \cap Sources \subseteq content \cap extraction
           /\ Ids(ts) \cap Nodes \subseteq Known /\ Ids(ts) \cap Claims \subseteq Made
<1>1. ASSUME NEW i \in Ids(ts)
      PROVE  /\ i \in Sources => i \in KeptSources
             /\ i \in Sources /\ (\A u \in ts : Kind(u) \in {"evaluation", "extract"}) =>
                  i \in content \cap extraction
             /\ i \in Nodes => i \in Known
             /\ i \in Claims => i \in Made
  <2>1. PICK u \in ts \cap stored : i \in result[u]
    BY <1>1 DEF Ids
  <2>2. ResultFits(u)
    BY <2>1 DEF StagesIInv, TaskFits
  <2> QED
    BY <2>1, <2>2, RecordsAssumption DEF ResultFits, KeptSources, Known, Made, Evidenced
<1> QED
  BY <1>1

\* What a handler collects when it begins is what it may hold.
LEMMA TodoFits ==
    ASSUME StagesIInv, NEW t \in AllTasks
    PROVE  /\ Todo(t) \subseteq RecordIds
           /\ Kind(t) \in Searches \cup {"extract"} => Todo(t) = {}
           /\ Kind(t) = "evaluation" => /\ Todo(t) = Ids(In(Section(t), Searches)) \cap Sources
                                        /\ Todo(t) \subseteq KeptSources
                                        /\ Inputs(t) = In(Section(t), Searches)
           /\ Kind(t) \in {"normalization", "normalize", "claims"} =>
                Todo(t) \subseteq content \cap extraction
           /\ t = Validate => /\ Todo(t) = Ids(Completed({"claims", "normalization"})) \cap Claims
                              /\ Inputs(t) = Completed({"claims", "normalization"})
           /\ t = Writer => Todo(t) \subseteq Nodes
<1>0. /\ Kind(t) \in Kinds
      /\ Kind(t) = "validate" <=> t = Validate
      /\ Kind(t) = "writer" <=> t = Writer
  BY TaskShape
<1>1. CASE Kind(t) \in Searches \cup {"extract"}
  <2>1. Todo(t) = {}
    BY <1>0, <1>1 DEF Todo, Searches
  <2> QED
    BY <1>0, <1>1, <2>1 DEF Searches
<1>2. CASE Kind(t) = "evaluation"
  <2>1. Inputs(t) = In(Section(t), Searches)
    BY <1>0, <1>2 DEF Inputs
  <2>2. Todo(t) = Ids(Inputs(t)) \cap Sources
    BY <1>0, <1>2 DEF Todo
  <2>3. Inputs(t) \subseteq AllTasks
    BY <2>1 DEF In, Completed, Of
  <2>4. Todo(t) \subseteq KeptSources
    BY <2>2, <2>3, CollectedFits
  <2> QED
    BY <1>0, <1>2, <2>1, <2>2, <2>4 DEF RecordIds, Searches
<1>3. CASE Kind(t) \in {"normalization", "normalize", "claims"}
  <2>1. \/ Inputs(t) = In(Section(t), {"evaluation"}) \/ Inputs(t) = In(Section(t), {"extract"})
    BY <1>0, <1>3 DEF Inputs
  <2>2. Todo(t) = Ids(Inputs(t)) \cap Sources
    BY <1>0, <1>3 DEF Todo
  <2>3. Inputs(t) \subseteq AllTasks /\ \A u \in Inputs(t) : Kind(u) \in {"evaluation", "extract"}
    BY <2>1 DEF In, Completed, Of
  <2>4. Todo(t) \subseteq content \cap extraction
    BY <2>2, <2>3, CollectedFits
  <2> QED
    BY <1>0, <1>3, <2>2, <2>4 DEF RecordIds, Searches
<1>4. CASE t = Validate
  <2>1. Kind(t) = "validate"
    BY <1>0, <1>4
  <2>2. Inputs(t) = Completed({"claims", "normalization"})
    BY <1>0, <1>4, <2>1, ClosingTasks DEF Inputs
  <2>3. Todo(t) = Ids(Inputs(t)) \cap Claims
    BY <1>0, <1>4, <2>1, ClosingTasks DEF Todo
  <2> QED
    BY <1>0, <1>4, <2>1, <2>2, <2>3, ClosingTasks DEF RecordIds, Searches
<1>5. CASE t = Writer
  <2>1. Kind(t) = "writer" /\ t # Validate
    BY <1>0, <1>5, ClosingTasks
  <2>2. Todo(t) = Ids(Inputs(t)) \cap Nodes
    BY <1>0, <1>5, <2>1 DEF Todo
  <2> QED
    BY <1>0, <1>5, <2>1, <2>2 DEF RecordIds, Searches
<1> QED
  BY <1>0, <1>1, <1>2, <1>3, <1>4, <1>5 DEF Kinds, Searches

\* Where a handler begins.
LEMMA FirstStepFits ==
    ASSUME NEW t \in AllTasks
    PROVE  /\ Kind(t) \in Searches <=> FirstStep(t) = "search"
           /\ Kind(t) = "evaluation" <=> FirstStep(t) = "persist"
           /\ Kind(t) = "extract" <=> FirstStep(t) = "ask"
           /\ Kind(t) \in {"normalization", "normalize"} <=> FirstStep(t) = "nodes"
           /\ Kind(t) = "claims" <=> FirstStep(t) = "claims"
           /\ t = Validate <=> FirstStep(t) = "validate"
           /\ t = Writer <=> FirstStep(t) = "write"
           /\ FirstStep(t) \in {"search", "persist", "ask", "nodes", "claims", "validate", "write"}
BY TaskShape, ClosingTasks DEF FirstStep, Searches, Kinds

\* An evaluation that misses nothing begins with all its search found.
LEMMA EvaluationInputs ==
    ASSUME StagesIInv, NEW t \in AllTasks, Kind(t) = "evaluation", status[t] = "planning",
           Inputs(t) \subseteq stored
    PROVE  Found("search", Section(t)) \subseteq Todo(t)
<1>1. StagesTypes /\ TaskFits(t)
  BY DEF StagesIInv
<1>2. PICK u \in AllTasks :
        u = <<"search", Section(t)>> /\ Kind(u) = "search" /\ Section(u) = Section(t)
  BY TaskShape, SectionTasks DEF Closing, Validate, Writer, Kind
<1>3. status[u] = "completed"
  BY <1>1, <1>2, DependsOn DEF TaskFits, StatusFits, Started
<1>4. Found("search", Section(t)) \subseteq result[u] /\ Section(u) \in Sections
  <2>1. FoundFits(u)
    BY <1>2 DEF StagesIInv, TaskFits
  <2> QED
    BY <1>2, <1>3, <2>1, TaskShape DEF FoundFits, Closing, Validate, Writer, Kind
<1>5. u \in In(Section(t), Searches)
  BY <1>2, <1>3 DEF In, Completed, Of, Searches
<1>6. u \in stored
  BY <1>5, TodoFits
<1>7. result[u] \cap Sources \subseteq Todo(t)
  BY <1>5, <1>6, TodoFits DEF Ids
<1>8. Found("search", Section(t)) \subseteq Sources
  BY <1>2, <1>4, RecordsAssumption DEF Searches
<1> QED
  BY <1>4, <1>7, <1>8

\* Validation that misses nothing begins with all claims.
LEMMA ValidationInputs ==
    ASSUME StagesIInv, status[Validate] = "planning", Inputs(Validate) \subseteq stored
    PROVE  Made \subseteq Todo(Validate)
<1>1. StagesTypes /\ TaskFits(Validate) /\ ClaimsFit
  BY ClosingTasks DEF StagesIInv, RecordsFit
<1>2. \A u \in FanIn : status[u] = "completed"
  BY <1>1, DependsOn, ClosingTasks DEF TaskFits, StatusFits, Started
<1>3. /\ Inputs(Validate) = Completed({"claims", "normalization"})
      /\ Todo(Validate) = Ids(Completed({"claims", "normalization"})) \cap Claims
  BY TodoFits, ClosingTasks
<1>4. FanIn \subseteq Completed({"claims", "normalization"})
  BY <1>2 DEF FanIn, Completed, Of
<1>5. Made \subseteq Claims
  BY DEF Made
<1> QED
  BY <1>1, <1>3, <1>4, <1>5 DEF ClaimsFit, Ids

\* A thread takes a task and collects its inputs; what it misses is noted.
LEMMA EnterKeeps ==
    ASSUME StagesIInv, NEW t \in AllTasks, Enter(t)
    PROVE  StagesIInv'
<1> USE DEF Enter
<1>1. StagesTypes /\ SinkTypes /\ TaskFits(t) /\ run = "running" /\ RecordsFit
  BY WorkingRuns DEF StagesIInv
<1>2. status[t] = "planning" /\ t \notin stored
  BY <1>1 DEF TaskFits, PlaceFits
<1> DEFINE now == IF Kind(t) = "extract" THEN {t[3]} ELSE {}
           known == Ids(Completed({"normalize"})) \cap Nodes
<1>3. now \subseteq Sources /\ known \subseteq Known /\ Completed({"normalize"}) \subseteq AllTasks
  <2>1. Kind(t) = "extract" => t[3] \in KeptSources
    BY <1>1, <1>2, OwnKinds DEF TaskFits, PlanFits
  <2>2. Completed({"normalize"}) \subseteq AllTasks
    BY DEF Completed, Of
  <2> QED
    BY <2>1, <2>2, CollectedFits DEF KeptSources
<1> HIDE DEF now, known
<1>4. job' = [job EXCEPT ![t] = [at |-> FirstStep(t), todo |-> Todo(t), now |-> now,
                                  known |-> known, tries |-> 1]]
  BY DEF now, known
<1>5. StagesTypes' /\ SinkTypes'
  <2>1. FirstStep(t) \in Places
    BY FirstStepFits DEF Places
  <2>2. Todo(t) \subseteq RecordIds /\ known \subseteq Nodes
    BY <1>3, TodoFits DEF Known
  <2>3. 1 \in 1 .. MaxTries
    BY StagesAssumption
  <2>4. job' \in [AllTasks -> Job]
    BY <1>1, <1>3, <1>4, <2>1, <2>2, <2>3 DEF StagesTypes, Job
  <2>5. Inputs(t) \subseteq AllTasks
    BY DEF Inputs, In, Completed, Of
  <2> QED
    BY <1>1, <2>4, <2>5 DEF StagesTypes, SinkTypes, sink
<1>6. StepOf(t)
  <2>1. SinkGrows
    BY DEF SinkGrows, sink, KeptSources, Known, Made, Evidenced
  <2> QED
    BY <1>1, <1>2, <2>1 DEF StepOf, OthersKept, StatusKept, StagesTypes
<1>11. job'[t] = [at |-> FirstStep(t), todo |-> Todo(t), now |-> now, known |-> known,
                  tries |-> 1]
  BY <1>1, <1>4 DEF StagesTypes
<1>7. /\ status'[t] = "running" /\ result'[t] = {} /\ attempt' = attempt
      /\ job'[t].at = FirstStep(t) /\ job'[t].todo = Todo(t) /\ job'[t].now = now
      /\ job'[t].known = known
  BY <1>1, <1>11 DEF StagesTypes
<1>8. TaskFits(t)'
  <2>1. PlaceFits(t)'
    BY <1>1, <1>2, <1>7, FirstStepFits DEF PlaceFits, Working, Places
  <2>2. KindFits(t)'
    BY <1>7, FirstStepFits DEF KindFits
  <2>3. PlanFits(t)'
    BY <1>1, <1>2, <1>7 DEF TaskFits, PlanFits, Own, sink, KeptSources
  <2>4. StatusFits(t)'
    <3>1. \A u \in Depends(t)' : status'[u] = "completed"
      BY <1>1, <1>2, <1>5, <1>6, FanInKept, DependsAreTasks DEF TaskFits, StatusFits, Started
    <3> QED
      BY <1>1, <1>2, <1>7, <3>1 DEF TaskFits, StatusFits, MayFail
  <2>5. ResultFits(t)'
    BY <1>7 DEF ResultFits
  <2>6. HeldFits(t)'
    <3>1. Kind(t) = "extract" => t[3] \in KeptSources \cap content /\ now = {t[3]}
      BY <1>1, <1>2, OwnKinds DEF TaskFits, PlanFits, now
    <3>2. Kind(t) = "evaluation" => now = {}
      BY DEF now
    <3>3. /\ KeptSources' = KeptSources /\ Known' = Known
          /\ content' = content /\ extraction' = extraction
      BY DEF sink, KeptSources, Known
    <3> QED
      BY <1>3, <1>7, <3>1, <3>2, <3>3, TodoFits, FirstStepFits DEF HeldFits, Searches
  <2>7. FoundFits(t)'
    <3>1. torn' = {} => Inputs(t) \subseteq stored
      OBVIOUS
    <3> QED
      BY <1>2, <1>7, <3>1, EvaluationInputs, FirstStepFits DEF FoundFits, Searches
  <2> QED
    BY <2>1, <2>2, <2>3, <2>4, <2>5, <2>6, <2>7 DEF TaskFits
<1>9. RunFits'
  BY <1>1 DEF RunFits
<1>10. RecordsFit'
  <2>1. t \in FanIn => result[t] = {}
    BY <1>1, <1>2, DependsOn DEF TaskFits, StatusFits, MayFail, Searches
  <2>2. t = Validate => (torn' = {} => Made \subseteq job'[t].todo)
    BY <1>2, <1>7, ValidationInputs
  <2>3. UNCHANGED <<claim, evidence, flagged>>
    BY DEF sink
  <2> QED
    BY <1>1, <1>5, <1>6, <1>7, <2>1, <2>2, <2>3, FirstStepFits, RecordsStay
<1> QED
  BY <1>5, <1>6, <1>8, <1>9, <1>10, StepKeeps

\* What a failed attempt leaves.
LEMMA FailKeeps ==
    ASSUME StagesIInv, NEW t \in AllTasks, NEW retryable \in BOOLEAN, Fail(t, retryable),
           MayFail(t), job[t].at \in Working, failures' \in 0 .. MaxFailures
    PROVE  StagesIInv'
<1>1. StagesTypes /\ SinkTypes /\ TaskFits(t) /\ run = "running"
  BY WorkingRuns DEF StagesIInv, Working
<1>2. /\ status[t] = "running" /\ t \notin due /\ t \notin stored
      /\ UNCHANGED <<plan, attempt, result, stored, sink, cached, torn, cancelled, run>>
      /\ job' = [job EXCEPT ![t] = Idle]
  BY <1>1 DEF TaskFits, PlaceFits, StatusFits, Fail
<1>3. /\ due' \in {due, due \cup {t}}
      /\ status' \in [AllTasks -> {"absent", "pending", "planning", "running", "completed",
                                   "failed", "needs_review", "cancelled"}]
      /\ \A u \in AllTasks \ {t} : \/ status'[u] = status[u]
                                   \/ status[u] = "pending" /\ status'[u] = "failed"
      /\ status'[t] \in {"failed", "cancelled"} /\ (status'[t] = "cancelled" => cancelled)
      /\ t \in due' => status'[t] = "failed" /\ attempt[t] < MaxAttempts
  <2>1. CASE cancelled
    BY <1>1, <1>2, <2>1 DEF Fail, StagesTypes
  <2>2. CASE ~cancelled /\ retryable /\ attempt[t] < MaxAttempts
    BY <1>1, <1>2, <2>2 DEF Fail, StagesTypes
  <2>3. CASE ~cancelled /\ ~(retryable /\ attempt[t] < MaxAttempts)
    <3>1. /\ status' = [u \in AllTasks |->
                    IF u = t \/ (u \in Below({t}) /\ status[u] = "pending") THEN "failed"
                    ELSE status[u]]
          /\ due' = due
      BY <2>3 DEF Fail
    <3> QED
      BY <1>1, <1>2, <2>3, <3>1 DEF StagesTypes
  <2> QED
    BY <2>1, <2>2, <2>3
<1>4. StagesTypes' /\ SinkTypes'
  <2>1. Idle \in Job
    BY StagesAssumption DEF Idle, Places, Job
  <2> QED
    BY <1>1, <1>2, <1>3, <2>1 DEF StagesTypes, SinkTypes, sink
<1>5. StepOf(t)
  <2>1. SinkGrows
    BY <1>2, SinkStays
  <2> QED
    BY <1>1, <1>2, <1>3, <2>1 DEF StepOf, OthersKept, StatusKept, StagesTypes
<1>6. job'[t] = Idle
  BY <1>1, <1>2 DEF StagesTypes
<1>7. TaskFits(t)'
  <2>1. PlaceFits(t)' /\ KindFits(t)'
    BY <1>2, <1>3, <1>6 DEF PlaceFits, KindFits, Idle, Working, Places
  <2>2. PlanFits(t)'
    BY <1>1, <1>2, <1>3 DEF TaskFits, PlanFits, Own, sink, KeptSources
  <2>3. StatusFits(t)'
    BY <1>1, <1>2, <1>3 DEF TaskFits, StatusFits, MayFail, Started
  <2>4. ResultFits(t)'
    BY <1>1, <1>2, ResultStays DEF TaskFits, KindFits, MayFail, Searches
  <2>5. HeldFits(t)'
    BY <1>6 DEF HeldFits, Idle
  <2>6. FoundFits(t)'
    BY <1>1, <1>2, <1>3, <1>4, <1>5, <1>6, FoundPresent DEF TaskFits, FoundFits, Idle
  <2> QED
    BY <2>1, <2>2, <2>3, <2>4, <2>5, <2>6 DEF TaskFits
<1>8. RunFits'
  BY <1>1, <1>2 DEF RunFits
<1>9. RecordsFit'
  BY <1>1, <1>2, <1>3, <1>4, <1>5, <1>6, RecordsStay, ClosingTasks DEF sink, Idle, MayFail, Searches
<1> QED
  BY <1>4, <1>5, <1>7, <1>8, <1>9, StepKeeps

\* A handler that only goes on to its next place, or asks once more.
LEMMA MoveKeeps ==
    ASSUME StagesIInv, NEW t \in AllTasks, NEW step \in Working,
           job[t].at \in Working \ {"evidence"},
           job' \in [AllTasks -> Job], \A u \in AllTasks \ {t} : job'[u] = job[u],
           job'[t].at = step, step = "stop" => cancelled,
           step \in {"validate", "return"} => t # Validate,
           UNCHANGED <<plan, tasks, sink, cached, torn, cancelled, run>>,
           failures' \in 0 .. MaxFailures,
           KindFits(t)', HeldFits(t)', FoundFits(t)'
    PROVE  StagesIInv'
<1>1. StagesTypes /\ SinkTypes /\ TaskFits(t) /\ run = "running"
  BY WorkingRuns DEF StagesIInv, Working
<1>2. status[t] = "running" /\ step \in Places /\ UNCHANGED <<status, attempt, due, result, stored>>
  BY <1>1 DEF TaskFits, PlaceFits, Working, tasks
<1>4. StagesTypes' /\ SinkTypes'
  BY <1>1, <1>2 DEF StagesTypes, SinkTypes, sink
<1>5. StepOf(t)
  <2>1. SinkGrows
    BY SinkStays
  <2> QED
    BY <1>1, <1>2, <2>1 DEF StepOf, OthersKept, StatusKept
<1>6. TaskFits(t)'
  <2>1. PlaceFits(t)'
    BY <1>1, <1>2 DEF TaskFits, PlaceFits, Working
  <2>2. PlanFits(t)'
    BY <1>1, <1>2 DEF TaskFits, PlanFits, Own, sink, KeptSources
  <2>3. StatusFits(t)'
    <3>1. Depends(t)' = Depends(t)
      BY <1>4, <1>5, FanInKept
    <3> QED
      BY <1>1, <1>2, <3>1 DEF TaskFits, StatusFits, MayFail
  <2>4. ResultFits(t)'
    BY <1>2, ResultStays
  <2> QED
    BY <2>1, <2>2, <2>3, <2>4 DEF TaskFits
<1>7. RunFits'
  BY <1>1 DEF RunFits
<1>8. RecordsFit'
  BY <1>1, <1>2, <1>4, <1>5, RecordsStay DEF sink
<1> QED
  BY <1>4, <1>5, <1>6, <1>7, <1>8, StepKeeps

\* A search holds all the provider found.
LEMMA SearchAnswersKeeps ==
    ASSUME StagesIInv, NEW t \in AllTasks, SearchAnswers(t)
    PROVE  StagesIInv'
<1> USE DEF SearchAnswers
<1> DEFINE found == Found(Kind(t), Section(t))
<1>1. StagesTypes /\ SinkTypes /\ TaskFits(t) /\ Kind(t) \in Searches
  BY DEF StagesIInv, TaskFits, KindFits
<1>2. found \subseteq Sources
  BY <1>1, TaskShape, RecordsAssumption DEF Closing, Validate, Writer, Kind, Searches
<1> HIDE DEF found
<1>3. job' = [job EXCEPT ![t].at = "persist", ![t].todo = found]
  BY DEF found
<1>4. job' \in [AllTasks -> Job] /\ \A u \in AllTasks \ {t} : job'[u] = job[u]
  <2>1. job = [u \in AllTasks |-> job[u]] /\ job[t] \in Job
    BY <1>1 DEF StagesTypes
  <2>2. job' = [job EXCEPT ![t] = [at |-> "persist", todo |-> found, now |-> job[t].now,
                                   known |-> job[t].known, tries |-> job[t].tries]]
    BY <1>3, <2>1 DEF Job
  <2> QED
    BY <1>1, <1>2, <2>1, <2>2 DEF StagesTypes, Job, Places, RecordIds
<1>5. /\ job'[t].at = "persist" /\ job'[t].todo = found /\ job'[t].now = job[t].now
      /\ job'[t].known = job[t].known
  BY <1>1, <1>3 DEF StagesTypes, Job
<1>6. KindFits(t)'
  BY <1>1, <1>5 DEF KindFits
<1>7. HeldFits(t)'
  BY <1>1, <1>2, <1>5, TaskShape, ClosingTasks
     DEF TaskFits, HeldFits, sink, KeptSources, Known, Searches
<1>8. FoundFits(t)'
  BY <1>1, <1>5 DEF TaskFits, FoundFits, found, tasks, Searches
<1> QED
  BY <1>1, <1>4, <1>5, <1>6, <1>7, <1>8, MoveKeeps DEF Working, Places, SinkTypes

\* A search that fails keeps what earlier attempts kept.
LEMMA SearchFailsKeeps ==
    ASSUME StagesIInv, NEW t \in AllTasks, SearchFails(t)
    PROVE  StagesIInv'
<1>1. Kind(t) \in Searches /\ failures' \in 0 .. MaxFailures
  BY StagesAssumption DEF SearchFails, StagesIInv, TaskFits, KindFits, SinkTypes
<1> QED
  BY <1>1, FailKeeps DEF SearchFails, MayFail, Working, Places

\* Only a cancelled handler stops early.
LEMMA SeeCancelKeeps ==
    ASSUME StagesIInv, NEW t \in AllTasks, SeeCancel(t)
    PROVE  StagesIInv'
<1> USE DEF SeeCancel
<1>1. StagesTypes /\ SinkTypes /\ TaskFits(t) /\ Kind(t) \in Searches \cup {"evaluation"}
  BY DEF StagesIInv, TaskFits, KindFits
<1>2. job' = [job EXCEPT ![t].at = "stop"]
  BY DEF Goto
<1>3. job' \in [AllTasks -> Job] /\ \A u \in AllTasks \ {t} : job'[u] = job[u]
  BY <1>1, <1>2 DEF StagesTypes, Job, Places
<1>4. /\ job'[t].at = "stop" /\ job'[t].todo = job[t].todo /\ job'[t].now = job[t].now
      /\ job'[t].known = job[t].known
  BY <1>1, <1>2 DEF StagesTypes, Job
<1>5. KindFits(t)'
  BY <1>1, <1>4 DEF KindFits
<1>6. HeldFits(t)'
  BY <1>1, <1>4 DEF TaskFits, HeldFits, sink, KeptSources, Known
<1>7. FoundFits(t)'
  BY <1>1, <1>4 DEF TaskFits, FoundFits, tasks, sink
<1> QED
  BY <1>1, <1>3, <1>4, <1>5, <1>6, <1>7, MoveKeeps DEF Working, Places, SinkTypes

\* Asking again changes a counter.
LEMMA AgainKeeps ==
    ASSUME StagesIInv, NEW t \in AllTasks, job[t].at = "ask", job[t].tries < MaxTries, Again(t),
           failures' \in 0 .. MaxFailures
    PROVE  StagesIInv'
<1> USE DEF Again
<1>1. StagesTypes /\ SinkTypes /\ TaskFits(t) /\ Kind(t) \in {"evaluation", "extract"}
  BY DEF StagesIInv, TaskFits, KindFits
<1>2. job[t].tries + 1 \in 1 .. MaxTries
  BY <1>1, StagesAssumption DEF StagesTypes, Job
<1>3. job' \in [AllTasks -> Job] /\ \A u \in AllTasks \ {t} : job'[u] = job[u]
  BY <1>1, <1>2 DEF StagesTypes, Job
<1>4. /\ job'[t].at = "ask" /\ job'[t].todo = job[t].todo /\ job'[t].now = job[t].now
      /\ job'[t].known = job[t].known
  BY <1>1 DEF StagesTypes, Job
<1>5. KindFits(t)'
  BY <1>1, <1>4 DEF KindFits
<1>6. HeldFits(t)'
  BY <1>1, <1>4 DEF TaskFits, HeldFits, sink, KeptSources, Known
<1>7. FoundFits(t)'
  BY <1>1, <1>4 DEF TaskFits, FoundFits, tasks, sink
<1> QED
  BY <1>1, <1>3, <1>4, <1>5, <1>6, <1>7, MoveKeeps DEF Working, Places, SinkTypes

\* An extraction that fails, one way or another, leaves the sink alone.
LEMMA AskFailsKeeps ==
    ASSUME StagesIInv, NEW t \in AllTasks, AskFails(t) \/ NothingToExtract(t)
    PROVE  StagesIInv'
<1>1. /\ job[t].at = "ask" /\ failures < MaxFailures /\ failures' = failures + 1
      /\ KindFits(t) /\ SinkTypes
  BY DEF AskFails, NothingToExtract, StagesIInv, TaskFits
<1>3. MayFail(t) /\ failures' \in 0 .. MaxFailures /\ job[t].at \in Working
  BY <1>1, StagesAssumption DEF KindFits, SinkTypes, MayFail, Working, Places
<1>2. \/ job[t].tries < MaxTries /\ Again(t)
      \/ \E retryable \in BOOLEAN : Fail(t, retryable)
  BY DEF AskFails, NothingToExtract, Unusable, ProviderFails
<1> QED
  BY <1>1, <1>2, <1>3, AgainKeeps, FailKeeps

\* A completed handler has done all of its todo; nothing completes after a
\* cancellation.
LEMMA ReturnKeeps ==
    ASSUME StagesIInv, NEW t \in AllTasks, Return(t)
    PROVE  StagesIInv'
<1> USE DEF Return
<1>1. StagesTypes /\ SinkTypes /\ TaskFits(t) /\ run = "running" /\ status[t] = "running"
  BY WorkingRuns DEF StagesIInv, TaskFits, PlaceFits, Returns, Working, Places
<1>2. /\ t \notin stored /\ t \notin due
      /\ job[t].at = "stop" => cancelled
      /\ job[t].at \in {"return", "stop", "persist"}
  BY <1>1 DEF TaskFits, PlaceFits, StatusFits, Returns
<1>3. /\ cancelled => status'[t] = "cancelled" /\ job'[t] = Idle
      /\ ~cancelled => /\ status'[t] = IF t = Validate /\ flagged # {} THEN "needs_review"
                                       ELSE "completed"
                       /\ job'[t] = [Idle EXCEPT !.at = "store"]
  BY <1>1, <1>2 DEF StagesTypes, Closed, Outcome
<1>4. Idle \in Job /\ [Idle EXCEPT !.at = "store"] \in Job
  BY StagesAssumption DEF Idle, Places, Job
<1>5. StagesTypes' /\ SinkTypes'
  <2>1. job' \in [AllTasks -> Job]
    BY <1>1, <1>4 DEF StagesTypes
  <2>2. Closed(t) \in {"completed", "needs_review", "cancelled"}
    BY DEF Closed, Outcome
  <2> QED
    BY <1>1, <2>1, <2>2 DEF StagesTypes, SinkTypes, sink
<1>6. StepOf(t)
  <2>1. SinkGrows
    BY SinkStays
  <2> QED
    BY <1>1, <1>3, <2>1 DEF StepOf, OthersKept, StatusKept, StagesTypes
<1>7. /\ job'[t].at \in {"idle", "store"} /\ (job'[t].at = "store" <=> ~cancelled)
      /\ job'[t].todo = {} /\ job'[t].now = {} /\ job'[t].known = {}
      /\ status'[t] \in {"completed", "needs_review", "cancelled"}
      /\ status'[t] = "cancelled" <=> cancelled
      /\ status'[t] = "needs_review" => t = Validate
      /\ t = Validate /\ status'[t] = "completed" => flagged = {}
  BY <1>3 DEF Idle
<1>8. TaskFits(t)'
  <2>1. PlaceFits(t)' /\ KindFits(t)'
    BY <1>2, <1>7 DEF PlaceFits, KindFits, Working, Places
  <2>2. PlanFits(t)'
    BY <1>1, <1>7 DEF TaskFits, PlanFits, Own, sink, KeptSources
  <2>3. StatusFits(t)'
    <3>1. \A u \in Depends(t)' : status'[u] = "completed"
      BY <1>1, <1>5, <1>6, FanInKept, DependsAreTasks DEF TaskFits, StatusFits, Started
    <3> QED
      BY <1>1, <1>2, <1>7, <3>1 DEF TaskFits, StatusFits, MayFail
  <2>4. ResultFits(t)'
    BY <1>2, ResultStays
  <2>5. HeldFits(t)'
    BY <1>7 DEF HeldFits
  <2>6. FoundFits(t)'
    <3>1. CASE Kind(t) = "search"
      <4>1. status'[t] = "completed" => Found("search", Section(t)) \subseteq result'[t]
        BY <1>1, <1>2, <1>7, <3>1 DEF TaskFits, KindFits, FoundFits, Returns, Searches
      <4> QED
        BY <1>1, <1>5, <1>6, <1>7, <3>1, <4>1, FoundPresent DEF TaskFits, FoundFits
    <3>2. CASE Kind(t) = "extract"
      BY <1>1, <1>2, <1>7, <3>2 DEF TaskFits, KindFits, FoundFits, Searches, sink
    <3>3. CASE Kind(t) = "evaluation"
      BY <1>1, <1>2, <1>7, <3>3 DEF TaskFits, KindFits, HeldFits, FoundFits, Returns, sink
    <3> QED
      BY <3>1, <3>2, <3>3 DEF FoundFits
  <2> QED
    BY <2>1, <2>2, <2>3, <2>4, <2>5, <2>6 DEF TaskFits
<1>9. RunFits'
  BY <1>1 DEF RunFits
<1>10. RecordsFit'
  <2>1. UNCHANGED <<claim, evidence, flagged, torn, result>>
    BY DEF sink
  <2>2. t = Validate /\ torn = {} /\ ~cancelled => Contested(Made) \subseteq flagged
    <3>1. t = Validate /\ ~cancelled => job[t].at = "return"
      BY <1>1, <1>2, ClosingTasks DEF TaskFits, KindFits, Searches
    <3> QED
      BY <3>1 DEF StagesIInv, RecordsFit, ReviewFits
  <2> QED
    BY <1>1, <1>5, <1>6, <1>7, <2>1, <2>2, RecordsStay
<1> QED
  BY <1>5, <1>6, <1>8, <1>9, <1>10, StepKeeps

\* The result that is stored is the one whose records were kept.
LEMMA StoreKeeps ==
    ASSUME StagesIInv, NEW t \in AllTasks, Store(t)
    PROVE  StagesIInv'
<1> USE DEF Store
<1>1. StagesTypes /\ SinkTypes /\ TaskFits(t)
  BY DEF StagesIInv
<1>2. status[t] \in {"completed", "needs_review"}
  BY <1>1 DEF TaskFits, PlaceFits
<1>3. StagesTypes' /\ SinkTypes'
  <2>1. Idle \in Job
    BY StagesAssumption DEF Idle, Places, Job
  <2> QED
    BY <1>1, <2>1 DEF StagesTypes, SinkTypes, sink
<1>4. StepOf(t)
  <2>1. SinkGrows
    BY SinkStays
  <2> QED
    BY <1>1, <2>1 DEF StepOf, OthersKept, StatusKept, StagesTypes
<1>5. job'[t] = Idle
  BY <1>1 DEF StagesTypes
<1>6. TaskFits(t)'
  <2>1. PlaceFits(t)' /\ KindFits(t)'
    BY <1>2, <1>5 DEF PlaceFits, KindFits, Idle, Working, Places
  <2>2. PlanFits(t)'
    BY <1>1 DEF TaskFits, PlanFits, Own, sink, KeptSources
  <2>3. StatusFits(t)'
    <3>1. Depends(t)' = Depends(t)
      BY <1>3, <1>4, FanInKept
    <3> QED
      BY <1>1, <3>1 DEF TaskFits, StatusFits, MayFail
  <2>4. ResultFits(t)'
    BY <1>1, ResultStays
  <2>5. HeldFits(t)'
    BY <1>5 DEF HeldFits, Idle
  <2>6. FoundFits(t)'
    BY <1>1, <1>5 DEF TaskFits, FoundFits, Idle, sink
  <2> QED
    BY <2>1, <2>2, <2>3, <2>4, <2>5, <2>6 DEF TaskFits
<1>7. RunFits'
  BY DEF StagesIInv, RunFits, Inflight
<1>8. RecordsFit'
  <2>1. t = Validate /\ torn = {} => Contested(Made) \subseteq flagged
    BY <1>2 DEF StagesIInv, RecordsFit, ReviewFits
  <2>2. t = Validate /\ status[t] = "completed" => flagged = {}
    BY DEF StagesIInv, RecordsFit, ReviewFits
  <2> QED
    BY <1>1, <1>3, <1>4, <1>5, <2>1, <2>2, RecordsStay DEF sink, Idle
<1> QED
  BY <1>3, <1>4, <1>6, <1>7, <1>8, StepKeeps

-----------------------------------------------------------------------------
(* The handlers' writes.                                                   *)

\* A handler at work that keeps some things and goes on.
LEMMA WorkKeeps ==
    ASSUME StagesIInv, StagesTypes', SinkTypes', NEW t \in AllTasks, job[t].at \in Working,
           job'[t].at \in Working \ {"stop"}, SinkGrows, OthersKept(t), status'[t] = status[t],
           UNCHANGED <<attempt, due, stored, cancelled, run>>,
           KindFits(t)', ResultFits(t)', HeldFits(t)', FoundFits(t)', RecordsFit'
    PROVE  StagesIInv'
<1>1. StagesTypes /\ TaskFits(t) /\ run = "running" /\ status[t] = "running"
  BY WorkingRuns DEF StagesIInv, TaskFits, PlaceFits, Working
<1>2. StepOf(t)
  BY DEF StepOf, StatusKept
<1>3. PlaceFits(t)'
  BY <1>1 DEF TaskFits, PlaceFits, Working
<1>4. PlanFits(t)'
  BY <1>1 DEF TaskFits, PlanFits, Own, SinkGrows
<1>5. StatusFits(t)'
  <2>1. \A u \in Depends(t)' : status'[u] = "completed"
    BY <1>1, <1>2, FanInKept, DependsAreTasks DEF TaskFits, StatusFits, Started
  <2> QED
    BY <1>1, <2>1 DEF TaskFits, StatusFits
<1>6. RunFits'
  BY <1>1 DEF RunFits
<1>7. TaskFits(t)'
  BY <1>3, <1>4, <1>5 DEF TaskFits
<1> QED
  BY <1>2, <1>6, <1>7, StepKeeps

\* A found source is kept before the result names it, with its extract task.
LEMMA PersistFoundKeeps ==
    ASSUME StagesIInv, NEW t \in AllTasks, NEW x \in Sources, PersistFound(t, x)
    PROVE  StagesIInv'
<1> USE DEF PersistFound
<1>1. StagesTypes /\ SinkTypes /\ TaskFits(t) /\ Kind(t) \in Searches /\ status[t] = "running"
  BY DEF StagesIInv, TaskFits, PlaceFits, Working, Places
<1> DEFINE e == Extract(Section(t), x)
<1>2. /\ source' \in [Sources -> {"none", "found", "rated"}] /\ source'[x] # "none"
      /\ \A y \in Sources : source[y] # "none" => source'[y] # "none"
      /\ content' \subseteq Sources /\ content \subseteq content'
      /\ UNCHANGED <<extraction, node, claim, evidence, dropped, notes, flagged>>
  BY <1>1 DEF SinkTypes
<1>3. e[1] = "extract" /\ e[3] = x /\ Kind(e) = "extract" /\ e # t
  BY <1>1 DEF Extract, Kind, Searches
<1> HIDE DEF e
<1>4. /\ status' \in [AllTasks -> {"absent", "pending", "planning", "running", "completed",
                                   "failed", "needs_review", "cancelled"}]
      /\ \A u \in AllTasks : \/ status'[u] = status[u]
                             \/ /\ u = e /\ status[u] = "absent" /\ status'[u] = "pending"
                                /\ plan = "planned" /\ x \in content'
      /\ plan = "planned" /\ e \in AllTasks => status'[e] # "absent"
  <2>1. CASE plan = "provided"
    BY <1>1, <2>1 DEF StagesTypes
  <2>2. CASE plan = "planned"
    <3>1. status' = [status EXCEPT ![e] = IF @ = "absent" THEN "pending" ELSE @] /\ x \in content'
      BY <2>2 DEF e
    <3> QED
      BY <1>1, <2>2, <3>1 DEF StagesTypes
  <2> QED
    BY <1>1, <2>1, <2>2 DEF StagesTypes
<1>5. /\ job' \in [AllTasks -> Job] /\ result' \in [AllTasks -> SUBSET RecordIds]
      /\ \A u \in AllTasks \ {t} : job'[u] = job[u] /\ result'[u] = result[u]
      /\ job'[t].at = "persist" /\ job'[t].todo = job[t].todo \ {x} /\ job'[t].now = job[t].now
      /\ job'[t].known = job[t].known /\ result'[t] = result[t] \cup {x}
  BY <1>1 DEF StagesTypes, Job, RecordIds
<1>6. StagesTypes' /\ SinkTypes'
  BY <1>1, <1>2, <1>4, <1>5 DEF StagesTypes, SinkTypes
<1>7. SinkGrows
  BY <1>2 DEF SinkGrows, KeptSources, Known, Made, Evidenced
<1>8. OthersKept(t) /\ status'[t] = status[t]
  BY <1>2, <1>3, <1>4, <1>5 DEF OthersKept, KeptSources
<1>9. StepOf(t)
  BY <1>7, <1>8 DEF StepOf, StatusKept
<1>10. KindFits(t)'
  BY <1>1, <1>5 DEF KindFits
<1>11. ResultFits(t)'
  BY <1>1, <1>2, <1>5, <1>7 DEF TaskFits, ResultFits, Written, SinkGrows, KeptSources, Searches
<1>12. HeldFits(t)'
  BY <1>1, <1>5, <1>7 DEF TaskFits, HeldFits, SinkGrows, Searches
<1>13. FoundFits(t)'
  <2>1. CASE Kind(t) = "search"
    <3>1. Section(t) \in Sections
      BY <2>1, TaskShape DEF Closing, Validate, Writer, Kind
    <3>2. \A y \in Found("search", Section(t)) : plan = "planned" /\ y \in result'[t] =>
            status'[Extract(Section(t), y)] # "absent"
      <4> TAKE y \in Found("search", Section(t))
      <4>1. CASE y = x
        BY <1>4, <3>1, <4>1, ExtractTasks DEF e
      <4>2. CASE y # x
        BY <1>1, <1>5, <1>6, <1>9, <2>1, <4>2, FoundPresent DEF TaskFits, FoundFits
      <4> QED
        BY <4>1, <4>2
    <3> QED
      BY <1>1, <1>5, <1>8, <2>1, <3>2 DEF TaskFits, FoundFits
  <2> QED
    BY <1>1, <2>1 DEF FoundFits, Searches
<1>14. RecordsFit'
  BY <1>1, <1>2, <1>5, <1>6, <1>9, RecordsStay, ClosingTasks DEF Searches
<1> QED
  BY <1>5, <1>6, <1>7, <1>8, <1>10, <1>11, <1>12, <1>13, <1>14, WorkKeeps DEF Working, Places

\* A source is kept with its content before its extraction is asked for.
LEMMA RateKeeps ==
    ASSUME StagesIInv, NEW t \in AllTasks, NEW x \in Sources, Rate(t, x)
    PROVE  StagesIInv'
<1> USE DEF Rate
<1>1. /\ StagesTypes /\ SinkTypes /\ TaskFits(t) /\ Kind(t) = "evaluation"
      /\ job[t].at = "persist" /\ x \in job[t].todo
  BY DEF StagesIInv
<1>2. /\ source' \in [Sources -> {"none", "found", "rated"}] /\ source'[x] # "none"
      /\ \A y \in Sources : source[y] # "none" => source'[y] # "none"
      /\ content' = content \cup {x}
      /\ UNCHANGED <<extraction, node, claim, evidence, dropped, notes, flagged>>
      /\ UNCHANGED <<status, attempt, due, result, stored>>
  BY <1>1 DEF SinkTypes, tasks
<1>3. job' = [job EXCEPT ![t] = [at |-> "ask", todo |-> job[t].todo \ {x}, now |-> {x},
                                  known |-> job[t].known, tries |-> 1]]
  BY <1>1 DEF StagesTypes, Job
<1>4. /\ job' \in [AllTasks -> Job] /\ \A u \in AllTasks \ {t} : job'[u] = job[u]
      /\ job'[t].at = "ask" /\ job'[t].todo = job[t].todo \ {x} /\ job'[t].now = {x}
      /\ job'[t].known = job[t].known
  BY <1>1, <1>3, StagesAssumption DEF StagesTypes, Job, Places
<1>5. StagesTypes' /\ SinkTypes'
  BY <1>1, <1>2, <1>4 DEF StagesTypes, SinkTypes
<1>6. SinkGrows
  BY <1>2 DEF SinkGrows, KeptSources, Known, Made, Evidenced
<1>7. OthersKept(t) /\ StepOf(t)
  BY <1>2, <1>4, <1>6 DEF OthersKept, StepOf, StatusKept
<1>8. KindFits(t)'
  BY <1>1, <1>4 DEF KindFits
<1>9. ResultFits(t)'
  BY <1>1, <1>2, <1>6 DEF TaskFits, ResultFits, Written, SinkGrows
<1>10. HeldFits(t)'
  <2>1. x \in KeptSources' \cap content'
    BY <1>2 DEF KeptSources
  <2> QED
    BY <1>1, <1>4, <1>6, <2>1, ClosingTasks DEF TaskFits, HeldFits, SinkGrows, Searches
<1>11. FoundFits(t)'
  BY <1>1, <1>2, <1>4 DEF TaskFits, FoundFits, HeldFits
<1>12. RecordsFit'
  BY <1>1, <1>2, <1>4, <1>5, <1>7, RecordsStay, ClosingTasks
<1> QED
  BY <1>1, <1>2, <1>4, <1>5, <1>6, <1>7, <1>8, <1>9, <1>10, <1>11, <1>12, WorkKeeps
     DEF Working, Places

\* The result names a source only with its extraction.
LEMMA AnsweredKeeps ==
    ASSUME StagesIInv, NEW t \in AllTasks, NEW x \in Sources, Answered(t, x)
    PROVE  StagesIInv'
<1> USE DEF Answered, Extracted
<1>1. /\ StagesTypes /\ SinkTypes /\ TaskFits(t) /\ Kind(t) \in {"evaluation", "extract"}
      /\ job[t].at = "ask"
  BY DEF StagesIInv, TaskFits, KindFits
<1>2. x \in KeptSources \cap content /\ job[t].now = {x} /\ (Kind(t) = "extract" => x = t[3])
  BY <1>1 DEF TaskFits, HeldFits
<1>3. /\ extraction' = extraction \cup {x} /\ cached' = cached \cup {x}
      /\ UNCHANGED <<status, attempt, due, stored, source, content, node, claim, evidence,
                     dropped, notes, flagged>>
  OBVIOUS
<1>4. /\ After(t) = IF Kind(t) = "extract" THEN "return" ELSE "persist"
      /\ job' = [job EXCEPT ![t].at = After(t), ![t].now = {}]
  BY DEF After
<1>5. job' = [job EXCEPT ![t] = [at |-> After(t), todo |-> job[t].todo, now |-> {},
                                  known |-> job[t].known, tries |-> job[t].tries]]
  BY <1>1, <1>4 DEF StagesTypes, Job
<1>6. /\ job' \in [AllTasks -> Job] /\ \A u \in AllTasks \ {t} : job'[u] = job[u]
      /\ job'[t].at = After(t) /\ job'[t].todo = job[t].todo /\ job'[t].now = {}
      /\ job'[t].known = job[t].known
  BY <1>1, <1>4, <1>5 DEF StagesTypes, Job, Places
<1>7. /\ result' \in [AllTasks -> SUBSET RecordIds]
      /\ \A u \in AllTasks \ {t} : result'[u] = result[u]
      /\ result'[t] = result[t] \cup {x}
  BY <1>1 DEF StagesTypes, RecordIds
<1>8. StagesTypes' /\ SinkTypes'
  BY <1>1, <1>3, <1>6, <1>7 DEF StagesTypes, SinkTypes
<1>9. SinkGrows
  BY <1>3 DEF SinkGrows, KeptSources, Known, Made, Evidenced
<1>10. OthersKept(t) /\ StepOf(t)
  BY <1>3, <1>6, <1>7, <1>9 DEF OthersKept, StepOf, StatusKept
<1>11. KindFits(t)'
  BY <1>1, <1>4, <1>6 DEF KindFits, Searches
<1>12. ResultFits(t)'
  BY <1>1, <1>2, <1>3, <1>7, <1>9 DEF TaskFits, ResultFits, Written, SinkGrows
<1>13. HeldFits(t)'
  BY <1>1, <1>4, <1>6, <1>9, ClosingTasks DEF TaskFits, HeldFits, SinkGrows, Searches
<1>14. FoundFits(t)'
  <2>1. status[t] = "running"
    BY <1>1 DEF TaskFits, PlaceFits, Working, Places
  <2> QED
    BY <1>1, <1>2, <1>3, <1>4, <1>6, <2>1 DEF TaskFits, FoundFits
<1>15. RecordsFit'
  BY <1>1, <1>3, <1>7, <1>8, <1>10, RecordsStay, ClosingTasks
<1> QED
  BY <1>1, <1>3, <1>4, <1>6, <1>8, <1>9, <1>10, <1>11, <1>12, <1>13, <1>14, <1>15, WorkKeeps
     DEF Working, Places

\* Nodes are kept over sources that have content and extraction.
LEMMA PersistNodesKeeps ==
    ASSUME StagesIInv, NEW t \in AllTasks, PersistNodes(t)
    PROVE  StagesIInv'
<1> USE DEF PersistNodes
<1> DEFINE made == MentionedIn(job[t].todo)
           step == IF Kind(t) = "normalize" THEN "return" ELSE "claims"
<1>1. /\ StagesTypes /\ SinkTypes /\ TaskFits(t) /\ Kind(t) \in {"normalization", "normalize"}
      /\ job[t].at = "nodes"
  BY DEF StagesIInv, TaskFits, KindFits
<1>2. job[t].todo \subseteq content \cap extraction /\ job[t].todo \subseteq Sources
  BY <1>1 DEF TaskFits, HeldFits, SinkTypes
<1>3. /\ made \subseteq Nodes
      /\ node' \in [Nodes -> SUBSET Sources]
      /\ \A n \in made : node'[n] # {}
      /\ \A n \in Nodes \ made : node'[n] = node[n]
      /\ UNCHANGED <<plan, status, attempt, due, stored, source, content, extraction, claim,
                     evidence, dropped, notes, flagged, cached, torn, cancelled, run, failures>>
  <2>1. made \subseteq Nodes
    BY <1>2, RecordsAssumption DEF MentionedIn
  <2>2. \A n \in made : {x \in job[t].todo : n \in Mentions(x)} # {}
    BY DEF MentionedIn
  <2> QED
    BY <1>1, <1>2, <2>1, <2>2 DEF SinkTypes
<1>4. /\ result' = [result EXCEPT ![t] = @ \cup made]
      /\ job' = [job EXCEPT ![t].at = step, ![t].known = made]
  OBVIOUS
<1>16. step = IF Kind(t) = "normalize" THEN "return" ELSE "claims"
  OBVIOUS
<1> HIDE DEF made, step, PersistNodes
<1>5. job' = [job EXCEPT ![t] = [at |-> step, todo |-> job[t].todo, now |-> job[t].now,
                                  known |-> made, tries |-> job[t].tries]]
  <2> DEFINE r == [at |-> job[t].at, todo |-> job[t].todo, now |-> job[t].now,
                   known |-> job[t].known, tries |-> job[t].tries]
             s == [at |-> step, todo |-> job[t].todo, now |-> job[t].now,
                   known |-> job[t].known, tries |-> job[t].tries]
             one == [job EXCEPT ![t].at = step]
  <2>1. job[t] = r
    BY <1>1 DEF StagesTypes, Job
  <2>2. one = [job EXCEPT ![t] = s]
    <3>1. [r EXCEPT !.at = step] = s
      OBVIOUS
    <3> HIDE DEF r, s
    <3> QED
      BY <2>1, <3>1
  <2>3. one[t] = s /\ one = [u \in AllTasks |-> one[u]]
    BY <1>1, <2>2 DEF StagesTypes
  <2>4. [s EXCEPT !.known = made] =
          [at |-> step, todo |-> job[t].todo, now |-> job[t].now, known |-> made,
           tries |-> job[t].tries]
    OBVIOUS
  <2>5. job' = [one EXCEPT ![t] = [one[t] EXCEPT !.known = made]]
    BY <1>1, <1>4 DEF StagesTypes
  <2> HIDE DEF one, s
  <2> QED
    BY <2>2, <2>3, <2>4, <2>5
<1>6. /\ job' \in [AllTasks -> Job] /\ \A u \in AllTasks \ {t} : job'[u] = job[u]
      /\ job'[t].at = step /\ job'[t].todo = job[t].todo /\ job'[t].known = made
  <2>1. step \in Places
    BY <1>16 DEF Places
  <2> HIDE DEF made, step
  <2>2. job[t] \in Job
    BY <1>1 DEF StagesTypes
  <2>3. [at |-> step, todo |-> job[t].todo, now |-> job[t].now, known |-> made,
         tries |-> job[t].tries] \in Job
    BY <1>3, <2>1, <2>2 DEF Job
  <2> QED
    BY <1>1, <1>5, <2>3 DEF StagesTypes
<1>7. /\ result' \in [AllTasks -> SUBSET RecordIds]
      /\ \A u \in AllTasks \ {t} : result'[u] = result[u]
      /\ result'[t] = result[t] \cup made
  BY <1>1, <1>3, <1>4 DEF StagesTypes, RecordIds
<1>8. StagesTypes' /\ SinkTypes'
  BY <1>1, <1>3, <1>6, <1>7 DEF StagesTypes, SinkTypes
<1>9. SinkGrows /\ made \subseteq Known'
  BY <1>3 DEF SinkGrows, KeptSources, Known, Made, Evidenced
<1>10. OthersKept(t) /\ StepOf(t)
  BY <1>3, <1>6, <1>7, <1>9 DEF OthersKept, StepOf, StatusKept
<1>11. KindFits(t)'
  BY <1>1, <1>6, <1>16, ClosingTasks DEF KindFits, Searches
<1>12. ResultFits(t)'
  BY <1>1, <1>7, <1>9 DEF TaskFits, ResultFits, Written, SinkGrows
<1>13. HeldFits(t)'
  BY <1>1, <1>6, <1>9, <1>16, ClosingTasks DEF TaskFits, HeldFits, SinkGrows, Searches
<1>14. FoundFits(t)'
  BY <1>1 DEF FoundFits
<1>15. RecordsFit'
  BY <1>1, <1>3, <1>7, <1>8, <1>10, RecordsStay, ClosingTasks
<1> QED
  BY <1>1, <1>3, <1>6, <1>8, <1>9, <1>10, <1>11, <1>12, <1>13, <1>14, <1>15, <1>16, WorkKeeps
     DEF Working, Places

\* While a task that makes claims works, validation has not begun.
LEMMA MakersFirst ==
    ASSUME StagesIInv, NEW t \in AllTasks, Kind(t) \in {"normalization", "claims"},
           status[t] = "running"
    PROVE  /\ t \in FanIn /\ t # Validate /\ flagged = {}
           /\ status[Validate] \notin Started /\ job[Validate].at \notin {"validate", "return"}
<1>1. StagesTypes /\ RecordsFit /\ TaskFits(Validate)
  BY ClosingTasks DEF StagesIInv
<1>2. t \in FanIn /\ t # Validate
  BY <1>1, DependsOn, ClosingTasks
<1>3. flagged = {}
  BY <1>1, <1>2 DEF RecordsFit, ReviewFits
<1>4. status[Validate] \notin Started
  BY <1>1, <1>2, DependsOn, ClosingTasks DEF TaskFits, StatusFits
<1>5. job[Validate].at \notin {"validate", "return"}
  BY <1>1, <1>4 DEF TaskFits, PlaceFits, Started, Working, Places
<1> QED
  BY <1>2, <1>3, <1>4, <1>5

\* Claims are made about known nodes, before validation looks at them.
LEMMA PersistClaimsKeeps ==
    ASSUME StagesIInv, NEW t \in AllTasks, PersistClaims(t)
    PROVE  StagesIInv'
<1> USE DEF PersistClaims
<1>1. /\ StagesTypes /\ SinkTypes /\ TaskFits(t) /\ Kind(t) \in {"normalization", "claims"}
      /\ job[t].at = "claims" /\ status[t] = "running"
  BY DEF StagesIInv, TaskFits, KindFits, PlaceFits, Working, Places
<1> DEFINE made == Resolved(t)
<1>2. job[t].todo \subseteq content \cap extraction /\ job[t].todo \subseteq Sources
  BY <1>1 DEF TaskFits, HeldFits, SinkTypes
<1>3. /\ made \subseteq Claims
      /\ claim' \in [Claims -> [from : SUBSET Sources, review : BOOLEAN]]
      /\ \A c \in made : claim'[c].from # {} /\ Subject(c) \in Known
      /\ \A c \in Claims \ made : claim'[c] = claim[c]
      /\ UNCHANGED <<plan, status, attempt, due, stored, source, content, extraction, node,
                     evidence, dropped, notes, flagged, cached, torn, cancelled, run, failures>>
  <2>1. AssertedIn(job[t].todo) \subseteq Claims
    BY <1>2, RecordsAssumption DEF AssertedIn
  <2>2. \A c \in AssertedIn(job[t].todo) : Backing(t, c) # {} /\ Backing(t, c) \subseteq Sources
    BY <1>2 DEF AssertedIn, Backing
  <2>3. /\ \A c \in made : claim'[c] = [from |-> Backing(t, c),
                                        review |-> FALSE]
        /\ \A c \in Claims \ made : claim'[c] = claim[c]
        /\ claim' = [c \in Claims |-> claim'[c]]
    BY <2>1 DEF Resolved
  <2>4. \A c \in made : c \in Claims /\ Subject(c) \in Known
    BY <1>1, <2>1 DEF Resolved, Resolves, TaskFits, HeldFits
  <2>5. \A c \in made : claim'[c] \in [from : SUBSET Sources, review : BOOLEAN]
    <3> TAKE c \in made
    <3> DEFINE from == Backing(t, c)
    <3>1. from \subseteq Sources
      BY <2>1, <2>2 DEF Resolved
    <3> HIDE DEF made, PersistClaims, from
    <3>2. claim'[c] = [from |-> from, review |-> FALSE]
      BY <2>3 DEF from
    <3> QED
      BY <3>1, <3>2
  <2>6. \A c \in Claims \ made : claim'[c] \in [from : SUBSET Sources, review : BOOLEAN]
    BY <1>1, <2>3 DEF SinkTypes
  <2>7. claim' \in [Claims -> [from : SUBSET Sources, review : BOOLEAN]]
    BY <2>3, <2>5, <2>6
  <2>8. \A c \in made : claim'[c].from # {}
    <3>1. made \subseteq AssertedIn(job[t].todo)
      BY DEF Resolved
    <3> HIDE DEF made, PersistClaims
    <3> TAKE c \in made
    <3> DEFINE from == Backing(t, c)
    <3>2. from # {}
      BY <2>2, <3>1
    <3>3. claim'[c] = [from |-> from, review |-> FALSE]
      BY <2>3
    <3> HIDE DEF from
    <3> QED
      BY <3>2, <3>3
  <2> QED
    BY <2>3, <2>4, <2>7, <2>8
<1>4. /\ job' = [job EXCEPT ![t].at = "evidence"]
      /\ result' = [result EXCEPT ![t] = @ \cup made]
  BY DEF Goto
<1>5. Resolved(t)' = made
  <2>1. job'[t].todo = job[t].todo /\ job'[t].known = job[t].known
    BY <1>1, <1>4 DEF StagesTypes, Job
  <2> QED
    BY <2>1 DEF Resolved, Resolves
<1> HIDE DEF made, PersistClaims
<1>6. /\ job' \in [AllTasks -> Job] /\ \A u \in AllTasks \ {t} : job'[u] = job[u]
      /\ job'[t].at = "evidence" /\ job'[t].todo = job[t].todo /\ job'[t].known = job[t].known
  BY <1>1, <1>4 DEF StagesTypes, Job, Places
<1>7. /\ result' \in [AllTasks -> SUBSET RecordIds]
      /\ \A u \in AllTasks \ {t} : result'[u] = result[u]
      /\ result'[t] = result[t] \cup made
  BY <1>1, <1>3, <1>4 DEF StagesTypes, RecordIds
<1>8. StagesTypes' /\ SinkTypes'
  BY <1>1, <1>3, <1>6, <1>7 DEF StagesTypes, SinkTypes
<1>9. SinkGrows /\ Made' = Made \cup made /\ Known' = Known
  BY <1>3 DEF SinkGrows, KeptSources, Known, Made, Evidenced
<1>10. OthersKept(t) /\ StepOf(t)
  BY <1>3, <1>6, <1>7, <1>9 DEF OthersKept, StepOf, StatusKept
<1>11. KindFits(t)'
  BY <1>1, <1>6 DEF KindFits
<1>12. ResultFits(t)'
  <2>1. Written(t)' = made /\ Written(t) = {}
    BY <1>1, <1>5, <1>6 DEF Written
  <2> QED
    BY <1>1, <1>7, <1>9, <2>1 DEF TaskFits, ResultFits, SinkGrows
<1>13. HeldFits(t)'
  BY <1>1, <1>5, <1>6, <1>9, ClosingTasks DEF TaskFits, HeldFits, SinkGrows, Searches
<1>14. FoundFits(t)'
  BY <1>1 DEF FoundFits
<1>15. RecordsFit'
  <2>1. /\ t \in FanIn /\ t # Validate /\ flagged = {}
        /\ status[Validate] \notin Started /\ job[Validate].at \notin {"validate", "return"}
    BY <1>1, MakersFirst
  <2>2. ClaimsFit'
    <3>1. FanIn' = FanIn /\ FanIn \subseteq AllTasks
      BY <1>8, <1>10, FanInKept DEF FanIn, Of
    <3> QED
      BY <1>7, <1>9, <2>1, <3>1 DEF StagesIInv, RecordsFit, ClaimsFit
  <2>3. ReviewFits'
    <3>1. job'[Validate] = job[Validate] /\ status'[Validate] = status[Validate] /\ flagged' = {}
      BY <1>3, <1>6, <2>1, ClosingTasks
    <3> QED
      BY <2>1, <3>1 DEF ReviewFits, Started
  <2>4. EvidenceIsGrounded'
    <3>1. \A c \in Claims : /\ evidence'[c] # {} => claim'[c].from # {}
                            /\ evidence'[c] \subseteq content' \cap extraction'
      BY <1>1, <1>3 DEF StagesIInv, RecordsFit, EvidenceIsGrounded, SinkTypes
    <3>2. \A c \in Claims : claim'[c].from # {} => node'[Subject(c)] # {}
      BY <1>3 DEF StagesIInv, RecordsFit, EvidenceIsGrounded, Known
    <3> QED
      BY <3>1, <3>2 DEF EvidenceIsGrounded
  <2>5. FlagsStay'
    BY <1>3, <2>1 DEF FlagsStay
  <2> QED
    BY <2>2, <2>3, <2>4, <2>5 DEF RecordsFit
<1> QED
  BY <1>1, <1>3, <1>6, <1>8, <1>9, <1>10, <1>11, <1>12, <1>13, <1>14, <1>15, WorkKeeps
     DEF Working, Places

\* Evidence is kept for claims that were made.
LEMMA PersistEvidenceKeeps ==
    ASSUME StagesIInv, NEW t \in AllTasks, PersistEvidence(t)
    PROVE  StagesIInv'
<1> USE DEF PersistEvidence
<1>1. /\ StagesTypes /\ SinkTypes /\ TaskFits(t) /\ Kind(t) \in {"normalization", "claims"}
      /\ job[t].at = "evidence" /\ status[t] = "running"
  BY DEF StagesIInv, TaskFits, KindFits, PlaceFits, Working, Places
<1>2. /\ job[t].todo \subseteq content \cap extraction /\ job[t].todo \subseteq Sources
      /\ Resolved(t) \subseteq Made
  BY <1>1 DEF TaskFits, HeldFits, SinkTypes
<1> DEFINE named == {e \in EvidenceIds : e[1] \in Resolved(t) /\ e[2] \in Backing(t, e[1])}
<1>3. /\ evidence' \in [Claims -> SUBSET Sources] /\ dropped' \in [Sources -> SUBSET Claims]
      /\ \A c \in Resolved(t) : evidence'[c] # {} /\ evidence'[c] \subseteq content \cap extraction
      /\ \A c \in Claims \ Resolved(t) : evidence'[c] = evidence[c]
      /\ UNCHANGED <<plan, status, attempt, due, stored, source, content, extraction,
                     node, claim, notes, flagged, cached, torn, cancelled, run, failures>>
  <2>1. \A c \in Resolved(t) : Last(Backing(t, c)) \in job[t].todo
    <3>1. \A c \in Resolved(t) : Backing(t, c) # {} /\ Backing(t, c) \subseteq job[t].todo
      BY DEF Resolved, AssertedIn, Backing
    <3> QED
      BY <1>2, <3>1, RecordsAssumption
  <2>2. \A c \in Resolved(t) : evidence'[c] = {Last(Backing(t, c))}
    BY <1>2 DEF Made
  <2>3. evidence' \in [Claims -> SUBSET Sources]
    BY <1>1, <1>2, <2>1 DEF SinkTypes
  <2>4. dropped' \in [Sources -> SUBSET Claims]
    <3>1. \A x \in Sources : Unresolved(t, x) # {} =>
            Last(Unresolved(t, x)) \in Claims
      <4>1. \A x \in Sources : Unresolved(t, x) \subseteq Claims
        BY RecordsAssumption DEF Unresolved
      <4> QED
        BY <4>1, RecordsAssumption
    <3> QED
      BY <1>1, <3>1 DEF SinkTypes
  <2> QED
    BY <1>2, <2>1, <2>2, <2>3, <2>4
<1>4. /\ job' = [job EXCEPT ![t].at = "return"]
      /\ result' = [result EXCEPT ![t] = @ \cup named]
  BY DEF Goto
<1>5. /\ result' \in [AllTasks -> SUBSET RecordIds]
      /\ \A u \in AllTasks \ {t} : result'[u] = result[u]
      /\ result'[t] = result[t] \cup named
  BY <1>1, <1>4 DEF StagesTypes, RecordIds
<1>7. \A i \in named : i \in EvidenceIds /\ i[1] \in Resolved(t)
  OBVIOUS
<1> HIDE DEF PersistEvidence, named
<1>6. /\ job' \in [AllTasks -> Job] /\ \A u \in AllTasks \ {t} : job'[u] = job[u]
      /\ job'[t].at = "return" /\ job'[t].todo = job[t].todo /\ job'[t].known = job[t].known
  BY <1>1, <1>4 DEF StagesTypes, Job, Places
<1>8. StagesTypes' /\ SinkTypes'
  BY <1>1, <1>3, <1>5, <1>6 DEF StagesTypes, SinkTypes
<1>9. SinkGrows /\ Made' = Made /\ Resolved(t) \subseteq Evidenced'
  BY <1>2, <1>3 DEF SinkGrows, KeptSources, Known, Made, Evidenced
<1>10. OthersKept(t) /\ StepOf(t)
  BY <1>3, <1>5, <1>6, <1>9 DEF OthersKept, StepOf, StatusKept
<1>11. KindFits(t)'
  BY <1>1, <1>6 DEF KindFits, Searches
<1>12. ResultFits(t)'
  <2>1. Written(t) = Resolved(t)
    BY <1>1 DEF Written
  <2> QED
    BY <1>1, <1>5, <1>7, <1>9, <2>1 DEF TaskFits, ResultFits, SinkGrows
<1>13. HeldFits(t)'
  BY <1>1, <1>6, <1>9, ClosingTasks DEF TaskFits, HeldFits, SinkGrows, Searches
<1>14. FoundFits(t)'
  BY <1>1 DEF FoundFits
<1>15. RecordsFit'
  <2>1. /\ t \in FanIn /\ t # Validate /\ flagged = {}
        /\ status[Validate] \notin Started /\ job[Validate].at \notin {"validate", "return"}
    BY <1>1, MakersFirst
  <2>2. ClaimsFit'
    <3>1. FanIn' = FanIn
      BY <1>8, <1>10, FanInKept
    <3> QED
      BY <1>5, <1>9, <3>1 DEF StagesIInv, RecordsFit, ClaimsFit, FanIn, Of
  <2>3. ReviewFits'
    <3>1. job'[Validate] = job[Validate] /\ status'[Validate] = status[Validate] /\ flagged' = {}
      BY <1>3, <1>6, <2>1, ClosingTasks
    <3> QED
      BY <2>1, <3>1 DEF ReviewFits, Started
  <2>4. EvidenceIsGrounded'
    BY <1>2, <1>3 DEF StagesIInv, RecordsFit, EvidenceIsGrounded, Made
  <2>5. FlagsStay'
    BY <1>3, <2>1 DEF FlagsStay
  <2> QED
    BY <2>2, <2>3, <2>4, <2>5 DEF RecordsFit
<1> QED
  BY <1>1, <1>3, <1>5, <1>6, <1>8, <1>9, <1>10, <1>11, <1>12, <1>13, <1>14, <1>15, WorkKeeps
     DEF Working, Places

\* Validation flags every conflict among all claims.
LEMMA CheckKeeps ==
    ASSUME StagesIInv, NEW t \in AllTasks, Check(t)
    PROVE  StagesIInv'
<1> USE DEF Check
<1>1. /\ StagesTypes /\ SinkTypes /\ RecordsFit /\ TaskFits(t) /\ t = Validate
      /\ job[t].at = "validate" /\ status[t] = "running"
  BY DEF StagesIInv, TaskFits, KindFits, PlaceFits, Working, Places
<1> DEFINE found == Contested(job[t].todo)
<1>2. found \subseteq job[t].todo /\ job[t].todo \subseteq Claims
  BY <1>1 DEF TaskFits, HeldFits, Contested
<1>3. /\ flagged' = found
      /\ claim' = [c \in Claims |-> IF c \in found THEN [claim[c] EXCEPT !.review = TRUE]
                                    ELSE claim[c]]
      /\ job' = [job EXCEPT ![t].at = "return"]
      /\ UNCHANGED <<plan, status, attempt, due, result, stored, source, content, extraction,
                     node, evidence, dropped, notes, cached, torn, cancelled, run, failures>>
  BY DEF Goto, tasks
<1>4. torn = {} => Contested(Made) \subseteq found
  <2>1. torn = {} => Made \subseteq job[t].todo
    BY <1>1 DEF RecordsFit, ReviewFits
  <2> QED
    BY <2>1 DEF Contested
<1> HIDE DEF Check, found
<1>5. /\ claim' \in [Claims -> [from : SUBSET Sources, review : BOOLEAN]]
      /\ \A c \in Claims : claim'[c].from = claim[c].from
      /\ \A c \in found : claim'[c].review
  <2>1. \A c \in Claims : claim[c] \in [from : SUBSET Sources, review : BOOLEAN]
    BY <1>1 DEF SinkTypes
  <2> QED
    BY <1>2, <1>3, <2>1
<1>6. /\ job' \in [AllTasks -> Job] /\ \A u \in AllTasks \ {t} : job'[u] = job[u]
      /\ job'[t].at = "return" /\ job'[t].todo = job[t].todo /\ job'[t].known = job[t].known
  <2>1. job \in [AllTasks -> Job] /\ job' = [job EXCEPT ![t].at = "return"]
    BY <1>1, <1>3 DEF StagesTypes
  <2> QED
    BY <2>1 DEF Job, Places
<1>8. StagesTypes' /\ SinkTypes'
  BY <1>1, <1>2, <1>3, <1>5, <1>6 DEF StagesTypes, SinkTypes
<1>9. SinkGrows /\ Made' = Made
  BY <1>3, <1>5 DEF SinkGrows, KeptSources, Known, Made, Evidenced
<1>10. OthersKept(t) /\ StepOf(t)
  BY <1>3, <1>6, <1>9 DEF OthersKept, StepOf, StatusKept
<1>11. KindFits(t)'
  BY <1>1, <1>6, ClosingTasks DEF KindFits, Searches
<1>12. ResultFits(t)'
  BY <1>1, <1>3, <1>9 DEF TaskFits, ResultFits, Written, SinkGrows
<1>13. HeldFits(t)'
  BY <1>1, <1>6, <1>9, ClosingTasks DEF TaskFits, HeldFits, SinkGrows, Searches
<1>14. FoundFits(t)'
  BY <1>1, ClosingTasks DEF FoundFits
<1>15. RecordsFit'
  <2>1. FanIn' = FanIn /\ FanIn \subseteq AllTasks
    BY <1>8, <1>10, FanInKept DEF FanIn, Of
  <2>2. ClaimsFit'
    BY <1>1, <1>3, <1>9, <2>1 DEF RecordsFit, ClaimsFit
  <2>3. ReviewFits'
    <3>1. \A u \in FanIn : status[u] = "completed"
      BY <1>1, DependsOn DEF TaskFits, StatusFits, Started
    <3>2. Contested(Made)' = Contested(Made)
      BY <1>9 DEF Contested
    <3> QED
      BY <1>1, <1>3, <1>4, <1>6, <2>1, <3>1, <3>2 DEF ReviewFits
  <2>4. EvidenceIsGrounded'
    BY <1>1, <1>3, <1>5 DEF RecordsFit, EvidenceIsGrounded, SinkTypes
  <2>5. FlagsStay'
    BY <1>3, <1>5 DEF FlagsStay
  <2> QED
    BY <2>2, <2>3, <2>4, <2>5 DEF RecordsFit
<1> QED
  BY <1>1, <1>3, <1>6, <1>8, <1>9, <1>10, <1>11, <1>12, <1>13, <1>14, <1>15, WorkKeeps
     DEF Working, Places

\* The writer touches nothing but its notes.
LEMMA WriteKeeps ==
    ASSUME StagesIInv, NEW t \in AllTasks, Write(t)
    PROVE  StagesIInv'
<1>1. /\ StagesTypes /\ SinkTypes /\ TaskFits(t) /\ t = Writer /\ job[t].at = "write"
  BY DEF StagesIInv, TaskFits, KindFits, Write
<1>2. job[t].todo \subseteq Nodes
  BY <1>1 DEF TaskFits, HeldFits
<1>3. /\ job' = [job EXCEPT ![t].at = "return"] /\ notes' = job[t].todo
      /\ UNCHANGED <<plan, status, attempt, due, result, stored, source, content, extraction,
                     node, claim, evidence, dropped, flagged, cached, torn, cancelled, run,
                     failures>>
  BY DEF Goto, Write, tasks
<1>6. /\ job' \in [AllTasks -> Job] /\ \A u \in AllTasks \ {t} : job'[u] = job[u]
      /\ job'[t].at = "return" /\ job'[t].todo = job[t].todo /\ job'[t].known = job[t].known
  BY <1>1, <1>3 DEF StagesTypes, Job, Places
<1>8. StagesTypes' /\ SinkTypes'
  BY <1>1, <1>2, <1>3, <1>6 DEF StagesTypes, SinkTypes
<1>9. SinkGrows
  BY <1>3 DEF SinkGrows, KeptSources, Known, Made, Evidenced
<1>10. OthersKept(t) /\ StepOf(t)
  BY <1>3, <1>6, <1>9 DEF OthersKept, StepOf, StatusKept
<1>11. KindFits(t)'
  BY <1>1, <1>6, ClosingTasks DEF KindFits, Searches
<1>12. ResultFits(t)'
  BY <1>1, <1>3, <1>9 DEF TaskFits, ResultFits, Written, SinkGrows
<1>13. HeldFits(t)'
  BY <1>1, <1>6, <1>9, ClosingTasks DEF TaskFits, HeldFits, SinkGrows, Searches
<1>14. FoundFits(t)'
  BY <1>1, ClosingTasks DEF FoundFits
<1>15. RecordsFit'
  BY <1>1, <1>3, <1>8, <1>10, RecordsStay, ClosingTasks
<1> QED
  BY <1>1, <1>3, <1>6, <1>8, <1>9, <1>10, <1>11, <1>12, <1>13, <1>14, <1>15, WorkKeeps
     DEF Working, Places

-----------------------------------------------------------------------------
(* The run.                                                                *)

\* A cancellation only lets more things happen.
LEMMA CancelKeeps ==
    ASSUME StagesIInv, Cancel
    PROVE  StagesIInv'
<1> USE DEF Cancel
<1>1. /\ cancelled' = TRUE /\ run = "running" /\ run' = run
      /\ UNCHANGED <<plan, status, attempt, due, result, stored, job, source, content,
                     extraction, node, claim, evidence, dropped, notes, flagged, cached, torn>>
  BY DEF tasks, sink
<1>2. StagesTypes' /\ SinkTypes'
  BY <1>1 DEF StagesIInv, StagesTypes, SinkTypes
<1>3. /\ FanIn' = FanIn /\ KeptSources' = KeptSources /\ Known' = Known /\ Made' = Made
      /\ Evidenced' = Evidenced
  BY <1>1 DEF FanIn, Of, KeptSources, Known, Made, Evidenced
<1>4. ASSUME NEW t \in AllTasks PROVE TaskFits(t)'
  <2>1. TaskFits(t)
    BY DEF StagesIInv
  <2>2. Depends(t)' = Depends(t) /\ Resolved(t)' = Resolved(t)
    BY <1>1, <1>3 DEF Depends, Resolved, Resolves
  <2>3. PlaceFits(t)' /\ KindFits(t)' /\ PlanFits(t)'
    BY <1>1, <1>3, <2>1 DEF TaskFits, PlaceFits, KindFits, PlanFits, Own
  <2>4. StatusFits(t)'
    BY <1>1, <2>1, <2>2 DEF TaskFits, StatusFits
  <2>5. ResultFits(t)' /\ HeldFits(t)' /\ FoundFits(t)'
    BY <1>1, <1>3, <2>1, <2>2 DEF TaskFits, ResultFits, Written, HeldFits, FoundFits
  <2> QED
    BY <2>3, <2>4, <2>5 DEF TaskFits
<1>5. RunFits'
  BY <1>1 DEF RunFits
<1>6. RecordsFit'
  BY <1>1, <1>3 DEF StagesIInv, RecordsFit, ClaimsFit, ReviewFits, EvidenceIsGrounded, FlagsStay,
                    Contested
<1> QED
  BY <1>2, <1>4, <1>5, <1>6 DEF StagesIInv

\* A run ends when no task works, and completes without a failed or waiting one.
LEMMA FinalizeKeeps ==
    ASSUME StagesIInv, Finalize
    PROVE  StagesIInv'
<1> USE DEF Finalize
<1>1. StagesTypes /\ SinkTypes /\ Inflight = {}
  BY DEF StagesIInv
<1>2. UNCHANGED <<plan, attempt, due, result, stored, job, source, content, extraction, node,
                  claim, evidence, dropped, notes, flagged, cached, torn, cancelled, failures>>
  BY DEF sink
<1>3. /\ status' \in [AllTasks -> {"absent", "pending", "planning", "running", "completed",
                                   "failed", "needs_review", "cancelled"}]
      /\ \A t \in AllTasks : \/ status'[t] = status[t]
                             \/ status[t] = "pending" /\ status'[t] = "cancelled" /\ cancelled
  <2>1. CASE cancelled
    <3>1. status' = [t \in AllTasks |->
                        IF status[t] \in {"pending"} THEN "cancelled" ELSE status[t]]
      BY <2>1
    <3> HIDE DEF Finalize
    <3> QED
      BY <1>1, <2>1, <3>1 DEF StagesTypes
  <2>2. CASE ~cancelled
    <3>1. status' = status
      BY <2>2
    <3> QED
      BY <1>1, <3>1 DEF StagesTypes
  <2> QED
    BY <2>1, <2>2
<1>4. StagesTypes' /\ SinkTypes'
  BY <1>1, <1>2, <1>3 DEF StagesTypes, SinkTypes
<1>5. /\ FanIn' = FanIn /\ KeptSources' = KeptSources /\ Known' = Known /\ Made' = Made
      /\ Evidenced' = Evidenced
  BY <1>2, <1>3 DEF FanIn, Of, KeptSources, Known, Made, Evidenced
<1>6. ASSUME NEW t \in AllTasks PROVE TaskFits(t)'
  <2>1. TaskFits(t)
    BY DEF StagesIInv
  <2>2. /\ Depends(t)' = Depends(t) /\ Resolved(t)' = Resolved(t)
        /\ \A u \in Depends(t) : status[u] = "completed" => status'[u] = "completed"
    BY <1>1, <1>2, <1>3, <1>5, DependsAreTasks DEF Depends, Resolved, Resolves
  <2>3. PlaceFits(t)' /\ KindFits(t)' /\ PlanFits(t)'
    BY <1>2, <1>3, <1>5, <2>1 DEF TaskFits, PlaceFits, KindFits, PlanFits, Own
  <2>4. StatusFits(t)'
    BY <1>2, <1>3, <2>1, <2>2 DEF TaskFits, StatusFits, Started
  <2>5. ResultFits(t)' /\ HeldFits(t)'
    BY <1>2, <1>5, <2>1, <2>2 DEF TaskFits, ResultFits, Written, HeldFits
  <2>6. FoundFits(t)'
    <3>1. Kind(t) = "search" =>
            \A x \in Found("search", Section(t)) : Extract(Section(t), x) \in AllTasks
      BY TaskShape, ExtractTasks DEF Closing, Validate, Writer, Kind
    <3>2. Kind(t) = "search" =>
            \A x \in Found("search", Section(t)) : status[Extract(Section(t), x)] # "absent" =>
                status'[Extract(Section(t), x)] # "absent"
      BY <1>3, <3>1
    <3> QED
      BY <1>2, <1>3, <2>1, <3>2 DEF TaskFits, FoundFits
  <2> QED
    BY <2>3, <2>4, <2>5, <2>6 DEF TaskFits
<1>7. RunFits'
  <2>1. Inflight' = {}
    BY <1>1, <1>3 DEF Inflight
  <2>2. ~cancelled => \A t \in AllTasks : status'[t] = status[t] /\ status[t] # "cancelled"
    BY <1>3 DEF StagesIInv, TaskFits, StatusFits
  <2> QED
    BY <1>2, <2>1, <2>2 DEF RunFits
<1>8. RecordsFit'
  <2>1. /\ \A u \in FanIn : status[u] = "completed" => status'[u] = "completed"
        /\ status'[Validate] \in {"completed", "needs_review"} =>
             status'[Validate] = status[Validate]
    BY <1>3, ClosingTasks DEF FanIn, Of
  <2>2. RecordsFit /\ Contested(Made)' = Contested(Made)
    BY <1>5 DEF StagesIInv, Contested
  <2>3. ReviewFits'
    BY <1>2, <1>5, <2>1, <2>2 DEF RecordsFit, ReviewFits
  <2> QED
    BY <1>2, <1>5, <2>2, <2>3 DEF RecordsFit, ClaimsFit, EvidenceIsGrounded, FlagsStay
<1> QED
  BY <1>4, <1>6, <1>7, <1>8 DEF StagesIInv

\* It holds before the first submission.
LEMMA StagesBegin == StagesInit => StagesIInv
<1> SUFFICES ASSUME StagesInit PROVE StagesIInv
  OBVIOUS
<1> USE DEF StagesInit
<1>1. Idle \in Job
  BY StagesAssumption DEF Idle, Places, Job
<1>2. StagesTypes /\ SinkTypes
  <2>1. status \in [AllTasks -> {"absent", "pending", "planning", "running", "completed",
                                "failed", "needs_review", "cancelled"}]
    OBVIOUS
  <2>2. attempt \in [AllTasks -> 0 .. MaxAttempts] /\ failures \in 0 .. MaxFailures
    BY StagesAssumption
  <2>3. job \in [AllTasks -> Job] /\ result \in [AllTasks -> SUBSET RecordIds]
    BY <1>1
  <2>4. claim \in [Claims -> [from : SUBSET Sources, review : BOOLEAN]]
    BY DEF NoClaim
  <2>5. node \in [Nodes -> SUBSET Sources] /\ source \in [Sources -> {"none", "found", "rated"}]
    OBVIOUS
  <2> QED
    BY <2>1, <2>2, <2>3, <2>4, <2>5 DEF StagesTypes, SinkTypes
<1>3. \A t \in AllTasks : status[t] = IF Own(t) THEN "pending" ELSE "absent"
  BY DEF Own
<1>4. ASSUME NEW t \in AllTasks PROVE TaskFits(t)
  <2>1. job[t] = Idle /\ result[t] = {} /\ attempt[t] = 0 /\ status[t] \in {"pending", "absent"}
    BY <1>3
  <2>2. PlaceFits(t) /\ KindFits(t)
    BY <2>1 DEF PlaceFits, KindFits, Idle, Working, Places
  <2>3. PlanFits(t) /\ StatusFits(t)
    BY <1>3, <2>1, StagesAssumption DEF PlanFits, StatusFits, Started
  <2>4. ResultFits(t) /\ HeldFits(t) /\ FoundFits(t)
    BY <2>1 DEF ResultFits, HeldFits, FoundFits, Idle
  <2> QED
    BY <2>2, <2>3, <2>4 DEF TaskFits
<1>5. RunFits
  BY DEF RunFits
<1>6. RecordsFit
  <2>1. Made = {}
    BY DEF Made, NoClaim
  <2>2. job[Validate].at = "idle" /\ status[Validate] \notin {"completed", "needs_review"}
    BY <1>3, ClosingTasks DEF Idle
  <2>3. ClaimsFit /\ ReviewFits
    BY <2>1, <2>2 DEF ClaimsFit, ReviewFits
  <2>4. EvidenceIsGrounded /\ FlagsStay
    BY <2>1, RecordsAssumption DEF EvidenceIsGrounded, FlagsStay, Made
  <2> QED
    BY <2>3, <2>4 DEF RecordsFit
<1> QED
  BY <1>2, <1>4, <1>5, <1>6 DEF StagesIInv

\* It is about the variables of the specification.
LEMMA StagesRest ==
    ASSUME StagesIInv, UNCHANGED svars
    PROVE  StagesIInv'
<1>1. UNCHANGED <<plan, status, attempt, due, result, stored, job, source, content, extraction,
                  node, claim, evidence, dropped, notes, flagged, cached, torn, cancelled, run,
                  failures>>
  BY DEF svars, tasks, sink
<1>2. StagesTypes' /\ SinkTypes'
  BY <1>1 DEF StagesIInv, StagesTypes, SinkTypes
<1>3. /\ FanIn' = FanIn /\ KeptSources' = KeptSources /\ Known' = Known /\ Made' = Made
      /\ Evidenced' = Evidenced
      /\ Inflight' = Inflight
  BY <1>1 DEF FanIn, Of, KeptSources, Known, Made, Evidenced, Inflight
<1>4. ASSUME NEW t \in AllTasks PROVE TaskFits(t)'
  <2>1. TaskFits(t)
    BY DEF StagesIInv
  <2>2. Depends(t)' = Depends(t) /\ Resolved(t)' = Resolved(t)
    BY <1>1, <1>3 DEF Depends, Resolved, Resolves
  <2>3. PlaceFits(t)' /\ KindFits(t)' /\ PlanFits(t)' /\ StatusFits(t)'
    BY <1>1, <1>3, <2>1, <2>2 DEF TaskFits, PlaceFits, KindFits, PlanFits, Own, StatusFits
  <2>5. ResultFits(t)' /\ HeldFits(t)' /\ FoundFits(t)'
    BY <1>1, <1>3, <2>1, <2>2 DEF TaskFits, ResultFits, Written, HeldFits, FoundFits
  <2> QED
    BY <2>3, <2>5 DEF TaskFits
<1>5. RunFits' /\ RecordsFit'
  BY <1>1, <1>3 DEF StagesIInv, RunFits, RecordsFit, ClaimsFit, ReviewFits, EvidenceIsGrounded,
                    FlagsStay, Contested
<1> QED
  BY <1>2, <1>4, <1>5 DEF StagesIInv

\* Every step of every task, of the loop and of the run keeps it.
LEMMA StagesStep ==
    ASSUME StagesIInv, [StagesNext]_svars
    PROVE  StagesIInv'
<1>1. ASSUME NEW t \in AllTasks, Handler(t)
      PROVE  StagesIInv'
  <2>1. CASE Enter(t)
    BY <2>1, EnterKeeps
  <2>2. CASE SearchAnswers(t) \/ SearchFails(t) \/ SeeCancel(t)
    BY <2>2, SearchAnswersKeeps, SearchFailsKeeps, SeeCancelKeeps
  <2>3. ASSUME NEW x \in Sources, PersistFound(t, x) \/ Rate(t, x) \/ Answered(t, x)
        PROVE  StagesIInv'
    BY <2>3, PersistFoundKeeps, RateKeeps, AnsweredKeeps
  <2>4. CASE AskFails(t) \/ NothingToExtract(t)
    BY <2>4, AskFailsKeeps
  <2>5. CASE PersistNodes(t) \/ PersistClaims(t) \/ PersistEvidence(t)
    BY <2>5, PersistNodesKeeps, PersistClaimsKeeps, PersistEvidenceKeeps
  <2>6. CASE Check(t) \/ Write(t)
    BY <2>6, CheckKeeps, WriteKeeps
  <2>7. CASE Return(t) \/ Store(t)
    BY <2>7, ReturnKeeps, StoreKeeps
  <2> QED
    BY <1>1, <2>1, <2>2, <2>3, <2>4, <2>5, <2>6, <2>7 DEF Handler
<1>2. CASE Cancel \/ Finalize
  BY <1>2, CancelKeeps, FinalizeKeeps
<1>3. CASE Rests \/ UNCHANGED svars
  BY <1>3, StagesRest DEF Rests
<1>4. ASSUME NEW t \in AllTasks, Submit(t) \/ Requeue(t)
      PROVE  StagesIInv'
  BY <1>4, SubmitKeeps, RequeueKeeps
<1> QED
  BY <1>1, <1>2, <1>3, <1>4 DEF StagesNext

\* The inductive invariant of the stages.
THEOREM StagesIInvHolds == StagesSpec => []StagesIInv
<1>1. StagesInit => StagesIInv
  BY StagesBegin
<1>2. StagesIInv /\ [StagesNext]_svars => StagesIInv'
  BY StagesStep
<1> QED
  BY <1>1, <1>2, PTL DEF StagesSpec

\* In every state what the sink, the results and the threads hold fits
\* together: the sources, extractions, nodes and claims of a stored result are
\* kept, and some evidence of each such claim; evidence has its claim, its
\* node and its content, a flag stays, a completed task has or is about to
\* have its result.
THEOREM SinkInvHolds == StagesSpec => []SinkInv
<1>1. StagesIInv => SinkInv
  <2> SUFFICES ASSUME StagesIInv PROVE SinkInv
    OBVIOUS
  <2>1. StagesTypes /\ SinkTypes /\ RecordsFit /\ \A t \in AllTasks : TaskFits(t)
    BY DEF StagesIInv
  <2>2. StagesTypeOK
    <3>1. \A t \in AllTasks : job[t] \in Job
      BY <2>1 DEF StagesTypes
    <3> QED
      BY <2>1, <3>1 DEF StagesTypeOK, StagesTypes, SinkTypes, Job, Places, RecordIds
  <2>3. ResultsAreKept
    <3>1. ASSUME NEW t \in stored, NEW i \in result[t]
          PROVE  \/ /\ i \in Sources /\ source[i] # "none"
                    /\ Kind(t) \in {"evaluation", "extract"} => i \in extraction
                 \/ i \in Nodes /\ node[i] # {}
                 \/ i \in Claims /\ claim[i].from # {} /\ evidence[i] # {}
                 \/ i \in EvidenceIds /\ evidence[i[1]] # {}
      <4>1. t \in AllTasks
        BY <2>1 DEF StagesTypes
      <4>2. Written(t) = {}
        BY <2>1, <4>1 DEF TaskFits, PlaceFits, Working, Places, Written
      <4> QED
        BY <2>1, <4>1, <4>2 DEF TaskFits, ResultFits, KeptSources, Known, Made, Evidenced
    <3> QED
      BY <3>1 DEF ResultsAreKept
  <2>4. CompletedHasResult
    BY <2>1 DEF TaskFits, PlaceFits, CompletedHasResult
  <2> QED
    BY <2>1, <2>2, <2>3, <2>4 DEF RecordsFit, SinkInv
<1> QED
  BY <1>1, StagesIInvHolds, PTL

\* In a completed run every task of the plan has completed.
LEMMA CompletedRun ==
    ASSUME StagesIInv, run = "completed", NEW t \in AllTasks, status[t] # "absent", t # Validate
    PROVE  status[t] = "completed"
<1>1. StagesTypes /\ TaskFits(t)
  BY DEF StagesIInv
<1>2. status[t] \notin {"planning", "running", "failed", "pending", "cancelled"}
  BY DEF StagesIInv, RunFits, Inflight
<1>3. status[t] # "needs_review"
  BY <1>1 DEF TaskFits, StatusFits
<1> QED
  BY <1>1, <1>2, <1>3 DEF StagesTypes

\* Whatever the plan, a run whose tasks found all results completes only after
\* every source its sections' searches found was extracted.
THEOREM OwnSourcesExtractedHolds == StagesSpec => []OwnSourcesExtracted
<1>1. StagesIInv => OwnSourcesExtracted
  <2> SUFFICES ASSUME StagesIInv, run = "completed", torn = {}, NEW s \in Sections,
                      NEW x \in Found("search", s)
               PROVE  x \in extraction
    BY DEF OwnSourcesExtracted
  <2>1. StagesTypes /\ \A t \in AllTasks : TaskFits(t)
    BY DEF StagesIInv
  <2>2. CASE plan = "provided"
    <3>1. PICK t \in AllTasks : t = <<"evaluation", s>> /\ Kind(t) = "evaluation" /\ Section(t) = s
      BY SectionTasks
    <3>2. status[t] = "completed"
      BY <2>1, <2>2, <3>1, OwnKinds, CompletedRun, ClosingTasks DEF TaskFits, PlanFits
    <3> QED
      BY <2>1, <3>1, <3>2 DEF TaskFits, FoundFits
  <2>3. CASE plan = "planned"
    <3>1. PICK t \in AllTasks : t = <<"search", s>> /\ Kind(t) = "search" /\ Section(t) = s
      BY SectionTasks
    <3>2. status[t] = "completed"
      BY <2>1, <3>1, OwnKinds, CompletedRun, ClosingTasks DEF TaskFits, PlanFits
    <3>3. x \in result[t] /\ status[Extract(s, x)] # "absent"
      BY <2>1, <2>3, <3>1, <3>2 DEF TaskFits, FoundFits
    <3>4. PICK u \in AllTasks : u = Extract(s, x) /\ Kind(u) = "extract" /\ u[3] = x
      BY ExtractTasks
    <3>5. status[u] = "completed"
      BY <3>3, <3>4, CompletedRun, ClosingTasks
    <3> QED
      BY <2>1, <3>4, <3>5 DEF TaskFits, FoundFits
  <2> QED
    BY <2>1, <2>2, <2>3 DEF StagesTypes
<1> QED
  BY <1>1, StagesIInvHolds, PTL

\* Whatever the judge calls a conflict, a run whose tasks found all results
\* completes without a review only if no two of its claims conflict.
THEOREM NoConflictSlipsHolds == StagesSpec => []NoConflictSlips
<1>1. StagesIInv => NoConflictSlips
  <2> SUFFICES ASSUME StagesIInv, run = "completed", torn = {}, NEW c \in Made, NEW d \in Made,
                      Rivals(c, d)
               PROVE  FALSE
    BY DEF NoConflictSlips, Made
  <2>1. StagesTypes /\ RecordsFit /\ \A t \in AllTasks : TaskFits(t)
    BY DEF StagesIInv
  <2>2. status[Writer] = "completed"
    BY <2>1, OwnKinds, CompletedRun, ClosingTasks DEF TaskFits, PlanFits
  <2>3. status[Validate] = "completed"
    BY <2>1, <2>2, DependsOn, ClosingTasks DEF TaskFits, StatusFits, Started
  <2>4. Contested(Made) = {}
    BY <2>1, <2>3 DEF RecordsFit, ReviewFits
  <2>5. c \in Contested(Made)
    BY DEF Contested
  <2> QED
    BY <2>4, <2>5
<1> QED
  BY <1>1, StagesIInvHolds, PTL

\* When no thread works and nothing is due, a task that is ready can be
\* submitted, or an extraction it waits for can.
LEMMA IdleStarts ==
    ASSUME StagesIInv, ~cancelled, Inflight = {}, \A t \in AllTasks : ~Startable(t)
    PROVE  \A t \in AllTasks : ~IsReady(t)
<1> SUFFICES ASSUME NEW t \in AllTasks, IsReady(t) PROVE FALSE
  OBVIOUS
<1>1. StagesTypes /\ \A u \in AllTasks : TaskFits(u)
  BY DEF StagesIInv
<1>2. Cardinality(Inflight) < MaxWorkers
  BY FS_EmptySet, StagesAssumption
<1>3. ~Readiness(t)
  BY <1>2 DEF Startable
<1>4. PICK u \in AllTasks : /\ Kind(u) = "extract" /\ Section(u) = Section(t)
                            /\ status[u] \notin {"absent", "completed", "cancelled", "failed"}
  BY <1>3 DEF Readiness, Of
<1>5. Kind(t) = "normalize"
  BY <1>3 DEF Readiness
<1>6. status[u] = "pending"
  <2>1. status[u] \notin {"planning", "running"}
    BY DEF Inflight
  <2>2. status[u] # "needs_review"
    BY <1>1, <1>4, ClosingTasks DEF TaskFits, StatusFits
  <2> QED
    BY <1>1, <1>4, <2>1, <2>2 DEF StagesTypes
<1>7. IsReady(u)
  BY <1>1, <1>4, <1>5, <1>6, DependsOn DEF IsReady
<1>8. Readiness(u)
  BY <1>4 DEF Readiness
<1> QED
  BY <1>2, <1>7, <1>8 DEF Startable

\* What a task waits for is there.
LEMMA UpstreamPresent ==
    ASSUME StagesIInv, NEW t \in AllTasks, status[t] # "absent", NEW u \in Depends(t)
    PROVE  u \in AllTasks /\ status[u] # "absent"
<1>1. StagesTypes /\ \A v \in AllTasks : TaskFits(v)
  BY DEF StagesIInv
<1>2. u \in AllTasks
  BY <1>1, DependsAreTasks
<1>3. Own(u) => status[u] # "absent"
  BY <1>1, <1>2 DEF TaskFits, PlanFits
<1>4. CASE t = Validate
  BY <1>1, <1>4, DependsOn
<1>5. CASE t = Writer
  BY <1>1, <1>2, <1>3, <1>5, DependsOn, OwnKinds, ClosingTasks
<1>6. CASE t # Validate /\ t # Writer
  <2>1. Section(t) \in Sections /\ Kind(t) \in Kinds \ {"validate", "writer"}
    BY <1>6, TaskShape DEF Closing
  <2>2. CASE Kind(t) \in {"evaluation", "extract", "normalize"}
    BY <1>1, <1>2, <1>3, <2>1, <2>2, DependsOn, OwnKinds DEF Kind
  <2>3. CASE Kind(t) \in {"normalization", "claims"}
    <3>1. Own(t)
      BY <1>1, <2>3 DEF TaskFits, PlanFits
    <3>2. Kind(u) = IF Kind(t) = "normalization" THEN "evaluation" ELSE "normalize"
      BY <1>1, <2>3, DependsOn DEF Kind
    <3> QED
      BY <1>1, <1>2, <1>3, <2>3, <3>1, <3>2, OwnKinds DEF StagesTypes
  <2>4. CASE Kind(t) \in Searches
    BY <1>1, <2>4, DependsOn
  <2> QED
    BY <2>1, <2>2, <2>3, <2>4 DEF Kinds, Searches
<1> QED
  BY <1>2, <1>4, <1>5, <1>6

\* For any plan, pool and findings: when the loop has nothing to submit it has
\* nothing ready either, and a task left waiting has a failure or a review in
\* the run to blame.
THEOREM LoopNeverSpinsHolds == StagesSpec => []LoopNeverSpins
<1>1. StagesIInv => LoopNeverSpins
  <2> SUFFICES ASSUME StagesIInv, ~cancelled, Inflight = {}, \A t \in AllTasks : ~Startable(t)
               PROVE  /\ \A t \in AllTasks : ~IsReady(t)
                      /\ (\E t \in AllTasks : status[t] = "pending") =>
                            \E t \in AllTasks : status[t] \in {"failed", "needs_review"}
    BY DEF LoopNeverSpins
  <2>1. StagesTypes /\ \A t \in AllTasks : TaskFits(t) /\ ~IsReady(t)
    BY IdleStarts DEF StagesIInv
  <2>2. ASSUME \A t \in AllTasks : status[t] \notin {"failed", "needs_review"}
        PROVE  \A t \in AllTasks : status[t] # "pending"
    <3>1. \A t \in AllTasks : status[t] \in {"absent", "pending", "completed"}
      BY <2>1, <2>2 DEF StagesTypes, Inflight, TaskFits, StatusFits
    <3>2. \A t \in AllTasks : status[t] = "pending" =>
            \E u \in Depends(t) : u \in AllTasks /\ status[u] = "pending"
      BY <2>1, <3>1, UpstreamPresent DEF IsReady
    <3>3. \A t \in AllTasks : Kind(t) \in Searches => status[t] # "pending"
      BY <2>1, <3>2, DependsOn
    <3>4. \A t \in AllTasks : Kind(t) \in {"evaluation", "extract", "normalize"} =>
            status[t] # "pending"
      BY <2>1, <3>2, <3>3, DependsOn DEF Kind, Searches
    <3>5. \A t \in AllTasks : Kind(t) \in {"normalization", "claims"} => status[t] # "pending"
      BY <2>1, <3>2, <3>4, DependsOn DEF Kind
    <3>6. status[Validate] # "pending"
      BY <2>1, <3>2, <3>5, DependsOn, ClosingTasks
    <3>7. status[Writer] # "pending"
      BY <2>1, <3>2, <3>6, DependsOn, ClosingTasks
    <3> QED
      BY <3>3, <3>4, <3>5, <3>6, <3>7, TaskShape DEF Kinds, Searches
  <2> QED
    BY <2>1, <2>2
<1> QED
  BY <1>1, StagesIInvHolds, PTL
=============================================================================
