-------------------------- MODULE ProviderSettings --------------------------
(***************************************************************************)
(* What the user configures and where it is kept: the configuration file,  *)
(* which names providers and refers to their keys, and the store that      *)
(* holds the keys.  A core that starts captures the file; the environment  *)
(* of a worker is made from what was captured and from the keys the store  *)
(* has at that moment, and the worker makes its own configuration from it. *)
(*                                                                         *)
(* A key is the number of the call that stored it, 0 when there is none.   *)
(***************************************************************************)
EXTENDS Integers, FiniteSets

CONSTANTS
    Names,       \* what a provider may be called
    IdOf,        \* the id the worker reads back from a variable named after it
    ValidIds,    \* the ids the worker accepts
    Configs,     \* the configurations the user tries
    InitialFile, \* the one the file holds at first
    MaxKeys      \* bound: keys stored

\* A key is referred to by the name of a provider.
Reference == Names

\* The reference in a provider's entry is not always the provider's own.
Provider == [name : Names, ref : Reference, inRange : BOOLEAN]

\* "other" is whatever the program does not know.  The demonstration transport,
\* which runs nothing, is left out.
Transport == {"http", "other"}
Config    == [providers : SUBSET Provider, backend : {"fake", "keychain", "other"},
              transport : Transport]

ASSUME ConfigAssumption ==
    /\ Configs \subseteq Config /\ InitialFile \in Configs
    /\ \A c \in Configs : IsFiniteSet(c.providers)   \* a file lists so many
    /\ IdOf \in [Names -> Names] /\ ValidIds \subseteq Names
    /\ MaxKeys \in Nat

VARIABLES
    file,      \* app.json
    captured,  \* the configuration of the running core, NoCore without one
    osKeys,    \* the keys in the OS keychain
    memKeys,   \* the keys in the core's memory, with the fake backend
    keyCount     \* how many keys were stored

settings == <<file, captured, osKeys, memKeys, keyCount>>

NoCore == [providers |-> {}, backend |-> "no core", transport |-> "no core"]
Up     == captured # NoCore
NoKeys == [n \in Reference |-> 0]

SettingsTypeOK ==
    /\ file \in Configs /\ captured \in Configs \cup {NoCore}
    /\ {osKeys, memKeys} \subseteq [Reference -> 0 .. MaxKeys]
    /\ keyCount \in 0 .. MaxKeys

SettingsInit ==
    /\ file = InitialFile /\ captured = NoCore
    /\ osKeys = NoKeys /\ memKeys = NoKeys /\ keyCount = 0

-----------------------------------------------------------------------------
(* The environment of a worker.                                            *)

\* build_secret_store: the backend the core was started with.
Keys == IF captured.backend = "keychain" THEN osKeys ELSE memKeys

TheOne(providers) == CHOOSE p \in providers : TRUE

Refused(why) == [ok |-> FALSE, why |-> why]

\* No provider and no role: the worker's own safe default.
EmptyEnv == [ok |-> TRUE, providers |-> {}, roles |-> {}, key |-> 0]

\* Mutant: the roles are left to the worker's defaults.
EnvWithoutRoles(c, keys) ==
    IF c.providers = {} THEN EmptyEnv
    ELSE LET p == TheOne(c.providers)
         IN  [ok |-> TRUE, providers |-> {p}, roles |-> {}, key |-> keys[p.ref]]

\* worker_provider_env: every LLM role is routed to the only provider.
WorkerEnv(c, keys) ==
    IF c.providers = {} THEN EmptyEnv
    ELSE IF Cardinality(c.providers) > 1 THEN Refused("providers")
    ELSE LET p == TheOne(c.providers)
         IN  IF keys[p.ref] = 0 THEN Refused("key")
             ELSE [ok |-> TRUE, providers |-> {p}, roles |-> {p.name}, key |-> keys[p.ref]]

\* from_env: the provider's id comes from the variables' names, its role from
\* their values; ranges and ids are checked, and a role must name a provider.
WorkerAccepts(env) ==
    /\ \A p \in env.providers : IdOf[p.name] \in ValidIds /\ p.inRange
    /\ env.roles \subseteq {IdOf[p.name] : p \in env.providers}

\* The store is asked for a key, and it is the keychain, which may not answer or
\* may deny access.
KeychainAsked == captured.backend = "keychain" /\ Cardinality(captured.providers) = 1

\* build_worker_config: nothing configured is offline; configured without
\* roles is the worker's default routing.
Routing(env) ==
    IF env.providers = {} /\ env.roles = {} THEN "offline"
    ELSE IF env.roles = {} THEN "default"
    ELSE "configured"

-----------------------------------------------------------------------------
(* The user.                                                               *)

ValidTransport(c) == c.transport = "http"

ValidBackend(c) == c.backend \in {"fake", "keychain"}

Valid(c) == ValidTransport(c) /\ ValidBackend(c)

\* The file is replaced as a whole.
Save(c) == file' = c

\* config_put: a selector nobody knows is refused, anything else is saved; the
\* running core keeps what it captured.
PutConfig ==
    /\ Up
    /\ \E c \in Configs : Valid(c) /\ Save(c)
    /\ UNCHANGED <<captured, osKeys, memKeys, keyCount>>

\* The file is edited while no core runs.
EditFile ==
    /\ ~Up
    /\ \E c \in Configs : file' = c
    /\ UNCHANGED <<captured, osKeys, memKeys, keyCount>>

\* With the fake backend a key stays in the core's memory ...
Remember(n, key) == memKeys' = [memKeys EXCEPT ![n] = key] /\ UNCHANGED osKeys

\* ... with the other it is the operating system's.
Keep(n, key) == osKeys' = [osKeys EXCEPT ![n] = key] /\ UNCHANGED memKeys

\* secrets_set_provider_key, under the reference named after the provider.
SetKey ==
    /\ Up /\ keyCount < MaxKeys /\ keyCount' = keyCount + 1
    /\ \E n \in Reference :
          IF captured.backend = "keychain" THEN Keep(n, keyCount') ELSE Remember(n, keyCount')
    /\ UNCHANGED <<file, captured>>

\* A key leaves the OS keychain behind the core's back.
LoseKey ==
    /\ \E n \in Names : osKeys[n] # 0 /\ osKeys' = [osKeys EXCEPT ![n] = 0]
    /\ UNCHANGED <<file, captured, memKeys, keyCount>>

\* build_app_state: a file that does not validate keeps the core down.
CaptureConfig ==
    /\ ~Up /\ Valid(file)
    /\ captured' = file /\ memKeys' = NoKeys
    /\ UNCHANGED <<file, osKeys, keyCount>>

ReleaseConfig ==
    /\ Up
    /\ captured' = NoCore /\ memKeys' = NoKeys
    /\ UNCHANGED <<file, osKeys, keyCount>>
=============================================================================
