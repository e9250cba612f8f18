-------------------------- MODULE MCWorkerSession --------------------------
(***************************************************************************)
(* Two providers, one whose name survives the way through the variables'   *)
(* names and one whose name does not, and the configurations a user may    *)
(* try with them.                                                          *)
(***************************************************************************)
EXTENDS WorkerSession, TLC

CONSTANTS glm, Odd, odd

MCNames == {glm, Odd, odd}
MCIdOf  == (glm :> glm) @@ (Odd :> odd) @@ (odd :> odd)

One(n, r, ok) == [name |-> n, ref |-> r, inRange |-> ok]
With(ps, b)   == [providers |-> ps, backend |-> b, transport |-> "http"]

MCConfigs == { With({}, "fake"), With({One(glm, glm, TRUE)}, "fake"),
               With({One(glm, glm, TRUE)}, "keychain"), With({One(glm, odd, TRUE)}, "keychain"),
               With({One(Odd, Odd, TRUE)}, "keychain"), With({One(glm, glm, FALSE)}, "fake"),
               With({One(glm, glm, TRUE), One(odd, odd, TRUE)}, "keychain"),
               With({}, "other"), [With({}, "fake") EXCEPT !.transport = "other"] }
MCFile == With({}, "fake")
=============================================================================
