------------------------------ MODULE EventLog ------------------------------
(***************************************************************************)
(* The two logs of one job, as everyone else may think of them: the        *)
(* worker's, which grows, and the core's, which takes over its events one  *)
(* by one, behind the last, and acknowledges what it has.  RunDelivery,    *)
(* with crashes and commands beside the pump, and EventStream, with polls  *)
(* cut anywhere, are proved to implement it.                               *)
(***************************************************************************)
EXTENDS Integers, Sequences

VARIABLES
    appended,      \* the worker's log holds the events 1 .. appended
    persisted,     \* the sequence numbers in the core's event log, in order
    acknowledged   \* the cursor: what polls and windows are past

vars == <<appended, persisted, acknowledged>>

Init == appended = 0 /\ persisted = <<>> /\ acknowledged = 0

AppendEvent ==
    /\ appended' = appended + 1
    /\ UNCHANGED <<persisted, acknowledged>>

\* One event's transaction: the first that is not there yet.
Persist ==
    /\ Len(persisted) < appended
    /\ persisted' = Append(persisted, Len(persisted) + 1)
    /\ UNCHANGED <<appended, acknowledged>>

\* Everything persisted is acknowledged together, at the end of a batch.
Acknowledge ==
    /\ acknowledged < Len(persisted)
    /\ acknowledged' = Len(persisted)
    /\ UNCHANGED <<appended, persisted>>

\* The cursor is memory: it dies with the core.
Forget ==
    /\ acknowledged' = 0
    /\ UNCHANGED <<appended, persisted>>

\* A run that could not be started is deleted, its events with it.
Discard ==
    /\ persisted' = <<>> /\ acknowledged' = 0
    /\ UNCHANGED appended

Next == AppendEvent \/ Persist \/ Acknowledge \/ Forget \/ Discard

Spec == Init /\ [][Next]_vars
=============================================================================
