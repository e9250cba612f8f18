---------------------------- MODULE EventStream ----------------------------
(***************************************************************************)
(* How the events of one job come from the worker's event log to the       *)
(* core's: the job thread that appends, the server thread that answers one *)
(* poll with a stream of SSE frames, the socket between, the client that   *)
(* reads until the stream ends, falls quiet, or the poll's time or byte    *)
(* budget is spent, and the pump that persists and acknowledges.           *)
(*                                                                         *)
(* A frame is three units, since a cut leaves one of three things: no data *)
(* line yet, part of one, or all of it.  A comment is one unit.  A poll    *)
(* drops its connection when it stops reading; the server thread it leaves *)
(* behind only reads the log and dies at a later write, so it is not kept. *)
(*                                                                         *)
(* The job's terminal event need not be the last: an executor thread that  *)
(* has left the runner's books may append behind it (_complete in          *)
(* dag/runner.py; the pool is shut down after _mark_terminal).  The core   *)
(* goes on polling until it has the job's results, and lets go of it then. *)
(***************************************************************************)
EXTENDS Integers, Sequences, SequencesExt

CONSTANTS
    MaxBuffered,   \* SSE_MAX_BYTES, in units
    MaxEvents,     \* bound: events of the job, the terminal one included
    MaxCuts,       \* bound: polls stopped with more on its way
    MaxBeats,      \* bound: keep-alive comments
    MaxFailures    \* bound: events whose persisting fails

ASSUME BoundsAssumption ==
    /\ MaxBuffered \in Nat \ {0} /\ MaxEvents \in Nat \ {0}
    /\ MaxCuts \in Nat /\ MaxBeats \in Nat /\ MaxFailures \in Nat

VARIABLES
    appended,   \* the worker's log holds the events 1 .. appended
    endAt,      \* which of them is the job's terminal event, or 0
    marked,     \* the job record has its terminal status
    stream,     \* the server thread that answers the poll
    wire,       \* the units written and not yet read
    buf,        \* the units the client has read
    pump,       \* the pump is between polls, reads, persists, or is done with the job
    batch,      \* the events of the poll that are still to persist
    through,    \* the last event of the batch that was persisted
    cursor,     \* the supervisor's acknowledged sequence
    persisted,  \* the rows of the core's event log, in order
    cuts, beats, failures

log   == <<appended, endAt, marked>>
core  == <<pump, batch, through, cursor, persisted>>
vars  == <<log, stream, wire, buf, core, cuts, beats, failures>>

ended == endAt # 0

\* The last unit of a frame completes its data line.
Parts    == 1 .. 3
Frame(e) == [p \in Parts |-> [event |-> e, part |-> p]]
Comment  == [event |-> 0, part |-> 3]

\* The elements of s that are members of S, in their order.
Kept(s, S) ==
    LET kept[i \in 0 .. Len(s)] ==
            IF i = 0 THEN <<>>
            ELSE IF s[i] \in S THEN Append(kept[i - 1], s[i]) ELSE kept[i - 1]
    IN  kept[Len(s)]

NoStream == [pc |-> "none", at |-> 0, todo |-> <<>>, out |-> <<>>, seen |-> FALSE]
From(a, b) == [i \in 1 .. (b - a) |-> a + i]

TypeOK ==
    /\ appended \in 0 .. MaxEvents /\ endAt \in 0 .. appended /\ marked \in BOOLEAN
    /\ stream.pc \in {"none", "replay", "yield", "check", "wait", "closing", "closed"}
    /\ stream.at \in 0 .. appended /\ stream.seen \in BOOLEAN
    /\ stream.todo \in Seq(1 .. MaxEvents)
    /\ \A s \in {stream.out, wire, buf} : s \in Seq([event : 0 .. MaxEvents, part : Parts])
    /\ pump \in {"idle", "reading", "persisting", "retired"}
    /\ batch \in Seq([seq : 1 .. MaxEvents, whole : BOOLEAN])
    /\ through \in 0 .. MaxEvents /\ cursor \in 0 .. MaxEvents /\ cursor <= appended
    /\ persisted \in Seq([seq : 1 .. MaxEvents, whole : BOOLEAN])
    /\ cuts \in 0 .. MaxCuts /\ beats \in 0 .. MaxBeats /\ failures \in 0 .. MaxFailures

Init ==
    /\ appended = 0 /\ endAt = 0 /\ marked = FALSE
    /\ stream = NoStream /\ wire = <<>> /\ buf = <<>>
    /\ pump = "idle" /\ batch = <<>> /\ through = 0 /\ cursor = 0 /\ persisted = <<>>
    /\ cuts = 0 /\ beats = 0 /\ failures = 0

-----------------------------------------------------------------------------
(* The job thread, and the executor threads of its run.                    *)

\* EventLog.append, by the runner and the handlers it runs, at any time; one
\* event is left for the job's end.
AppendEvent ==
    /\ appended < IF ended THEN MaxEvents ELSE MaxEvents - 1
    /\ appended' = appended + 1
    /\ UNCHANGED <<endAt, marked, stream, wire, buf, core, cuts, beats, failures>>

\* The end of _execute_job: the terminal event first ...
AppendTerminal ==
    /\ ~ended
    /\ appended' = appended + 1 /\ endAt' = appended + 1
    /\ UNCHANGED <<marked, stream, wire, buf, core, cuts, beats, failures>>

\* Mutant: the status is published before the event is appended.
MarkEarly ==
    /\ ~marked
    /\ marked' = TRUE
    /\ UNCHANGED <<appended, endAt, stream, wire, buf, core, cuts, beats, failures>>

\* ... then _mark_terminal.
MarkTerminal ==
    /\ ended /\ ~marked
    /\ marked' = TRUE
    /\ UNCHANGED <<appended, endAt, stream, wire, buf, core, cuts, beats, failures>>

-----------------------------------------------------------------------------
(* The server thread: _sse_chunks, written frame by frame by _send_stream. *)

Serve(s) == stream' = s /\ UNCHANGED <<log, wire, buf, core, cuts, failures>>

\* The backlog after the request's cursor, read under the log's lock.
Replay ==
    /\ stream.pc = "replay"
    /\ Serve([stream EXCEPT !.pc = "yield", !.todo = From(stream.at, appended)])
    /\ UNCHANGED beats

Yield ==
    /\ stream.pc = "yield" /\ stream.out = <<>> /\ stream.todo # <<>>
    /\ Serve([stream EXCEPT !.out = Frame(Head(stream.todo)), !.at = Head(stream.todo), !.todo = Tail(@)])
    /\ UNCHANGED beats

\* One unit of the chunk in hand goes to the socket.
Write ==
    /\ stream.out # <<>>
    /\ wire' = Append(wire, Head(stream.out))
    /\ stream' = [stream EXCEPT !.out = Tail(@)]
    /\ UNCHANGED <<log, buf, core, cuts, beats, failures>>

\* The job's status is read under the service's lock, the log's cursor under
\* the log's lock, in this order.
ReadStatus ==
    /\ stream.pc = "yield" /\ stream.out = <<>> /\ stream.todo = <<>>
    /\ Serve([stream EXCEPT !.pc = "check", !.seen = marked])
    /\ UNCHANGED beats

Delivered == appended <= stream.at

ReadCursor ==
    /\ stream.pc = "check"
    /\ Serve(IF stream.seen /\ Delivered
             THEN [stream EXCEPT !.pc = "closing", !.out = <<Comment>>]
             ELSE [stream EXCEPT !.pc = "wait"])
    /\ UNCHANGED beats

\* wait_for: something after the cursor exists ...
Wake ==
    /\ stream.pc = "wait" /\ ~Delivered
    /\ Serve([stream EXCEPT !.pc = "yield", !.todo = From(stream.at, appended)])
    /\ UNCHANGED beats

\* ... or the heartbeat's time is over.
Beat ==
    /\ stream.pc = "wait" /\ Delivered
    /\ beats < MaxBeats /\ beats' = beats + 1
    /\ Serve([stream EXCEPT !.pc = "yield", !.out = <<Comment>>])

Close ==
    /\ stream.pc = "closing" /\ stream.out = <<>>
    /\ Serve([stream EXCEPT !.pc = "closed"])
    /\ UNCHANGED beats

-----------------------------------------------------------------------------
(* The client: request_event_stream and the decoding of what it read.      *)

CursorSent == cursor

\* The pump polls as long as the job is active, also when it has the terminal
\* event and the job's results are still to be fetched.
Poll ==
    /\ pump = "idle"
    /\ pump' = "reading"
    /\ stream' = [NoStream EXCEPT !.pc = "replay", !.at = CursorSent]
    /\ buf' = <<>> /\ wire' = <<>>
    /\ UNCHANGED <<log, batch, through, cursor, persisted, cuts, beats, failures>>

\* A read takes what has arrived, or a part of it.
Fill ==
    /\ pump = "reading" /\ wire # <<>>
    /\ \E n \in 1 .. Len(wire) :
          /\ buf' = buf \o SubSeq(wire, 1, n)
          /\ wire' = SubSeq(wire, n + 1, Len(wire))
    /\ UNCHANGED <<log, stream, core, cuts, beats, failures>>

\* decode_sse and worker_event_from_frame: every frame with a data line is an
\* event, the last one too, and one data line that is no JSON fails the poll.
FrameEnds == [event : 1 .. MaxEvents, part : {3}]
WholeFrames(units) ==
    LET done == Kept(units, FrameEnds)
    IN  [i \in DOMAIN done |-> [seq |-> done[i].event, whole |-> TRUE]]
Torn(units) == units # <<>> /\ Last(units).part = 2
TornFrame(units) == <<[seq |-> Last(units).event, whole |-> FALSE]>>

\* Mutant: a torn frame is taken for an event with an empty payload.
DecodedLeniently(units) ==
    WholeFrames(units) \o (IF Torn(units) THEN TornFrame(units) ELSE <<>>)

Decoded(units) == IF Torn(units) THEN <<>> ELSE WholeFrames(units)

\* Supervisor::poll_events drops what is acknowledged already.
Fresh(events) == Kept(events, [seq : cursor + 1 .. MaxEvents, whole : BOOLEAN])

Stop ==
    /\ pump' = "persisting" /\ batch' = Fresh(Decoded(buf)) /\ through' = 0
    /\ stream' = NoStream /\ wire' = <<>> /\ buf' = <<>>
    /\ UNCHANGED <<log, cursor, persisted, beats, failures>>

\* EOF, after the sentinel comment.
StopAtEnd ==
    /\ pump = "reading" /\ wire = <<>> /\ stream.pc = "closed"
    /\ Stop /\ UNCHANGED cuts

\* SSE_IDLE_TIMEOUT, with nothing to say on the other side.
StopIdle ==
    /\ pump = "reading" /\ wire = <<>>
    /\ stream.pc = "wait" /\ stream.out = <<>> /\ Delivered
    /\ Stop /\ UNCHANGED cuts

\* SSE_BUDGET is spent, the server stalls or the connection drops.
StopEarly ==
    /\ pump = "reading"
    /\ cuts < MaxCuts /\ cuts' = cuts + 1
    /\ Stop

\* SSE_MAX_BYTES is exceeded.
StopFull ==
    /\ pump = "reading" /\ Len(buf) > MaxBuffered
    /\ cuts < MaxCuts /\ cuts' = cuts + 1
    /\ Stop

-----------------------------------------------------------------------------
(* The pump: one transaction per event, then one acknowledgement.          *)

Persist ==
    /\ pump = "persisting" /\ batch # <<>>
    /\ persisted' = Append(persisted, Head(batch))
    /\ through' = Head(batch).seq /\ batch' = Tail(batch)
    /\ UNCHANGED <<log, stream, wire, buf, pump, cursor, cuts, beats, failures>>

\* Mutant: the batch goes on after an event that failed.
PersistFailsOne ==
    /\ pump = "persisting" /\ batch # <<>>
    /\ failures < MaxFailures /\ failures' = failures + 1
    /\ batch' = Tail(batch)
    /\ UNCHANGED <<log, stream, wire, buf, pump, through, cursor, persisted, cuts, beats>>

\* A failure stops the batch.
PersistFails ==
    /\ pump = "persisting" /\ batch # <<>>
    /\ failures < MaxFailures /\ failures' = failures + 1
    /\ batch' = <<>>
    /\ UNCHANGED <<log, stream, wire, buf, pump, through, cursor, persisted, cuts, beats>>

Acknowledge ==
    /\ pump = "persisting" /\ batch = <<>>
    /\ pump' = "idle"
    /\ cursor' = IF through > cursor THEN through ELSE cursor
    /\ UNCHANGED <<log, stream, wire, buf, batch, through, persisted, cuts, beats, failures>>

\* The terminal event is acknowledged, and the job's results are ingested.
Retire ==
    /\ pump = "idle" /\ ended /\ endAt <= cursor
    /\ pump' = "retired"
    /\ UNCHANGED <<log, stream, wire, buf, batch, through, cursor, persisted, cuts, beats, failures>>

JobStep    == AppendEvent \/ AppendTerminal \/ MarkTerminal
ServerStep == Replay \/ Yield \/ Write \/ ReadStatus \/ ReadCursor \/ Wake \/ Close
ClientStep == Poll \/ Fill \/ StopAtEnd \/ StopIdle
PumpStep   == Persist \/ Acknowledge

\* The job is done, its events are persisted, and the pump has let go of it.
Done == pump = "retired" /\ marked /\ UNCHANGED vars

Next == JobStep \/ ServerStep \/ Beat \/ ClientStep \/ StopEarly \/ StopFull
        \/ PumpStep \/ PersistFails \/ Retire \/ Done

\* The job ends, threads run, and the pump's timer keeps ticking; nothing is
\* said of when the results are there.
Fairness ==
    /\ WF_vars(AppendTerminal) /\ WF_vars(MarkTerminal) /\ WF_vars(ServerStep)
    /\ WF_vars(ClientStep) /\ WF_vars(PumpStep)

Spec == Init /\ [][Next]_vars /\ Fairness

-----------------------------------------------------------------------------
\* The core's event log holds the worker's events in their order, without a
\* gap and none twice, however polls were cut and persisting failed (the cursor
\* of pump_cycle, poll_events and replay).
PersistedIsPrefix ==
    /\ cursor <= Len(persisted) /\ Len(persisted) <= appended
    /\ \A i \in DOMAIN persisted : persisted[i].seq = i

\* No event is persisted without its payload because its frame was cut
\* (decode_sse emits the trailing frame; worker_event_from_frame judges it).
NothingTornPersists == \A i \in DOMAIN persisted : persisted[i].whole

\* A stream that ends by itself has carried the job's terminal event, and so
\* everything before it (_mark_terminal's comment in jobs.py): the core never
\* takes the silence of a job that goes on for its end.
CleanEndIsComplete ==
    stream.pc \in {"closing", "closed"} => ended /\ endAt <= stream.at

\* A poll never goes behind what is acknowledged: what it reads is either
\* new or a comment, so a long log costs a poll its tail only.
PollReadsNewOnly ==
    \A i \in DOMAIN buf : buf[i] = Comment \/ buf[i].event > cursor

\* The core's log is a faithful prefix of the worker's, at every cut of a poll.
StreamInv == TypeOK /\ PersistedIsPrefix /\ NothingTornPersists /\ PollReadsNewOnly

\* Every event of the job up to its terminal one reaches the core's log,
\* provided polls are not cut for ever.  (Of one behind it this cannot be said:
\* the core may have retired the job.)
JobArrivesWhole == <>(ended /\ endAt <= Len(persisted))
=============================================================================
