---------------------------- MODULE VaultExport ----------------------------
(***************************************************************************)
(* The export of one project into its Markdown vault: the writer that      *)
(* replaces only files it wrote itself, the index of what it wrote, and    *)
(* the user, who edits and deletes the same files with another program at  *)
(* any moment.  An export holds the database's mutex from its first read   *)
(* to its last note, so records and index change only by its own steps;    *)
(* the files do not wait for it.  A step is one call on the file system or *)
(* one transaction, and the process may die between any two.               *)
(*                                                                         *)
(* A file's content is an author and what was written; the content hash is *)
(* taken to tell contents apart.  resolve has no caller outside the tests  *)
(* yet; it is part of the writer's contract and is modelled as it stands.  *)
(***************************************************************************)
EXTENDS Integers, Sequences, FiniteSets

CONSTANTS
    Order,       \* the notes in the order an export writes them, the map last
    Kind,        \* the kind of a note: a node's type, "Source", "Claim" or "Map"
    Title,       \* its title, a sequence of words
    Ascii,       \* the words written in ASCII letters and digits
    MaxSlug,     \* the length a slug is cut at, in words
    NoFolder,    \* stands for the path of a type without a folder
    Inputs,      \* the notes whose records a note's rendering depends on
    MaxVersions, \* bound: versions of a record
    MaxExports,  \* bound: exports ever started
    MaxTouches,  \* bound: edits and deletions by the user
    MaxFailures  \* bound: failing calls and crashes

Notes == {Order[i] : i \in DOMAIN Order}

ASSUME VaultAssumption ==
    /\ Order \in Seq(Notes) /\ Order # <<>>
    /\ \A i, j \in DOMAIN Order : Order[i] = Order[j] => i = j   \* a record has one note
    /\ DOMAIN Kind = Notes /\ DOMAIN Title = Notes
    /\ Inputs \in [Notes -> SUBSET Notes]
    /\ {MaxSlug, MaxVersions, MaxExports, MaxTouches, MaxFailures} \subseteq Nat

\* slugify: what is left of a title in other letters is cut out, not spelled.
Slug(title) ==
    LET s == SelectSeq(title, LAMBDA w : w \in Ascii)
    IN  IF Len(s) > MaxSlug THEN SubSeq(s, 1, MaxSlug) ELSE s

\* A node brings its own slug, one per project; the others take their title's,
\* or their id when nothing is left of it.
FileName(n) ==
    IF Kind[n] \in {"Source", "Claim", "Map"} /\ Slug(Title[n]) # <<>>
    THEN Slug(Title[n]) ELSE <<n>>

\* folder_for_type knows every kind of note but these two.
Folderless == {"Product", "Dataset"}

\* The file of a note.
PathOf == [n \in Notes |-> IF Kind[n] \in Folderless THEN NoFolder
                           ELSE <<Kind[n], FileName(n)>>]
Paths == {PathOf[n] : n \in Notes} \ {NoFolder}

VARIABLES
    disk,      \* the note files
    tmp,       \* the temporary file beside each of them
    index,     \* the artifacts rows, by path
    version,   \* the version of each exported record
    writer,    \* the call in progress
    outcome,   \* what the last export said of each note
    offer,     \* its merge proposals: what the app would write
    kept,      \* ghost: files the user chose to keep and has left alone since
    touched,   \* ghost: files the user touched since the writer came by
    stranded,  \* ghost: files written by a call that did not come to record them
    count      \* how often what is bounded has happened

files == <<disk, tmp, index>>
vvars == <<files, version, writer, outcome, offer, kept, touched, stranded, count>>

NoFile  == [by |-> "none"]
Torn    == [by |-> "torn"]
UserText(k) == [by |-> "user", text |-> k]

\* note_for and its siblings: the record, and the titles and ids it links to.
RecordsOf(n) == [m \in Inputs[n] |-> version[m]]

\* What is rendered depends on the records alone: no clock is read.
Rendered(n) == [by |-> "core", note |-> n, of |-> RecordsOf(n)]

NoRow == [origin |-> "none"]
Row(content, origin) == [origin |-> origin, hash |-> content]

Resting == [at |-> "idle"]

\* A write of content to the note's file, for an export or a resolution.
Writing(call, rest, n, content) ==
    [at |-> "create", call |-> call, rest |-> rest, note |-> n, data |-> content]

\* The export goes on to the next note, or has returned.
Onward(rest) == IF rest = <<>> THEN Resting ELSE [at |-> "look", rest |-> rest]

Init ==
    /\ disk = [p \in Paths |-> NoFile]
    /\ tmp = [p \in Paths |-> NoFile]
    /\ index = [p \in Paths |-> NoRow]
    /\ version = [n \in Notes |-> 0]
    /\ writer = Resting
    /\ outcome = [n \in Notes |-> "none"]
    /\ offer = [n \in Notes |-> NoFile]
    /\ kept = {} /\ touched = {} /\ stranded = {}
    /\ count = [exports |-> 0, touches |-> 0, failures |-> 0]

Count(what, bound) == count[what] < bound /\ count' = [count EXCEPT ![what] = @ + 1]

-----------------------------------------------------------------------------
(* The export.                                                             *)

Begin ==
    /\ writer = Resting
    /\ Count("exports", MaxExports)
    /\ writer' = [at |-> "look", rest |-> Order]
    /\ outcome' = [n \in Notes |-> "none"]
    /\ offer' = [n \in Notes |-> NoFile]
    /\ UNCHANGED <<files, version, kept, touched, stranded>>

\* The note being written, by an export or by a resolution.
Current == IF writer.at \in {"look", "read"} THEN Head(writer.rest) ELSE writer.note
Here    == PathOf[Current]

\* A type without a folder is counted as skipped and ends nothing.
Skip ==
    /\ writer.at = "look" /\ Here = NoFolder
    /\ outcome' = [outcome EXCEPT ![Current] = "skipped"]
    /\ writer' = Onward(Tail(writer.rest))
    /\ UNCHANGED <<files, version, offer, kept, touched, stranded, count>>

\* path.exists(): a missing file is written whatever the index says.
Look ==
    /\ writer.at = "look" /\ Here # NoFolder
    /\ writer' = IF disk[Here] = NoFile
                 THEN Writing("export", Tail(writer.rest), Current, Rendered(Current))
                 ELSE [writer EXCEPT !.at = "read"]
    /\ touched' = touched \ {Here}
    /\ UNCHANGED <<files, version, outcome, offer, kept, stranded, count>>

\* The read fails when the user deleted the file in between: the export ends.
ReadMissing ==
    /\ writer.at = "read" /\ disk[Here] = NoFile
    /\ writer' = Resting
    /\ UNCHANGED <<files, version, outcome, offer, kept, touched, stranded, count>>

Says(n, what) ==
    /\ outcome' = [outcome EXCEPT ![n] = what]
    /\ offer' = IF what = "conflict" THEN [offer EXCEPT ![n] = Rendered(n)] ELSE offer

\* The file holds what the index says was last put there.
AsRecorded(p) == index[p] # NoRow /\ index[p].hash = disk[p]

\* Mutant: the note's own record decides; the ones it links to do not.
UpToDateByOwn(n) ==
    LET d == disk[PathOf[n]] IN
        AsRecorded(PathOf[n]) /\ d.by = "core" /\ d.note = n /\ d.of[n] = version[n]

\* Nothing is to be written: the file is as recorded and as rendered.
UpToDate(n) == AsRecorded(PathOf[n]) /\ disk[PathOf[n]] = Rendered(n)

\* Mutant: a file kept by the user's decision is like any other.
Replaces(n) == AsRecorded(PathOf[n]) /\ ~ UpToDate(n)

\* Only bytes this core wrote last, and that nobody chose to keep, are replaced.
Regenerates(n) == Replaces(n) /\ index[PathOf[n]].origin = "core"

Read ==
    /\ writer.at = "read" /\ disk[Here] # NoFile
    /\ touched' = touched \ {Here}
    /\ \/ /\ Regenerates(Current)
          /\ writer' = Writing("export", Tail(writer.rest), Current, Rendered(Current))
          /\ UNCHANGED <<outcome, offer>>
       \/ /\ ~ Regenerates(Current)
          /\ Says(Current, IF UpToDate(Current) THEN "unchanged" ELSE "conflict")
          /\ writer' = Onward(Tail(writer.rest))
    /\ UNCHANGED <<files, version, kept, stranded, count>>

-----------------------------------------------------------------------------
(* atomic_write, and the row that records it.                              *)

\* Mutant: the note itself is opened and truncated.
CreateInPlace ==
    /\ writer.at = "create"
    /\ disk' = [disk EXCEPT ![Here] = Torn]
    /\ tmp' = [tmp EXCEPT ![Here] = Torn]
    /\ writer' = [writer EXCEPT !.at = "fill"]
    /\ UNCHANGED <<index, version, outcome, offer, kept, touched, stranded, count>>

Create ==
    /\ writer.at = "create"
    /\ tmp' = [tmp EXCEPT ![Here] = Torn]
    /\ writer' = [writer EXCEPT !.at = "fill"]
    /\ UNCHANGED <<disk, index, version, outcome, offer, kept, touched, stranded, count>>

\* write_all and sync_all.
Fill ==
    /\ writer.at = "fill"
    /\ tmp' = [tmp EXCEPT ![Here] = writer.data]
    /\ writer' = [writer EXCEPT !.at = "rename"]
    /\ UNCHANGED <<disk, index, version, outcome, offer, kept, touched, stranded, count>>

Rename ==
    /\ writer.at = "rename"
    /\ disk' = [disk EXCEPT ![Here] = tmp[Here]]
    /\ tmp' = [tmp EXCEPT ![Here] = NoFile]
    /\ writer' = [writer EXCEPT !.at = "record"]
    /\ stranded' = stranded \cup {Here}
    /\ touched' = touched \ {Here}
    /\ kept' = kept \ {Here}
    /\ UNCHANGED <<index, version, outcome, offer, count>>

\* Mutant: the row keeps the hash it had.
KeepsRow(p) == IF index[p] = NoRow THEN Row(writer.data, "core") ELSE index[p]

\* What the row of a file written by the app says afterwards.
RowAfterWrite(p) == Row(writer.data, "core")

Record ==
    /\ writer.at = "record"
    /\ index' = [index EXCEPT ![Here] = RowAfterWrite(Here)]
    /\ stranded' = stranded \ {Here}
    /\ outcome' = IF writer.call = "export"
                  THEN [outcome EXCEPT ![writer.note] = "written"] ELSE outcome
    /\ writer' = IF writer.call = "export" THEN Onward(writer.rest) ELSE Resting
    /\ UNCHANGED <<disk, tmp, version, offer, kept, touched, count>>

\* A call on the file system fails: the temporary file goes, the call ends.
WriteFails ==
    /\ writer.at \in {"create", "fill", "rename"}
    /\ Count("failures", MaxFailures)
    /\ tmp' = [tmp EXCEPT ![Here] = NoFile]
    /\ writer' = Resting
    /\ UNCHANGED <<disk, index, version, outcome, offer, kept, touched, stranded>>

\* The row cannot be written: the file stays as it is, the call ends.
RecordFails ==
    /\ writer.at = "record"
    /\ Count("failures", MaxFailures)
    /\ writer' = Resting
    /\ UNCHANGED <<files, version, outcome, offer, kept, touched, stranded>>

\* The process dies: files and rows stay, the answer is lost.
Crash ==
    /\ writer # Resting
    /\ Count("failures", MaxFailures)
    /\ writer' = Resting
    /\ outcome' = [n \in Notes |-> "none"]
    /\ offer' = [n \in Notes |-> NoFile]
    /\ UNCHANGED <<files, version, kept, touched, stranded>>

-----------------------------------------------------------------------------
(* Resolutions, the user, and the records.                                 *)

\* The file as it is now becomes the user's, whatever the proposal was about.
KeepUser(n) ==
    /\ writer = Resting /\ offer[n] # NoFile /\ disk[PathOf[n]] # NoFile
    /\ index' = [index EXCEPT ![PathOf[n]] = Row(disk[PathOf[n]], "user")]
    /\ offer' = [offer EXCEPT ![n] = NoFile]
    /\ kept' = kept \cup {PathOf[n]}
    /\ stranded' = stranded \ {PathOf[n]}
    /\ UNCHANGED <<disk, tmp, version, writer, outcome, touched, count>>

\* theirs_hash is not compared: the file is replaced as it is now.
UseOurs(n) ==
    /\ writer = Resting /\ offer[n] # NoFile
    /\ writer' = Writing("resolve", <<>>, n, offer[n])
    /\ offer' = [offer EXCEPT ![n] = NoFile]
    /\ UNCHANGED <<files, version, outcome, kept, touched, stranded, count>>

UserTouches(p, content) ==
    /\ Count("touches", MaxTouches)
    /\ disk' = [disk EXCEPT ![p] = content]
    /\ touched' = touched \cup {p}
    /\ kept' = kept \ {p}
    /\ UNCHANGED <<tmp, index, version, writer, outcome, offer, stranded>>

UserWrites(p)  == UserTouches(p, UserText(count.touches))
UserDeletes(p) == disk[p] # NoFile /\ UserTouches(p, NoFile)

\* An ingestion changes a record; it waits for the mutex.
RecordChanges(n) ==
    /\ writer = Resting
    /\ version[n] < MaxVersions
    /\ version' = [version EXCEPT ![n] = @ + 1]
    /\ outcome' = [m \in Notes |-> "none"]
    /\ UNCHANGED <<files, writer, offer, kept, touched, stranded, count>>

-----------------------------------------------------------------------------

ExportNext == Begin \/ Skip \/ Look \/ ReadMissing \/ Read
WriteNext  == Create \/ Fill \/ Rename \/ Record
FaultNext  == WriteFails \/ RecordFails \/ Crash
UserNext   == \/ \E n \in Notes : KeepUser(n) \/ UseOurs(n)
              \/ \E p \in Paths : UserWrites(p) \/ UserDeletes(p)

Next == \/ ExportNext \/ WriteNext \/ FaultNext \/ UserNext
        \/ \E n \in Notes : RecordChanges(n)

Spec == Init /\ [][Next]_vvars
-----------------------------------------------------------------------------
(* Properties.                                                             *)

Versions == [Notes -> 0 .. MaxVersions]
Renders  == UNION {[by : {"core"}, note : {n}, of : [Inputs[n] -> 0 .. MaxVersions]] :
                   n \in Notes}
Texts    == {UserText(k) : k \in 0 .. MaxTouches}
Contents == {NoFile} \cup Texts \cup Renders
Rests    == {SubSeq(Order, i, Len(Order)) : i \in 1 .. Len(Order) + 1}
Calls    == [at : {"create", "fill", "rename", "record"}, call : {"export", "resolve"},
             rest : Rests, note : Notes, data : Renders]

TypeOK ==
    /\ disk \in [Paths -> Contents \cup {Torn}]
    /\ tmp \in [Paths -> {NoFile, Torn} \cup Renders]
    /\ index \in [Paths -> {NoRow} \cup [origin : {"core", "user"},
                                       hash : Renders \cup Texts \cup {Torn}]]
    /\ version \in Versions
    /\ \/ writer = Resting
       \/ writer.at \in {"look", "read"} /\ writer.rest \in Rests \ {<<>>}
       \/ writer \in Calls
    /\ outcome \in [Notes -> {"none", "skipped", "unchanged", "written", "conflict"}]
    /\ offer \in [Notes -> {NoFile} \cup Renders]
    /\ {kept, touched, stranded} \subseteq SUBSET Paths
    /\ count \in [exports : 0 .. MaxExports, touches : 0 .. MaxTouches,
                  failures : 0 .. MaxFailures]

\* A crash or a failing call at any point of a write leaves the old note or the
\* new one, never a part of it (atomic_write's temporary file and rename).
NoTornNote == \A p \in Paths : disk[p] # Torn

\* The index knows what the app last put in a file, whatever failed in between;
\* the exception is a file renamed into place by a call that did not get to
\* record it (write_rendered writes the file first and the row after it).
IndexKnowsOwnFiles ==
    \A p \in Paths : disk[p].by = "core" => AsRecorded(p) \/ p \in stranded

\* No other note has this note's file.
Alone(n) == \A m \in Notes \ {n} : PathOf[m] # PathOf[n]

\* A merge proposal has a cause: the file holds the user's bytes or was kept by
\* the user's decision, an earlier call stranded it, or the user has touched it
\* since.  The app does not quarrel with its own file, over any number of
\* exports, changed records, failures and resolutions.
ConflictHasCause ==
    \A n \in Notes : offer[n] # NoFile /\ Alone(n) =>
        LET p == PathOf[n] IN
            \/ disk[p].by = "user" \/ p \in touched \/ p \in stranded
            \/ index[p] # NoRow /\ index[p].origin = "user"

\* Vault and index agree through crashes, failures and the user's edits.
VaultInv == TypeOK /\ NoTornNote /\ IndexKnowsOwnFiles /\ ConflictHasCause

\* A note reported as written or unchanged is in the vault, rendered from the
\* records as they are, the ones it links to included, until the user touches
\* it: an old rendering is never taken for the current one.
ReportedNoteIsCurrent ==
    \A n \in Notes :
        outcome[n] \in {"written", "unchanged"} /\ Alone(n) /\ PathOf[n] \notin touched
            => disk[PathOf[n]] = Rendered(n)

\* The bytes of the user, and the files the user chose to keep.
Theirs(p) == disk[p].by = "user" \/ p \in kept

\* An export replaces nothing of the user's, except what the user put there
\* after the writer had looked at the file (the rename does not look again); a
\* resolution does when the user asked for it.
UserBytesSurvive ==
    [][\A p \in Paths : Theirs(p) /\ disk'[p] # disk[p] /\ disk'[p].by = "core" =>
            p \in touched \/ writer.call = "resolve"]_vvars

=============================================================================
