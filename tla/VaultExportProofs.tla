------------------------- MODULE VaultExportProofs -------------------------
(***************************************************************************)
(* What VaultExport promises for any notes, paths, records and number of   *)
(* exports, edits and failures: the user's bytes survive, no note is ever  *)
(* torn, vault and index agree, and what an export reports is true.        *)
(***************************************************************************)
EXTENDS VaultExport, SequenceTheorems, TLAPS

ByCore(content) == content.by = "core"
InWrite == writer.at \in {"create", "fill", "rename", "record"}

\* The maps are maps over the vault's files and notes.
MapsOfFiles ==
    /\ disk = [p \in Paths |-> disk[p]] /\ tmp = [p \in Paths |-> tmp[p]]
    /\ index = [p \in Paths |-> index[p]] /\ offer = [n \in Notes |-> offer[n]]

\* The writer is at rest, before a note, or in a write.
WriterIs ==
    \/ writer = [at |-> "idle"]
    \/ writer.at \in {"look", "read"} /\ writer = [at |-> writer.at, rest |-> writer.rest]
    \/ /\ InWrite /\ writer.call \in {"export", "resolve"}
       /\ writer = [at |-> writer.at, call |-> writer.call, rest |-> writer.rest,
                    note |-> writer.note, data |-> writer.data]

\* What the app puts into a file, proposes or records as its own is its own.
OwnIsOwn ==
    /\ \A p \in Paths : index[p].origin = "core" => ByCore(index[p].hash)
    /\ \A n \in Notes : offer[n] # NoFile => ByCore(offer[n])
    /\ InWrite => ByCore(writer.data)

\* A file kept by decision is there, and its row says whose it is.
KeptIsTheirs ==
    \A p \in kept : p \in Paths => disk[p] # NoFile /\ index[p].origin = "user"

\* Between the look and the rename of an export a file is the user's only if
\* the user came by in between; the temporary file then holds the whole note.
WriteIsClear ==
    /\ writer.at \in {"create", "fill", "rename"} /\ writer.call = "export" /\ Here \in Paths
          => Here \in touched \/ ~Theirs(Here)
    /\ writer.at = "rename" /\ Here \in Paths => tmp[Here] = writer.data
    /\ writer.at = "record" => Here \notin kept

VInv == MapsOfFiles /\ WriterIs /\ OwnIsOwn /\ KeptIsTheirs /\ WriteIsClear /\ NoTornNote

\* It holds of an empty vault.
LEMMA InitHoldsVInv == Init => VInv
BY DEF Init, VInv, MapsOfFiles, WriterIs, OwnIsOwn, KeptIsTheirs, WriteIsClear, NoTornNote,
       Resting, NoFile, NoRow, Torn, ByCore, InWrite
\* What a write begins with.
LEMMA WriteBegins ==
    ASSUME NEW call, NEW rest, NEW n, NEW content, writer' = Writing(call, rest, n, content)
    PROVE  /\ writer'.at = "create" /\ writer'.call = call /\ writer'.data = content
           /\ InWrite' /\ Here' = PathOf[n]
           /\ call \in {"export", "resolve"} => WriterIs'
BY DEF Writing, InWrite, Here, Current, WriterIs

\* Behind a note the writer rests or looks at the next, with nothing half-written.
LEMMA OnwardRests ==
    ASSUME NEW rest, writer' = Onward(rest) \/ writer' = Resting
    PROVE  writer'.at \in {"idle", "look"} /\ ~InWrite' /\ WriterIs' /\ WriteIsClear'
<1>1. writer' = [at |-> "idle"] \/ writer' = [at |-> "look", rest |-> rest]
  BY DEF Onward, Resting
<1>2. writer'.at \in {"idle", "look"} /\ WriterIs'
  BY <1>1 DEF WriterIs
<1> QED
  BY <1>2 DEF InWrite, WriteIsClear

\* The export decides about a note.
LEMMA ExportKeeps == ASSUME VInv, ExportNext PROVE VInv'
<1> USE DEF VInv
<1>1. UNCHANGED <<disk, tmp, index, kept>> /\ NoTornNote'
  BY DEF ExportNext, Begin, Skip, Look, ReadMissing, Read, files, NoTornNote
<1>2. KeptIsTheirs'
  BY <1>1 DEF KeptIsTheirs
<1>3. CASE Begin
  <2>1. ~InWrite' /\ WriterIs' /\ WriteIsClear' /\ offer' = [n \in Notes |-> NoFile]
    BY <1>3 DEF Begin, InWrite, WriterIs, WriteIsClear
  <2> QED
    BY <1>1, <1>2, <2>1 DEF MapsOfFiles, OwnIsOwn
<1>4. CASE Skip \/ ReadMissing
  <2>1. ~InWrite' /\ WriterIs' /\ WriteIsClear' /\ offer' = offer
    BY <1>4, OnwardRests DEF Skip, ReadMissing
  <2> QED
    BY <1>1, <1>2, <2>1 DEF MapsOfFiles, OwnIsOwn
<1>5. CASE Look
  <2>1. CASE disk[Here] = NoFile
    <3>1. writer' = Writing("export", Tail(writer.rest), Current, Rendered(Current))
          /\ offer' = offer
      BY <1>5, <2>1 DEF Look
    <3>2. /\ writer'.at = "create" /\ InWrite' /\ ByCore(writer'.data) /\ Here' = Here
      BY <3>1, WriteBegins DEF Rendered, ByCore, Here
    <3>3. Here \in Paths => ~Theirs(Here)
      BY <2>1 DEF Theirs, KeptIsTheirs, NoFile
    <3> QED
      BY <1>1, <1>2, <3>1, <3>2, <3>3, WriteBegins
         DEF MapsOfFiles, OwnIsOwn, WriteIsClear, Theirs
  <2>2. CASE disk[Here] # NoFile
    <3>1. /\ writer' = [writer EXCEPT !.at = "read"] /\ writer.at = "look" /\ offer' = offer
      BY <1>5, <2>2 DEF Look
    <3>2. writer'.at = "read" /\ ~InWrite' /\ WriterIs'
      BY <3>1 DEF WriterIs, InWrite
    <3> QED
      BY <1>1, <1>2, <3>1, <3>2 DEF MapsOfFiles, OwnIsOwn, WriteIsClear
  <2> QED
    BY <2>1, <2>2
<1>6. CASE Read
  <2>1. CASE Regenerates(Current)
    <3>1. writer' = Writing("export", Tail(writer.rest), Current, Rendered(Current))
          /\ offer' = offer
      BY <1>6, <2>1 DEF Read
    <3>2. /\ writer'.at = "create" /\ InWrite' /\ ByCore(writer'.data) /\ Here' = Here
      BY <3>1, WriteBegins DEF Rendered, ByCore, Here
    <3>3. Here \in Paths => ~Theirs(Here)
      BY <2>1 DEF Theirs, KeptIsTheirs, OwnIsOwn, Regenerates, Replaces, AsRecorded, Here, ByCore
    <3> QED
      BY <1>1, <1>2, <3>1, <3>2, <3>3, WriteBegins
         DEF MapsOfFiles, OwnIsOwn, WriteIsClear, Theirs
  <2>2. CASE ~ Regenerates(Current)
    <3>1. /\ writer' = Onward(Tail(writer.rest))
          /\ Says(Current, IF UpToDate(Current) THEN "unchanged" ELSE "conflict")
      BY <1>6, <2>2 DEF Read
    <3>2. /\ offer' = [n \in Notes |-> offer'[n]]
          /\ \A n \in Notes : offer'[n] # NoFile => ByCore(offer'[n])
      BY <3>1 DEF Says, MapsOfFiles, OwnIsOwn, Rendered, ByCore
    <3> QED
      BY <1>1, <1>2, <3>1, <3>2, OnwardRests DEF MapsOfFiles, OwnIsOwn
  <2> QED
    BY <2>1, <2>2
<1> QED
  BY <1>3, <1>4, <1>5, <1>6 DEF ExportNext

\* The write of one note.
LEMMA WriteKeeps == ASSUME VInv, WriteNext PROVE VInv'
<1> USE DEF VInv
<1>1. CASE Create \/ Fill
  <2>1. /\ writer.at \in {"create", "fill"}
        /\ writer' = [writer EXCEPT !.at = IF writer.at = "create" THEN "fill" ELSE "rename"]
        /\ tmp' = [tmp EXCEPT ![Here] = IF writer.at = "create" THEN Torn ELSE writer.data]
        /\ UNCHANGED <<disk, index, offer, kept, touched>>
    BY <1>1 DEF Create, Fill
  <2>2. /\ writer'.at = IF writer.at = "create" THEN "fill" ELSE "rename"
        /\ writer'.call = writer.call /\ writer'.note = writer.note
        /\ writer'.data = writer.data /\ writer'.rest = writer.rest
        /\ WriterIs'
    BY <2>1 DEF WriterIs, InWrite
  <2>3. Here' = Here /\ InWrite' /\ InWrite
    BY <2>1, <2>2 DEF Here, Current, InWrite
  <2>4. MapsOfFiles'
    BY <2>1, <2>2, <2>3 DEF MapsOfFiles
  <2>5. OwnIsOwn' /\ KeptIsTheirs' /\ NoTornNote'
    BY <2>1, <2>2, <2>3 DEF OwnIsOwn, KeptIsTheirs, NoTornNote
  <2>6. WriteIsClear'
    BY <2>1, <2>2, <2>3 DEF WriteIsClear, MapsOfFiles, Theirs
  <2> QED
    BY <2>2, <2>4, <2>5, <2>6
<1>2. CASE Rename
  <2>1. /\ writer.at = "rename" /\ writer' = [writer EXCEPT !.at = "record"]
        /\ disk' = [disk EXCEPT ![Here] = tmp[Here]]
        /\ tmp' = [tmp EXCEPT ![Here] = NoFile]
        /\ kept' = kept \ {Here} /\ UNCHANGED <<index, offer>>
    BY <1>2 DEF Rename
  <2>2. /\ writer'.at = "record" /\ writer'.note = writer.note /\ writer'.data = writer.data
        /\ WriterIs'
    BY <2>1 DEF WriterIs, InWrite
  <2>3. Here' = Here /\ InWrite' /\ InWrite
    BY <2>1, <2>2 DEF Here, Current, InWrite
  <2>4. Here \in Paths => ByCore(tmp[Here]) /\ tmp[Here] # Torn
    BY <2>1, <2>3 DEF WriteIsClear, OwnIsOwn, ByCore, Torn
  <2>5. MapsOfFiles'
    BY <2>1, <2>2, <2>3 DEF MapsOfFiles
  <2>6. OwnIsOwn' /\ KeptIsTheirs'
    BY <2>1, <2>2, <2>3 DEF OwnIsOwn, KeptIsTheirs, MapsOfFiles
  <2>7. NoTornNote'
    BY <2>1, <2>4 DEF NoTornNote, MapsOfFiles
  <2>8. WriteIsClear'
    BY <2>1, <2>2, <2>3 DEF WriteIsClear
  <2> QED
    BY <2>2, <2>5, <2>6, <2>7, <2>8
<1>3. CASE Record
  <2>1. /\ writer.at = "record"
        /\ writer' = Onward(writer.rest) \/ writer' = Resting
        /\ index' = [index EXCEPT ![Here] = Row(writer.data, "core")]
        /\ UNCHANGED <<disk, tmp, offer, kept, touched>>
    BY <1>3 DEF Record, RowAfterWrite
  <2>2. Here \notin kept /\ ByCore(writer.data)
    BY <2>1 DEF WriteIsClear, OwnIsOwn, InWrite
  <2>3. MapsOfFiles' /\ WriterIs' /\ WriteIsClear'
    BY <2>1, OnwardRests DEF MapsOfFiles
  <2>4. OwnIsOwn'
    BY <2>1, <2>2, OnwardRests DEF OwnIsOwn, MapsOfFiles, Row
  <2>5. KeptIsTheirs' /\ NoTornNote'
    BY <2>1, <2>2 DEF KeptIsTheirs, NoTornNote, MapsOfFiles
  <2> QED
    BY <2>3, <2>4, <2>5
<1> QED
  BY <1>1, <1>2, <1>3 DEF WriteNext

\* A failure or a crash leaves files and rows as they are.
LEMMA FaultKeeps == ASSUME VInv, FaultNext PROVE VInv'
<1> USE DEF VInv
<1>1. /\ writer' = Resting /\ UNCHANGED <<disk, index, kept>>
      /\ tmp' = tmp \/ tmp' = [tmp EXCEPT ![Here] = NoFile]
      /\ offer' = offer \/ offer' = [n \in Notes |-> NoFile]
  BY DEF FaultNext, WriteFails, RecordFails, Crash, files
<1>2. MapsOfFiles' /\ WriterIs' /\ WriteIsClear'
  BY <1>1, OnwardRests DEF MapsOfFiles
<1>3. OwnIsOwn' /\ KeptIsTheirs' /\ NoTornNote'
  BY <1>1, OnwardRests DEF OwnIsOwn, KeptIsTheirs, NoTornNote
<1> QED
  BY <1>2, <1>3

\* The user edits and deletes at any moment, and decides while nobody writes.
LEMMA UserKeeps == ASSUME VInv, UserNext PROVE VInv'
<1> USE DEF VInv
<1>1. ASSUME NEW n \in Notes, KeepUser(n) PROVE VInv'
  <2>1. /\ UNCHANGED <<disk, tmp, writer>> /\ disk[PathOf[n]] # NoFile
        /\ index' = [index EXCEPT ![PathOf[n]] = Row(disk[PathOf[n]], "user")]
        /\ offer' = [offer EXCEPT ![n] = NoFile] /\ kept' = kept \cup {PathOf[n]}
        /\ writer.at = "idle" /\ ~InWrite
    BY <1>1 DEF KeepUser, Resting, InWrite
  <2>2. MapsOfFiles' /\ WriterIs' /\ WriteIsClear'
    BY <2>1 DEF MapsOfFiles, WriteIsClear, WriterIs, InWrite
  <2>3. OwnIsOwn'
    BY <2>1 DEF OwnIsOwn, MapsOfFiles, Row, InWrite
  <2>4. KeptIsTheirs' /\ NoTornNote'
    BY <2>1 DEF KeptIsTheirs, NoTornNote, MapsOfFiles, Row
  <2> QED
    BY <2>2, <2>3, <2>4
<1>2. ASSUME NEW n \in Notes, UseOurs(n) PROVE VInv'
  <2>1. /\ UNCHANGED <<disk, tmp, index, kept, touched>>
        /\ writer' = Writing("resolve", <<>>, n, offer[n]) /\ offer[n] # NoFile
        /\ offer' = [offer EXCEPT ![n] = NoFile]
    BY <1>2 DEF UseOurs, files
  <2>2. MapsOfFiles' /\ WriterIs' /\ WriteIsClear'
    BY <2>1, WriteBegins DEF MapsOfFiles, WriteIsClear
  <2>3. OwnIsOwn' /\ KeptIsTheirs' /\ NoTornNote'
    BY <2>1, WriteBegins DEF OwnIsOwn, KeptIsTheirs, NoTornNote, MapsOfFiles
  <2> QED
    BY <2>2, <2>3
<1>3. ASSUME NEW p \in Paths, UserWrites(p) \/ UserDeletes(p) PROVE VInv'
  <2>1. PICK content : /\ disk' = [disk EXCEPT ![p] = content] /\ content # Torn
                       /\ touched' = touched \cup {p} /\ kept' = kept \ {p}
                       /\ UNCHANGED <<tmp, index, writer, offer>>
    BY <1>3 DEF UserWrites, UserDeletes, UserTouches, UserText, NoFile, Torn
  <2>2. MapsOfFiles' /\ WriterIs' /\ OwnIsOwn'
    BY <2>1 DEF MapsOfFiles, WriterIs, OwnIsOwn, InWrite
  <2>3. KeptIsTheirs' /\ NoTornNote'
    BY <2>1 DEF KeptIsTheirs, NoTornNote, MapsOfFiles
  <2>4. WriteIsClear'
    BY <2>1 DEF WriteIsClear, MapsOfFiles, Theirs, Here, Current
  <2> QED
    BY <2>2, <2>3, <2>4
<1> QED
  BY <1>1, <1>2, <1>3 DEF UserNext

\* Every step keeps it.
LEMMA VInvStep == VInv /\ [Next]_vvars => VInv'
<1> SUFFICES ASSUME VInv, [Next]_vvars PROVE VInv'
  OBVIOUS
<1>1. CASE (\E n \in Notes : RecordChanges(n)) \/ UNCHANGED vvars
  <2>1. UNCHANGED <<disk, tmp, index, writer, offer, kept, touched>>
    BY <1>1 DEF RecordChanges, vvars, files
  <2> QED
    BY <2>1 DEF VInv, MapsOfFiles, WriterIs, OwnIsOwn, KeptIsTheirs, WriteIsClear, NoTornNote,
           InWrite, Theirs, Here, Current
<1> QED
  BY <1>1, ExportKeeps, WriteKeeps, FaultKeeps, UserKeeps DEF Next

\* The inductive invariant of the vault.
LEMMA VInvHolds == Spec => []VInv
BY InitHoldsVInv, VInvStep, PTL DEF Spec

\* Whatever fails, and wherever the process dies, no note is ever torn, for any
\* number of notes, exports, edits and failures (atomic_write of vault.rs).
THEOREM NoTornNoteHolds == Spec => []NoTornNote
<1>1. VInv => NoTornNote
  BY DEF VInv
<1> QED
  BY <1>1, VInvHolds, PTL

\* An export replaces nothing of the user's but what came between its look and
\* its rename (write_rendered and atomic_write of vault.rs).
THEOREM UserBytesSurviveHolds == Spec => UserBytesSurvive
<1>1. VInv /\ [Next]_vvars =>
        [\A p \in Paths : Theirs(p) /\ disk'[p] # disk[p] /\ disk'[p].by = "core" =>
            p \in touched \/ writer.call = "resolve"]_vvars
  <2> SUFFICES ASSUME VInv, Next, NEW p \in Paths,
                      Theirs(p), disk'[p] # disk[p], disk'[p].by = "core"
               PROVE  p \in touched \/ writer.call = "resolve"
    OBVIOUS
  <2>1. CASE Rename
    <3>1. p = Here
      BY <2>1 DEF Rename, VInv, MapsOfFiles
    <3> QED
      BY <2>1, <3>1 DEF Rename, VInv, WriteIsClear, WriterIs, InWrite
  <2>2. CASE \E q \in Paths : UserWrites(q) \/ UserDeletes(q)
    <3>1. PICK q \in Paths : UserWrites(q) \/ UserDeletes(q)
      BY <2>2
    <3>2. PICK content \in {NoFile, UserText(count["touches"])} :
            disk' = [disk EXCEPT ![q] = content]
      BY <3>1 DEF UserWrites, UserDeletes, UserTouches
    <3> QED
      BY <3>2 DEF VInv, MapsOfFiles, UserText, NoFile
  <2>3. CASE ~Rename /\ ~(\E q \in Paths : UserWrites(q) \/ UserDeletes(q))
    BY <2>3 DEF Next, ExportNext, WriteNext, FaultNext, UserNext, Begin, Skip, Look,
           ReadMissing, Read, Create, Fill, Record, WriteFails, RecordFails, Crash,
           KeepUser, UseOurs, RecordChanges, files
  <2> QED
    BY <2>1, <2>2, <2>3
<1> QED
  BY <1>1, VInvHolds, PTL DEF Spec, UserBytesSurvive

-----------------------------------------------------------------------------
\* The notes of a sequence.
Ahead(rest) == {rest[i] : i \in DOMAIN rest}

\* A note the export has yet to come to: nothing is said of it.
Untold(n) == offer[n] = NoFile /\ outcome[n] = "none"

\* What is read, written, proposed or reported has a file of its own kind.
FilesAreThere ==
    /\ writer.at = "read" \/ InWrite => Here \in Paths
    /\ \A n \in Notes : offer[n] # NoFile \/ outcome[n] \in {"written", "unchanged"}
                          => PathOf[n] \in Paths

\* The export speaks of a note when it is done with it, and never twice.
NothingSaidAhead ==
    /\ writer.at \in {"look", "read"} => \A m \in Ahead(writer.rest) : Untold(m)
    /\ InWrite => /\ \A m \in Ahead(writer.rest) : m # writer.note /\ Untold(m)
                  /\ offer[writer.note] = NoFile
                  /\ outcome[writer.note] \in {"none", "conflict"}
    /\ \A n \in Notes : offer[n] # NoFile => outcome[n] \in {"none", "conflict"}

\* An export writes what the records say, and what is to be recorded is in the
\* file unless the user came by.
WriteIsCurrent ==
    /\ InWrite /\ writer.call = "export" => writer.data = Rendered(writer.note)
    /\ writer.at = "record" => /\ disk[Here].by = "core" => disk[Here] = writer.data
                               /\ Here \in touched \/ disk[Here] = writer.data

\* What is left of the order: its head is a note, and nothing comes twice.
LEMMA RestShape ==
    ASSUME NEW r \in Rests, r # <<>>
    PROVE  /\ Head(r) \in Notes /\ Tail(r) \in Rests /\ Head(r) \in Ahead(r)
           /\ \A m \in Ahead(Tail(r)) : m \in Ahead(r) /\ m # Head(r)
<1> DEFINE L == Len(Order)
<1>1. Order \in Seq(Notes) /\ L \in Nat /\ DOMAIN Order = 1 .. L
      /\ \A j \in 1 .. L : Order[j] \in Notes
  BY VaultAssumption, LenProperties
<1>2. PICK i \in 1 .. L + 1 : r = SubSeq(Order, i, L)
  BY DEF Rests
<1>3. \A j \in 1 .. L + 1 : /\ SubSeq(Order, j, L) \in Seq(Notes) /\ Len(SubSeq(Order, j, L)) = L + 1 - j
                            /\ \A k \in 1 .. L + 1 - j : SubSeq(Order, j, L)[k] = Order[j + k - 1]
  <2> TAKE j \in 1 .. L + 1
  <2>1. \A k \in j .. L : Order[k] \in Notes
    BY <1>1
  <2>2. j \in Int /\ L \in Int
    BY <1>1
  <2>3. /\ SubSeq(Order, j, L) \in Seq(Notes)
        /\ Len(SubSeq(Order, j, L)) = (IF j <= L THEN L - j + 1 ELSE 0)
        /\ \A k \in 1 .. L - j + 1 : SubSeq(Order, j, L)[k] = Order[j + k - 1]
    BY <2>1, <2>2, SubSeqProperties
  <2> QED
    BY <1>1, <2>3
<1>4. r \in Seq(Notes) /\ Len(r) = L + 1 - i /\ \A k \in 1 .. L + 1 - i : r[k] = Order[i + k - 1]
  BY <1>2, <1>3
<1> HIDE DEF L
<1>5. Len(r) # 0
  BY <1>4, EmptySeq
<1>6. i <= L /\ i + 1 \in 1 .. L + 1
  BY <1>1, <1>2, <1>4, <1>5
<1>7. PICK t : t = SubSeq(Order, i + 1, L)
  OBVIOUS
<1>8. t \in Seq(Notes) /\ Len(t) = L - i /\ \A k \in 1 .. L - i : t[k] = Order[i + k]
  <2>1. L + 1 - (i + 1) = L - i /\ \A k \in 1 .. L - i : (i + 1) + k - 1 = i + k
    BY <1>1, <1>2
  <2> QED
    BY <1>3, <1>6, <1>7, <2>1
<1>9. PICK u \in Seq(Notes) : u = Tail(r) /\ Len(u) = L - i /\ \A k \in 1 .. L - i : u[k] = r[k + 1]
  <2>1. Len(r) - 1 = L - i
    BY <1>1, <1>2, <1>4
  <2>2. PICK u : u = Tail(r)
    OBVIOUS
  <2>3. u \in Seq(Notes) /\ Len(u) = Len(r) - 1 /\ \A k \in 1 .. Len(u) : u[k] = r[k + 1]
    BY <1>4, <2>2, HeadTailProperties, Zenon
  <2> QED
    BY <2>1, <2>2, <2>3
<1>10. \A k \in 1 .. L - i : k + 1 \in 1 .. L + 1 - i /\ i + (k + 1) - 1 = i + k /\ i + k \in 1 .. L
  BY <1>1, <1>2
<1>11. u = t
  <2>1. ASSUME NEW k \in 1 .. L - i PROVE u[k] = t[k]
    <3>1. u[k] = r[k + 1] /\ t[k] = Order[i + k]
      BY <1>8, <1>9
    <3>2. r[k + 1] = Order[i + (k + 1) - 1]
      BY <1>4, <1>10
    <3> QED
      BY <1>10, <3>1, <3>2
  <2> QED
    BY <1>8, <1>9, <2>1, SeqEqual
<1>12. Tail(r) \in Rests
  BY <1>6, <1>7, <1>9, <1>11 DEF Rests, L
<1>13. 1 \in 1 .. L + 1 - i /\ DOMAIN r = 1 .. L + 1 - i /\ DOMAIN t = 1 .. L - i
  BY <1>1, <1>4, <1>6, <1>8, LenProperties
<1>14. Head(r) = r[1] /\ r[1] = Order[i] /\ i \in 1 .. L
  <2>1. i + 1 - 1 = i /\ i \in 1 .. L
    BY <1>1, <1>2, <1>6
  <2> QED
    BY <1>4, <1>13, <2>1
<1>15. Head(r) \in Notes /\ Head(r) \in Ahead(r)
  BY <1>1, <1>13, <1>14 DEF Ahead
<1>16. ASSUME NEW m \in Ahead(Tail(r)) PROVE m \in Ahead(r) /\ m # Head(r)
  <2>1. PICK k \in 1 .. L - i : m = t[k]
    BY <1>9, <1>11, <1>13 DEF Ahead
  <2>2. m = r[k + 1] /\ k + 1 \in DOMAIN r
    BY <1>9, <1>10, <1>11, <1>13, <2>1
  <2>3. m = Order[i + k] /\ i + k # i
    BY <1>2, <1>8, <2>1
  <2> QED
    BY <1>1, <1>10, <1>14, <2>1, <2>2, <2>3, VaultAssumption DEF Ahead
<1> QED
  BY <1>12, <1>15, <1>16

\* It is a sequence of notes.
LEMMA RestsAreOfNotes == \A r \in Rests : Ahead(r) \subseteq Notes
<1>1. Order \in Seq(Notes) /\ Len(Order) \in Nat /\ \A j \in 1 .. Len(Order) : Order[j] \in Notes
  BY VaultAssumption, LenProperties
<1>2. ASSUME NEW i \in 1 .. Len(Order) + 1 PROVE SubSeq(Order, i, Len(Order)) \in Seq(Notes)
  <2>1. i \in Int /\ Len(Order) \in Int /\ \A k \in i .. Len(Order) : Order[k] \in Notes
    BY <1>1
  <2> QED
    BY <2>1, SubSeqProperties
<1>3. \A r \in Rests : r \in Seq(Notes)
  BY <1>2 DEF Rests
<1>4. \A r \in Seq(Notes) : \A j \in DOMAIN r : r[j] \in Notes
  BY LenProperties
<1> QED
  BY <1>3, <1>4 DEF Ahead

\* The whole order is left when an export begins, nothing when it ends.
LEMMA OrderIsARest == Order \in Rests /\ Order # <<>>
<1>1. Order \in Seq(Notes) /\ Len(Order) \in Nat
  BY VaultAssumption, LenProperties
<1>2. SubSeq(Order, 1, Len(Order)) = Order
  BY <1>1, SubSeqFull
<1>3. 1 \in 1 .. Len(Order) + 1
  BY <1>1
<1> QED
  BY <1>2, <1>3, VaultAssumption DEF Rests

\* The writer is at rest, before a note of the order, or in a write of a note.
WriterIsTyped ==
    \/ writer = Resting
    \/ writer.at \in {"look", "read"} /\ writer.rest \in Rests \ {<<>>}
    \/ writer \in Calls

\* A note is rendered from records that exist.
LEMMA RenderedIsTyped ==
    ASSUME TypeOK, NEW n \in Notes
    PROVE  Rendered(n) \in Renders /\ Rendered(n).by = "core"
<1>1. Inputs[n] \subseteq Notes /\ version \in [Notes -> 0 .. MaxVersions]
  BY VaultAssumption DEF TypeOK, Versions
<1>2. RecordsOf(n) \in [Inputs[n] -> 0 .. MaxVersions]
  BY <1>1 DEF RecordsOf
<1>3. Rendered(n) \in [by : {"core"}, note : {n}, of : [Inputs[n] -> 0 .. MaxVersions]]
  BY <1>2 DEF Rendered
<1> QED
  BY <1>3 DEF Renders, Rendered

\* What is counted stays within its bound.
LEMMA CountFits ==
    ASSUME TypeOK, Count("exports", MaxExports) \/ Count("touches", MaxTouches)
                   \/ Count("failures", MaxFailures)
    PROVE  count' \in [exports : 0 .. MaxExports, touches : 0 .. MaxTouches,
                       failures : 0 .. MaxFailures]
<1>1. {MaxExports, MaxTouches, MaxFailures} \subseteq Nat
  BY VaultAssumption
<1>2. count \in [exports : 0 .. MaxExports, touches : 0 .. MaxTouches,
                 failures : 0 .. MaxFailures]
  BY DEF TypeOK
<1> QED
  BY <1>1, <1>2 DEF Count

\* The writer after a note, and at the beginning of a write.
LEMMA OnwardIsTyped ==
    ASSUME NEW rest \in Rests, writer' = Onward(rest) \/ writer' = Resting
    PROVE  WriterIsTyped'
BY DEF Onward, WriterIsTyped, Resting

\* A write begun is typed.
LEMMA WritingIsTyped ==
    ASSUME NEW call \in {"export", "resolve"}, NEW rest \in Rests, NEW n \in Notes,
           NEW content \in Renders, writer' = Writing(call, rest, n, content)
    PROVE  WriterIsTyped'
BY DEF Writing, WriterIsTyped, Calls

\* An empty sequence is what is left at the end.
LEMMA NothingIsARest == <<>> \in Rests
<1>1. Len(Order) \in Nat
  BY VaultAssumption, LenProperties
<1>2. Len(Order) + 1 \in 1 .. Len(Order) + 1
  BY <1>1
<1>3. SubSeq(Order, Len(Order) + 1, Len(Order)) = <<>>
  BY <1>1, SubSeqEmpty
<1> QED
  BY <1>2, <1>3 DEF Rests

\* The note at hand is a note, before it or in its write.
LEMMA CurrentIsANote ==
    ASSUME VInv, TypeOK
    PROVE  /\ writer.at \in {"look", "read"} => /\ writer.rest \in Rests /\ writer.rest # <<>>
                                               /\ Current = Head(writer.rest)
           /\ InWrite => /\ writer \in Calls /\ Current = writer.note /\ writer.note \in Notes
                         /\ writer.data \in Renders /\ writer.rest \in Rests
                         /\ writer.call \in {"export", "resolve"}
           /\ writer.at \in {"look", "read"} \/ InWrite => Current \in Notes /\ writer # Resting
<1>1. writer.at \in {"look", "read"} =>
        writer.rest \in Rests /\ writer.rest # <<>> /\ Current = Head(writer.rest) /\ writer # Resting
  BY DEF TypeOK, Resting, Current, Calls
<1>2. InWrite => /\ writer \in Calls /\ Current = writer.note /\ writer # Resting
  BY DEF TypeOK, Resting, Current, InWrite
<1>3. InWrite => /\ writer.note \in Notes
                 /\ writer.data \in Renders /\ writer.rest \in Rests
                 /\ writer.call \in {"export", "resolve"}
  BY <1>2 DEF Calls
<1> QED
  BY <1>1, <1>2, <1>3, RestShape

\* An empty vault.
LEMMA InitIsTyped == Init => TypeOK
<1> SUFFICES ASSUME Init PROVE TypeOK
  OBVIOUS
<1>1. {MaxVersions, MaxExports, MaxTouches, MaxFailures} \subseteq Nat
  BY VaultAssumption
<1>2. disk \in [Paths -> Contents \cup {Torn}] /\ tmp \in [Paths -> {NoFile, Torn} \cup Renders]
  BY DEF Init, Contents
<1>3. index \in [Paths -> {NoRow} \cup [origin : {"core", "user"},
                                        hash : Renders \cup Texts \cup {Torn}]]
  BY DEF Init
<1>4. version \in Versions /\ offer \in [Notes -> {NoFile} \cup Renders]
      /\ outcome \in [Notes -> {"none", "skipped", "unchanged", "written", "conflict"}]
  BY <1>1 DEF Init, Versions
<1>5. count \in [exports : 0 .. MaxExports, touches : 0 .. MaxTouches, failures : 0 .. MaxFailures]
  BY <1>1 DEF Init
<1> QED
  BY <1>2, <1>3, <1>4, <1>5 DEF Init, TypeOK

\* The types, step by step.
LEMMA ExportKeepsTypeOK == ASSUME VInv, TypeOK, ExportNext PROVE TypeOK'
<1>1. UNCHANGED <<disk, tmp, index, version, kept, stranded>> /\ touched' \subseteq touched
  BY DEF ExportNext, Begin, Skip, Look, ReadMissing, Read, files
<1>2. count' \in [exports : 0 .. MaxExports, touches : 0 .. MaxTouches, failures : 0 .. MaxFailures]
  BY CountFits DEF ExportNext, Begin, Skip, Look, ReadMissing, Read, TypeOK
<1>3. ASSUME WriterIsTyped',
             outcome' \in [Notes -> {"none", "skipped", "unchanged", "written", "conflict"}],
             offer' \in [Notes -> {NoFile} \cup Renders]
      PROVE  TypeOK'
  BY <1>1, <1>2, <1>3 DEF TypeOK, WriterIsTyped
<1>4. outcome \in [Notes -> {"none", "skipped", "unchanged", "written", "conflict"}]
      /\ offer \in [Notes -> {NoFile} \cup Renders]
  BY DEF TypeOK
<1>5. CASE Begin
  <2>1. WriterIsTyped'
    BY <1>5, OrderIsARest DEF Begin, WriterIsTyped
  <2> QED
    BY <1>3, <1>5, <2>1 DEF Begin
<1>6. CASE ReadMissing
  BY <1>3, <1>4, <1>6 DEF ReadMissing, WriterIsTyped
<1>7. ASSUME Skip \/ Look \/ Read
      PROVE  /\ Current \in Notes /\ Tail(writer.rest) \in Rests
             /\ Rendered(Current) \in Renders /\ Rendered(Current).by = "core"
  <2>1. writer.at \in {"look", "read"}
    BY <1>7 DEF Skip, Look, Read
  <2> QED
    BY <2>1, CurrentIsANote, RestShape, RenderedIsTyped
<1>8. CASE Skip
  BY <1>3, <1>4, <1>7, <1>8, OnwardIsTyped DEF Skip
<1>9. CASE Look
  <2>1. CASE disk[Here] = NoFile
    BY <1>3, <1>4, <1>7, <1>9, <2>1, WritingIsTyped DEF Look
  <2>2. CASE disk[Here] # NoFile
    <3>1. writer' = [writer EXCEPT !.at = "read"] /\ writer.at = "look"
          /\ UNCHANGED <<offer, outcome>>
      BY <1>9, <2>2 DEF Look
    <3>2. writer'.at = "read" /\ writer'.rest = writer.rest
      BY <3>1 DEF VInv, WriterIs, InWrite
    <3>3. WriterIsTyped'
      BY <3>1, <3>2, CurrentIsANote DEF WriterIsTyped
    <3> QED
      BY <1>3, <1>4, <3>1, <3>3
  <2> QED
    BY <2>1, <2>2
<1>10. CASE Read
  <2>1. CASE Regenerates(Current)
    BY <1>3, <1>4, <1>7, <1>10, <2>1, WritingIsTyped DEF Read
  <2>2. CASE ~ Regenerates(Current)
    <3>1. writer' = Onward(Tail(writer.rest))
          /\ \E what \in {"unchanged", "conflict"} : Says(Current, what)
      BY <1>10, <2>2 DEF Read
    <3>2. /\ outcome' \in [Notes -> {"none", "skipped", "unchanged", "written", "conflict"}]
          /\ offer' \in [Notes -> {NoFile} \cup Renders]
      BY <1>4, <1>7, <1>10, <3>1 DEF Says
    <3> QED
      BY <1>3, <1>7, <1>10, <3>1, <3>2, OnwardIsTyped
  <2> QED
    BY <2>1, <2>2
<1> QED
  BY <1>5, <1>6, <1>8, <1>9, <1>10 DEF ExportNext

\* What a step of a write leaves of the writer.
LEMMA WriteGoesOn ==
    ASSUME VInv, TypeOK, InWrite, NEW next \in {"fill", "rename", "record"},
           writer' = [writer EXCEPT !.at = next]
    PROVE  /\ writer'.at = next /\ writer'.call = writer.call /\ writer'.note = writer.note
           /\ writer'.data = writer.data /\ writer'.rest = writer.rest
           /\ InWrite' /\ Here' = Here /\ Current' = Current /\ WriterIsTyped'
<1>1. writer \in Calls /\ Current = writer.note
  BY CurrentIsANote
<1>2. /\ writer'.at = next /\ writer'.call = writer.call /\ writer'.note = writer.note
      /\ writer'.data = writer.data /\ writer'.rest = writer.rest /\ writer' \in Calls
  BY <1>1 DEF Calls
<1>3. InWrite' /\ Current' = Current
  BY <1>1, <1>2 DEF InWrite, Current
<1> QED
  BY <1>2, <1>3 DEF Here, WriterIsTyped

\* The types, through the steps of the writer,
LEMMA WriteKeepsTypeOK == ASSUME VInv, TypeOK, FilesAreThere, WriteNext PROVE TypeOK'
<1>1. InWrite /\ Here \in Paths
  BY DEF WriteNext, Create, Fill, Rename, Record, InWrite, FilesAreThere
<1>2. writer.data \in Renders /\ writer.note \in Notes /\ writer.rest \in Rests
  BY <1>1, CurrentIsANote
<1>3. UNCHANGED <<version, offer, count>>
  BY DEF WriteNext, Create, Fill, Rename, Record
<1>4. ASSUME WriterIsTyped', disk' \in [Paths -> Contents \cup {Torn}],
             tmp' \in [Paths -> {NoFile, Torn} \cup Renders],
             index' \in [Paths -> {NoRow} \cup [origin : {"core", "user"},
                                               hash : Renders \cup Texts \cup {Torn}]],
             outcome' \in [Notes -> {"none", "skipped", "unchanged", "written", "conflict"}],
             {kept', touched', stranded'} \subseteq SUBSET Paths
      PROVE  TypeOK'
  BY <1>3, <1>4 DEF TypeOK, WriterIsTyped
<1>5. /\ disk \in [Paths -> Contents \cup {Torn}]
      /\ tmp \in [Paths -> {NoFile, Torn} \cup Renders]
      /\ index \in [Paths -> {NoRow} \cup [origin : {"core", "user"},
                                        hash : Renders \cup Texts \cup {Torn}]]
      /\ outcome \in [Notes -> {"none", "skipped", "unchanged", "written", "conflict"}]
      /\ {kept, touched, stranded} \subseteq SUBSET Paths
  BY DEF TypeOK
<1>6. CASE Create \/ Fill
  <2>1. PICK next \in {"fill", "rename"} : writer' = [writer EXCEPT !.at = next]
    BY <1>6 DEF Create, Fill
  <2>2. WriterIsTyped'
    BY <1>1, <2>1, WriteGoesOn
  <2>3. tmp' \in [Paths -> {NoFile, Torn} \cup Renders]
    BY <1>2, <1>5, <1>6 DEF Create, Fill
  <2> QED
    BY <1>4, <1>5, <1>6, <2>2, <2>3 DEF Create, Fill
<1>7. CASE Rename
  <2>1. WriterIsTyped'
    BY <1>1, <1>7, WriteGoesOn DEF Rename
  <2>2. tmp[Here] \in Contents
    BY <1>1, <1>2, <1>7 DEF Rename, VInv, WriteIsClear, Contents
  <2>3. /\ disk' \in [Paths -> Contents \cup {Torn}]
        /\ tmp' \in [Paths -> {NoFile, Torn} \cup Renders]
    BY <1>5, <1>7, <2>2 DEF Rename
  <2> QED
    BY <1>1, <1>4, <1>5, <1>7, <2>1, <2>3 DEF Rename
<1>8. CASE Record
  <2>1. WriterIsTyped'
    BY <1>2, <1>8, OnwardIsTyped DEF Record
  <2>2. index' \in [Paths -> {NoRow} \cup [origin : {"core", "user"},
                                          hash : Renders \cup Texts \cup {Torn}]]
    BY <1>2, <1>5, <1>8 DEF Record, RowAfterWrite, Row
  <2>3. outcome' \in [Notes -> {"none", "skipped", "unchanged", "written", "conflict"}]
    BY <1>2, <1>5, <1>8 DEF Record
  <2> QED
    BY <1>4, <1>5, <1>8, <2>1, <2>2, <2>3 DEF Record
<1> QED
  BY <1>6, <1>7, <1>8 DEF WriteNext

\* through crashes and failing writes,
LEMMA FaultKeepsTypeOK == ASSUME TypeOK, FaultNext PROVE TypeOK'
<1>1. /\ writer' = Resting /\ UNCHANGED <<disk, index, version, kept, touched, stranded>>
      /\ tmp' = tmp \/ tmp' = [tmp EXCEPT ![Here] = NoFile]
      /\ offer' = offer \/ offer' = [n \in Notes |-> NoFile]
      /\ outcome' = outcome \/ outcome' = [n \in Notes |-> "none"]
      /\ Count("failures", MaxFailures)
  BY DEF FaultNext, WriteFails, RecordFails, Crash, files
<1>2. tmp' \in [Paths -> {NoFile, Torn} \cup Renders] /\ offer' \in [Notes -> {NoFile} \cup Renders]
      /\ outcome' \in [Notes -> {"none", "skipped", "unchanged", "written", "conflict"}]
  BY <1>1 DEF TypeOK
<1>3. count' \in [exports : 0 .. MaxExports, touches : 0 .. MaxTouches, failures : 0 .. MaxFailures]
  BY <1>1, CountFits
<1> QED
  BY <1>1, <1>2, <1>3 DEF TypeOK

\* and through the user's edits.
LEMMA UserKeepsTypeOK ==
    ASSUME VInv, TypeOK, FilesAreThere, UserNext \/ \E n \in Notes : RecordChanges(n)
    PROVE  TypeOK'
<1>1. ASSUME NEW n \in Notes, KeepUser(n) PROVE TypeOK'
  <2>1. PathOf[n] \in Paths
    BY <1>1 DEF KeepUser, FilesAreThere
  <2>2. disk[PathOf[n]] \in Renders \cup Texts \cup {Torn}
    BY <1>1, <2>1 DEF KeepUser, TypeOK, Contents
  <2>3. index' \in [Paths -> {NoRow} \cup [origin : {"core", "user"},
                                          hash : Renders \cup Texts \cup {Torn}]]
    BY <1>1, <2>2 DEF KeepUser, TypeOK, Row
  <2>4. offer' \in [Notes -> {NoFile} \cup Renders]
    BY <1>1 DEF KeepUser, TypeOK
  <2> QED
    BY <1>1, <2>1, <2>3, <2>4 DEF KeepUser, TypeOK
<1>2. ASSUME NEW n \in Notes, UseOurs(n) PROVE TypeOK'
  <2>1. offer[n] \in Renders
    BY <1>2 DEF UseOurs, TypeOK
  <2>2. WriterIsTyped'
    BY <1>2, <2>1, NothingIsARest, WritingIsTyped DEF UseOurs
  <2>3. offer' \in [Notes -> {NoFile} \cup Renders]
    BY <1>2 DEF UseOurs, TypeOK
  <2> QED
    BY <1>2, <2>2, <2>3 DEF UseOurs, TypeOK, files, WriterIsTyped
<1>3. ASSUME NEW p \in Paths, UserWrites(p) \/ UserDeletes(p) PROVE TypeOK'
  <2>1. count.touches \in 0 .. MaxTouches
    BY DEF TypeOK
  <2>2. PICK content \in Contents : UserTouches(p, content)
    BY <1>3, <2>1 DEF UserWrites, UserDeletes, Contents, Texts
  <2>3. disk' \in [Paths -> Contents \cup {Torn}]
    BY <2>2 DEF UserTouches, TypeOK
  <2>4. count' \in [exports : 0 .. MaxExports, touches : 0 .. MaxTouches, failures : 0 .. MaxFailures]
    BY <2>2, CountFits DEF UserTouches
  <2> QED
    BY <1>3, <2>2, <2>3, <2>4 DEF UserTouches, TypeOK
<1>4. ASSUME NEW n \in Notes, RecordChanges(n) PROVE TypeOK'
  <2>1. version' \in Versions
    BY <1>4, VaultAssumption DEF RecordChanges, TypeOK, Versions
  <2> QED
    BY <1>4, <2>1 DEF RecordChanges, TypeOK, files
<1> QED
  BY <1>1, <1>2, <1>3, <1>4 DEF UserNext

\* What of it is about the notes at hand and those said something of.
VaultFits ==
    /\ FilesAreThere /\ NothingSaidAhead /\ WriteIsCurrent
    /\ IndexKnowsOwnFiles /\ ConflictHasCause /\ ReportedNoteIsCurrent

\* The next note, if any, is one nothing has been said of.
LEMMA OnwardSaysNothing ==
    ASSUME NEW rest \in Rests, writer' = Onward(rest),
           \A m \in Ahead(rest) : Untold(m)'
    PROVE  /\ writer'.at \in {"idle", "look"} /\ ~InWrite'
           /\ writer'.at = "look" => \A m \in Ahead(writer'.rest) : Untold(m)'
<1>1. CASE rest = <<>>
  BY <1>1 DEF Onward, Resting, InWrite
<1>2. CASE rest # <<>>
  BY <1>2 DEF Onward, InWrite
<1> QED
  BY <1>1, <1>2

\* The export looks, reads and decides about one note at a time.
LEMMA ExportKeepsVaultFits ==
    ASSUME VInv, TypeOK, VaultFits, ExportNext, TypeOK' PROVE VaultFits'
<1>1. UNCHANGED <<disk, tmp, index, version, kept, stranded>>
  BY DEF ExportNext, Begin, Skip, Look, ReadMissing, Read, files
<1>2. \A n : Rendered(n)' = Rendered(n)
  BY <1>1 DEF Rendered, RecordsOf
<1>3. IndexKnowsOwnFiles'
  BY <1>1 DEF VaultFits, IndexKnowsOwnFiles, AsRecorded
<1>4. CASE Begin
  <2>1. /\ writer'.at = "look" /\ writer'.rest = Order /\ ~InWrite'
        /\ \A n \in Notes : Untold(n)' /\ outcome'[n] = "none" /\ offer'[n] = NoFile
    BY <1>4 DEF Begin, InWrite, Untold
  <2>2. Ahead(Order) = Notes
    BY DEF Ahead, Notes
  <2> QED
    BY <1>3, <2>1, <2>2 DEF VaultFits, FilesAreThere, NothingSaidAhead, WriteIsCurrent,
           ConflictHasCause, ReportedNoteIsCurrent
<1>5. CASE ReadMissing
  <2>1. writer'.at = "idle" /\ ~InWrite' /\ UNCHANGED <<outcome, offer, touched>>
    BY <1>5 DEF ReadMissing, Resting, InWrite
  <2>2. FilesAreThere' /\ NothingSaidAhead' /\ WriteIsCurrent'
    BY <2>1 DEF VaultFits, FilesAreThere, NothingSaidAhead, WriteIsCurrent
  <2>3. ConflictHasCause' /\ ReportedNoteIsCurrent'
    BY <1>1, <1>2, <2>1 DEF VaultFits, ConflictHasCause, ReportedNoteIsCurrent, AsRecorded
  <2> QED
    BY <1>3, <2>2, <2>3 DEF VaultFits
<1>6. ASSUME Skip \/ Look \/ Read
      PROVE  /\ Current \in Notes /\ Tail(writer.rest) \in Rests /\ Untold(Current)
             /\ \A m \in Ahead(Tail(writer.rest)) : m # Current /\ Untold(m)
             /\ writer.rest \in Rests /\ writer.rest # <<>>
             /\ Rendered(Current) # NoFile
  <2>1. writer.at \in {"look", "read"}
    BY <1>6 DEF Skip, Look, Read
  <2>2. Rendered(Current) # NoFile
    BY DEF Rendered, NoFile
  <2> QED
    BY <2>1, <2>2, CurrentIsANote, RestShape DEF VaultFits, NothingSaidAhead
<1>7. CASE Skip
  <2>1. /\ outcome' = [outcome EXCEPT ![Current] = "skipped"] /\ UNCHANGED <<offer, touched>>
        /\ writer' = Onward(Tail(writer.rest))
    BY <1>7 DEF Skip
  <2>2. /\ \A n \in Notes : n # Current => outcome'[n] = outcome[n]
        /\ outcome'[Current] = "skipped" /\ offer[Current] = NoFile
    BY <1>6, <1>7, <2>1 DEF TypeOK, Untold
  <2>3. Ahead(Tail(writer.rest)) \subseteq Notes
    BY <1>6, <1>7, RestsAreOfNotes
  <2>4. \A m \in Ahead(Tail(writer.rest)) : Untold(m)'
    BY <1>6, <1>7, <2>1, <2>2, <2>3 DEF Untold
  <2>5. /\ writer'.at \in {"idle", "look"} /\ ~InWrite'
        /\ writer'.at = "look" => \A m \in Ahead(writer'.rest) : Untold(m)'
    BY <1>6, <1>7, <2>1, <2>4, OnwardSaysNothing
  <2>6. FilesAreThere' /\ NothingSaidAhead' /\ WriteIsCurrent'
    BY <2>1, <2>2, <2>5 DEF VaultFits, FilesAreThere, NothingSaidAhead, WriteIsCurrent
  <2>7. ConflictHasCause'
    BY <1>1, <2>1 DEF VaultFits, ConflictHasCause
  <2>8. ReportedNoteIsCurrent'
    BY <1>1, <1>2, <2>1, <2>2 DEF VaultFits, ReportedNoteIsCurrent
  <2> QED
    BY <1>3, <2>6, <2>7, <2>8 DEF VaultFits
<1>8. CASE Look
  <2>1. touched' = touched \ {Here} /\ UNCHANGED <<offer, outcome>> /\ writer.at = "look"
        /\ Here # NoFolder /\ Here \in Paths
    BY <1>6, <1>8 DEF Look, Here, Paths
  <2>2. \A n \in Notes : Alone(n) /\ ~Untold(n) => PathOf[n] # Here
    BY <1>6, <1>8 DEF Alone, Here
  <2>3. ConflictHasCause'
    BY <1>1, <2>1, <2>2 DEF VaultFits, ConflictHasCause, Untold
  <2>4. ReportedNoteIsCurrent'
    BY <1>1, <1>2, <2>1, <2>2 DEF VaultFits, ReportedNoteIsCurrent, Untold
  <2>5. CASE disk[Here] = NoFile
    <3>1. writer' = Writing("export", Tail(writer.rest), Current, Rendered(Current))
      BY <1>8, <2>5 DEF Look
    <3>2. /\ writer'.at = "create" /\ writer'.call = "export" /\ writer'.note = Current
          /\ writer'.data = Rendered(Current) /\ writer'.rest = Tail(writer.rest)
          /\ Here' = Here /\ InWrite'
      BY <3>1, WriteBegins DEF Writing, Here
    <3>3. \A m \in Ahead(writer'.rest) : m # writer'.note /\ Untold(m)'
      BY <1>6, <1>8, <2>1, <3>2 DEF Untold
    <3>4. NothingSaidAhead'
      BY <1>6, <1>8, <2>1, <3>2, <3>3 DEF VaultFits, NothingSaidAhead, Untold
    <3>5. FilesAreThere' /\ WriteIsCurrent'
      BY <1>2, <2>1, <3>2 DEF VaultFits, FilesAreThere, WriteIsCurrent
    <3> QED
      BY <1>3, <2>3, <2>4, <3>4, <3>5 DEF VaultFits
  <2>6. CASE disk[Here] # NoFile
    <3>1. writer' = [writer EXCEPT !.at = "read"]
      BY <1>8, <2>6 DEF Look
    <3>2. writer'.at = "read" /\ writer'.rest = writer.rest
      BY <2>1, <3>1 DEF VInv, WriterIs, InWrite
    <3>3. Here' = Here /\ ~InWrite'
      BY <2>1, <3>2 DEF Here, Current, InWrite
    <3>4. FilesAreThere' /\ NothingSaidAhead' /\ WriteIsCurrent'
      BY <2>1, <3>2, <3>3 DEF VaultFits, FilesAreThere, NothingSaidAhead, WriteIsCurrent, Untold
    <3> QED
      BY <1>3, <2>3, <2>4, <3>4 DEF VaultFits
  <2> QED
    BY <2>5, <2>6
<1>9. CASE Read
  <2>1. touched' = touched \ {Here} /\ writer.at = "read" /\ Here \in Paths /\ disk[Here] # NoFile
    BY <1>9 DEF Read, VaultFits, FilesAreThere
  <2>2. \A n \in Notes : Alone(n) /\ n # Current => PathOf[n] # Here
    BY <1>6, <1>9 DEF Alone, Here
  <2>3. CASE Regenerates(Current)
    <3>1. writer' = Writing("export", Tail(writer.rest), Current, Rendered(Current))
          /\ UNCHANGED <<offer, outcome>>
      BY <1>9, <2>3 DEF Read
    <3>2. /\ writer'.at = "create" /\ writer'.call = "export" /\ writer'.note = Current
          /\ writer'.data = Rendered(Current) /\ writer'.rest = Tail(writer.rest)
          /\ Here' = Here /\ InWrite'
      BY <3>1, WriteBegins DEF Writing, Here
    <3>3. \A m \in Ahead(writer'.rest) : m # writer'.note /\ Untold(m)'
      BY <1>6, <1>9, <3>1, <3>2 DEF Untold
    <3>4. NothingSaidAhead'
      BY <1>6, <1>9, <3>1, <3>2, <3>3 DEF VaultFits, NothingSaidAhead, Untold
    <3>5. FilesAreThere' /\ WriteIsCurrent'
      BY <1>2, <2>1, <3>1, <3>2 DEF VaultFits, FilesAreThere, WriteIsCurrent
    <3>6. ConflictHasCause'
      BY <1>1, <1>6, <1>9, <2>1, <2>2, <3>1 DEF VaultFits, ConflictHasCause, Untold
    <3>7. ReportedNoteIsCurrent'
      BY <1>1, <1>2, <1>6, <1>9, <2>1, <2>2, <3>1 DEF VaultFits, ReportedNoteIsCurrent, Untold
    <3> QED
      BY <1>3, <3>4, <3>5, <3>6, <3>7 DEF VaultFits
  <2>4. CASE ~ Regenerates(Current)
    <3> DEFINE what == IF UpToDate(Current) THEN "unchanged" ELSE "conflict"
    <3>1. writer' = Onward(Tail(writer.rest)) /\ Says(Current, what)
      BY <1>9, <2>4 DEF Read
    <3>2. /\ \A n \in Notes : n # Current => outcome'[n] = outcome[n] /\ offer'[n] = offer[n]
          /\ outcome'[Current] = what
          /\ offer'[Current] # NoFile => what = "conflict"
      BY <1>6, <1>9, <3>1 DEF TypeOK, Untold, Says
    <3>3. Ahead(Tail(writer.rest)) \subseteq Notes
      BY <1>6, <1>9, RestsAreOfNotes
    <3>4. \A m \in Ahead(Tail(writer.rest)) : Untold(m)'
      BY <1>6, <1>9, <3>2, <3>3 DEF Untold
    <3>5. /\ writer'.at \in {"idle", "look"} /\ ~InWrite'
          /\ writer'.at = "look" => \A m \in Ahead(writer'.rest) : Untold(m)'
      BY <1>6, <1>9, <3>1, <3>4, OnwardSaysNothing
    <3>6. what \in {"unchanged", "conflict"} /\ (what = "unchanged" <=> UpToDate(Current))
      OBVIOUS
    <3> HIDE DEF what
    <3>7. FilesAreThere'
      BY <2>1, <3>2, <3>5, <3>6 DEF VaultFits, FilesAreThere, Here
    <3>8. NothingSaidAhead' /\ WriteIsCurrent'
      BY <3>2, <3>5, <3>6 DEF VaultFits, NothingSaidAhead, WriteIsCurrent
    <3>9. ASSUME what = "conflict"
          PROVE  \/ disk[Here].by = "user" \/ Here \in stranded
                 \/ index[Here] # NoRow /\ index[Here].origin = "user"
      <4>1. CASE AsRecorded(Here)
        <5>1. Replaces(Current) /\ index[Here].origin # "core" /\ index[Here] # NoRow
          BY <2>4, <3>6, <3>9, <4>1 DEF Replaces, Regenerates, UpToDate, AsRecorded, Here
        <5>2. index[Here].origin \in {"core", "user"}
          BY <2>1, <5>1 DEF TypeOK
        <5> QED
          BY <5>1, <5>2
      <4>2. CASE ~AsRecorded(Here)
        <5>1. disk[Here].by = "core" => Here \in stranded
          BY <2>1, <4>2 DEF VaultFits, IndexKnowsOwnFiles
        <5>2. disk[Here] \in Contents
          BY <2>1 DEF TypeOK, VInv, NoTornNote
        <5>3. disk[Here].by \in {"core", "user"}
          BY <2>1, <5>2 DEF Contents, Texts, UserText, Renders
        <5> QED
          BY <5>1, <5>3
      <4> QED
        BY <4>1, <4>2
    <3>10. ConflictHasCause'
      BY <1>1, <1>6, <1>9, <2>1, <2>2, <3>2, <3>9 DEF VaultFits, ConflictHasCause, Here
    <3>11. ReportedNoteIsCurrent'
      <4>1. ASSUME what = "unchanged" PROVE disk[Here] = Rendered(Current)
        BY <3>6, <4>1 DEF UpToDate, Here
      <4>2. what = "unchanged" \/ what = "conflict"
        BY <3>6
      <4> QED
        BY <1>1, <1>2, <2>1, <2>2, <3>2, <4>1, <4>2 DEF VaultFits, ReportedNoteIsCurrent, Here
    <3> QED
      BY <1>3, <3>7, <3>8, <3>10, <3>11 DEF VaultFits
  <2> QED
    BY <2>3, <2>4
<1> QED
  BY <1>4, <1>5, <1>7, <1>8, <1>9 DEF ExportNext

\* A write puts the rendering into the file first and into the row after it.
LEMMA WriteKeepsVaultFits ==
    ASSUME VInv, TypeOK, VaultFits, WriteNext PROVE VaultFits'
<1>1. /\ InWrite /\ Here \in Paths /\ UNCHANGED <<version, offer>>
      /\ writer.note \in Notes /\ Here = PathOf[writer.note] /\ writer.rest \in Rests
      /\ \A m \in Ahead(writer.rest) : m # writer.note /\ Untold(m)
      /\ offer[writer.note] = NoFile /\ outcome[writer.note] \in {"none", "conflict"}
      /\ writer.call \in {"export", "resolve"}
  <2>1. InWrite /\ UNCHANGED <<version, offer>>
    BY DEF WriteNext, Create, Fill, Rename, Record, InWrite
  <2> QED
    BY <2>1, CurrentIsANote DEF VaultFits, FilesAreThere, NothingSaidAhead, Here
<1>2. \A n : Rendered(n)' = Rendered(n)
  BY <1>1 DEF Rendered, RecordsOf
<1>3. \A n \in Notes : Alone(n) /\ n # writer.note => PathOf[n] # Here
  BY <1>1 DEF Alone
<1>4. disk \in [Paths -> Contents \cup {Torn}] /\ index = [p \in Paths |-> index[p]]
  BY DEF TypeOK, VInv, MapsOfFiles
<1>5. ASSUME NEW next \in {"fill", "rename", "record"}, writer' = [writer EXCEPT !.at = next],
             outcome' = outcome
      PROVE  /\ writer'.at = next /\ writer'.note = writer.note /\ writer'.data = writer.data
             /\ writer'.call = writer.call
             /\ InWrite' /\ Here' = Here /\ FilesAreThere' /\ NothingSaidAhead'
             /\ (InWrite /\ writer.call = "export" => writer.data = Rendered(writer.note))'
  <2>1. /\ writer'.at = next /\ writer'.call = writer.call /\ writer'.note = writer.note
        /\ writer'.data = writer.data /\ writer'.rest = writer.rest
        /\ InWrite' /\ Here' = Here
    BY <1>1, <1>5, WriteGoesOn
  <2>2. FilesAreThere' /\ NothingSaidAhead'
    BY <1>1, <1>5, <2>1 DEF VaultFits, FilesAreThere, NothingSaidAhead, Untold
  <2>3. (InWrite /\ writer.call = "export" => writer.data = Rendered(writer.note))'
    BY <1>1, <2>1 DEF VaultFits, WriteIsCurrent, Rendered, RecordsOf
  <2> QED
    BY <2>1, <2>2, <2>3
<1>6. CASE Create \/ Fill
  <2>1. /\ UNCHANGED <<disk, index, outcome, kept, touched, stranded>>
        /\ \E next \in {"fill", "rename"} : writer' = [writer EXCEPT !.at = next]
    BY <1>6 DEF Create, Fill
  <2>2. FilesAreThere' /\ NothingSaidAhead' /\ WriteIsCurrent'
    BY <1>5, <2>1 DEF WriteIsCurrent
  <2>3. IndexKnowsOwnFiles' /\ ConflictHasCause' /\ ReportedNoteIsCurrent'
    BY <1>1, <1>2, <2>1 DEF VaultFits, IndexKnowsOwnFiles, AsRecorded, ConflictHasCause,
           ReportedNoteIsCurrent
  <2> QED
    BY <2>2, <2>3 DEF VaultFits
<1>7. CASE Rename
  <2>1. /\ writer' = [writer EXCEPT !.at = "record"] /\ UNCHANGED <<index, outcome>>
        /\ disk' = [disk EXCEPT ![Here] = tmp[Here]] /\ tmp[Here] = writer.data
        /\ stranded' = stranded \cup {Here} /\ touched' = touched \ {Here}
        /\ writer'.at = "record"
    BY <1>5, <1>1, <1>7 DEF Rename, VInv, WriteIsClear
  <2>2. disk'[Here] = writer.data /\ \A p \in Paths : p # Here => disk'[p] = disk[p]
    BY <1>1, <1>4, <2>1
  <2>3. /\ writer'.data = writer.data /\ writer'.note = writer.note /\ Here' = Here
        /\ FilesAreThere' /\ NothingSaidAhead'
    BY <1>5, <2>1
  <2>4. WriteIsCurrent'
    BY <1>5, <2>1, <2>2, <2>3 DEF WriteIsCurrent
  <2>5. IndexKnowsOwnFiles'
    BY <2>1, <2>2 DEF VaultFits, IndexKnowsOwnFiles, AsRecorded
  <2>6. ConflictHasCause'
    <3> SUFFICES ASSUME NEW n \in Notes, offer[n] # NoFile, Alone(n), PathOf[n] # Here
                 PROVE  LET p == PathOf[n] IN
                          \/ disk'[p].by = "user" \/ p \in touched' \/ p \in stranded'
                          \/ index'[p] # NoRow /\ index'[p].origin = "user"
      BY <1>1, <2>1 DEF ConflictHasCause
    <3>1. PathOf[n] \in Paths
      BY DEF VaultFits, FilesAreThere
    <3> QED
      BY <2>1, <2>2, <3>1 DEF VaultFits, ConflictHasCause
  <2>7. ReportedNoteIsCurrent'
    <3> SUFFICES ASSUME NEW n \in Notes, outcome[n] \in {"written", "unchanged"}, Alone(n),
                        PathOf[n] \notin touched'
                 PROVE  disk'[PathOf[n]] = Rendered(n)
      BY <1>2, <2>1 DEF ReportedNoteIsCurrent
    <3>1. n # writer.note /\ PathOf[n] # Here /\ PathOf[n] \in Paths
      BY <1>1, <1>3 DEF VaultFits, FilesAreThere
    <3> QED
      BY <2>1, <2>2, <3>1 DEF VaultFits, ReportedNoteIsCurrent
  <2> QED
    BY <2>3, <2>4, <2>5, <2>6, <2>7 DEF VaultFits
<1>8. CASE Record
  <2>1. /\ writer.at = "record" /\ UNCHANGED <<disk, touched>>
        /\ index' = [index EXCEPT ![Here] = Row(writer.data, "core")]
        /\ stranded' = stranded \ {Here}
    BY <1>8 DEF Record, RowAfterWrite
  <2>2. index'[Here] = Row(writer.data, "core") /\ \A p \in Paths : p # Here => index'[p] = index[p]
    BY <1>1, <1>4, <2>1
  <2>3. /\ \A n \in Notes : n # writer.note => outcome'[n] = outcome[n]
        /\ writer.call = "export" => outcome'[writer.note] = "written"
        /\ writer.call = "resolve" => outcome'[writer.note] = outcome[writer.note]
    BY <1>1, <1>8 DEF Record, TypeOK
  <2>4. \A m \in Ahead(writer.rest) : Untold(m)'
    BY <1>1, <2>3, RestsAreOfNotes DEF Untold
  <2>5. /\ writer'.at \in {"idle", "look"} /\ ~InWrite'
        /\ writer'.at = "look" => \A m \in Ahead(writer'.rest) : Untold(m)'
    <3>1. CASE writer.call = "export"
      BY <1>1, <1>8, <2>4, <3>1, OnwardSaysNothing DEF Record
    <3>2. CASE writer.call # "export"
      BY <1>8, <3>2 DEF Record, Resting, InWrite
    <3> QED
      BY <3>1, <3>2
  <2>6. FilesAreThere'
    BY <1>1, <2>3, <2>5 DEF VaultFits, FilesAreThere
  <2>7. NothingSaidAhead' /\ WriteIsCurrent'
    BY <1>1, <2>3, <2>5 DEF VaultFits, NothingSaidAhead, WriteIsCurrent
  <2>8. IndexKnowsOwnFiles'
    <3>1. disk[Here].by = "core" => disk[Here] = writer.data
      BY <2>1 DEF VaultFits, WriteIsCurrent
    <3> QED
      BY <2>1, <2>2, <3>1 DEF VaultFits, IndexKnowsOwnFiles, AsRecorded, Row, NoRow
  <2>9. ConflictHasCause'
    <3> SUFFICES ASSUME NEW n \in Notes, offer[n] # NoFile, Alone(n)
                 PROVE  LET p == PathOf[n] IN
                          \/ disk'[p].by = "user" \/ p \in touched' \/ p \in stranded'
                          \/ index'[p] # NoRow /\ index'[p].origin = "user"
      BY <1>1 DEF ConflictHasCause
    <3>1. PathOf[n] \in Paths /\ PathOf[n] # Here
      BY <1>1, <1>3 DEF VaultFits, FilesAreThere
    <3> QED
      BY <2>1, <2>2, <3>1 DEF VaultFits, ConflictHasCause
  <2>10. ReportedNoteIsCurrent'
    <3> SUFFICES ASSUME NEW n \in Notes, outcome'[n] \in {"written", "unchanged"}, Alone(n),
                        PathOf[n] \notin touched
                 PROVE  disk[PathOf[n]] = Rendered(n)
      BY <1>2, <2>1 DEF ReportedNoteIsCurrent
    <3>1. CASE n # writer.note \/ writer.call = "resolve"
      BY <1>1, <2>3, <3>1 DEF VaultFits, ReportedNoteIsCurrent
    <3>2. CASE n = writer.note /\ writer.call = "export"
      BY <1>1, <2>1, <3>2 DEF VaultFits, WriteIsCurrent
    <3> QED
      BY <1>1, <3>1, <3>2
  <2> QED
    BY <2>6, <2>7, <2>8, <2>9, <2>10 DEF VaultFits
<1> QED
  BY <1>6, <1>7, <1>8 DEF WriteNext

\* A failure between two steps leaves what the steps before it left.
LEMMA FaultKeepsVaultFits == ASSUME TypeOK, VaultFits, FaultNext PROVE VaultFits'
<1>1. /\ writer'.at = "idle" /\ ~InWrite' /\ UNCHANGED <<disk, index, version, kept, touched, stranded>>
      /\ \/ UNCHANGED <<offer, outcome>>
         \/ offer' = [n \in Notes |-> NoFile] /\ outcome' = [n \in Notes |-> "none"]
  BY DEF FaultNext, WriteFails, RecordFails, Crash, files, Resting, InWrite
<1>2. \A n : Rendered(n)' = Rendered(n)
  BY <1>1 DEF Rendered, RecordsOf
<1>3. FilesAreThere' /\ NothingSaidAhead' /\ WriteIsCurrent'
  BY <1>1 DEF VaultFits, FilesAreThere, NothingSaidAhead, WriteIsCurrent
<1>4. IndexKnowsOwnFiles' /\ ConflictHasCause' /\ ReportedNoteIsCurrent'
  BY <1>1, <1>2 DEF VaultFits, IndexKnowsOwnFiles, AsRecorded, ConflictHasCause, ReportedNoteIsCurrent
<1> QED
  BY <1>3, <1>4 DEF VaultFits

\* The user and the records change around the export, never what it says.
LEMMA UserKeepsVaultFits ==
    ASSUME VInv, TypeOK, VaultFits, UserNext \/ \E n \in Notes : RecordChanges(n)
    PROVE  VaultFits'
<1>1. ASSUME NEW n \in Notes, KeepUser(n) PROVE VaultFits'
  <2>1. /\ UNCHANGED <<disk, version, writer, outcome, touched>>
        /\ index' = [index EXCEPT ![PathOf[n]] = Row(disk[PathOf[n]], "user")]
        /\ offer' = [offer EXCEPT ![n] = NoFile] /\ stranded' = stranded \ {PathOf[n]}
        /\ writer.at = "idle" /\ ~InWrite /\ PathOf[n] \in Paths
    BY <1>1 DEF KeepUser, Resting, InWrite, VaultFits, FilesAreThere
  <2>2. /\ index'[PathOf[n]] = Row(disk[PathOf[n]], "user")
        /\ \A p \in Paths : p # PathOf[n] => index'[p] = index[p]
        /\ \A m \in Notes : offer'[m] # NoFile => offer[m] # NoFile
    BY <2>1 DEF TypeOK
  <2>3. ~InWrite' /\ \A m : Rendered(m)' = Rendered(m)
    BY <2>1 DEF InWrite, Rendered, RecordsOf
  <2>4. FilesAreThere' /\ NothingSaidAhead' /\ WriteIsCurrent'
    BY <2>1, <2>2, <2>3 DEF VaultFits, FilesAreThere, NothingSaidAhead, WriteIsCurrent
  <2>5. IndexKnowsOwnFiles' /\ ReportedNoteIsCurrent'
    BY <2>1, <2>2, <2>3 DEF VaultFits, IndexKnowsOwnFiles, AsRecorded, Row, NoRow,
                            ReportedNoteIsCurrent
  <2>6. ConflictHasCause'
    <3> SUFFICES ASSUME NEW m \in Notes, offer'[m] # NoFile, Alone(m)
                 PROVE  LET p == PathOf[m] IN
                          \/ disk'[p].by = "user" \/ p \in touched' \/ p \in stranded'
                          \/ index'[p] # NoRow /\ index'[p].origin = "user"
      BY DEF ConflictHasCause
    <3>1. PathOf[m] \in Paths
      BY <2>2 DEF VaultFits, FilesAreThere
    <3> QED
      BY <2>1, <2>2, <3>1 DEF VaultFits, ConflictHasCause, Row, NoRow
  <2> QED
    BY <2>4, <2>5, <2>6 DEF VaultFits
<1>2. ASSUME NEW n \in Notes, UseOurs(n) PROVE VaultFits'
  <2>1. /\ UNCHANGED <<disk, index, version, outcome, touched, stranded>>
        /\ writer' = Writing("resolve", <<>>, n, offer[n]) /\ offer[n] # NoFile
        /\ offer' = [offer EXCEPT ![n] = NoFile] /\ PathOf[n] \in Paths
    BY <1>2 DEF UseOurs, VaultFits, FilesAreThere, files
  <2>2. /\ writer'.at = "create" /\ writer'.call = "resolve" /\ writer'.note = n
        /\ writer'.rest = <<>> /\ Here' = PathOf[n] /\ InWrite'
    BY <2>1, WriteBegins DEF Writing
  <2>3. /\ \A m \in Notes : offer'[m] # NoFile => offer[m] # NoFile
        /\ offer'[n] = NoFile /\ Ahead(<<>>) = {} /\ outcome[n] \in {"none", "conflict"}
    <3>1. Ahead(<<>>) = {}
      BY DEF Ahead
    <3> QED
      BY <2>1, <3>1 DEF TypeOK, VaultFits, NothingSaidAhead
  <2>4. FilesAreThere' /\ NothingSaidAhead' /\ WriteIsCurrent'
    BY <2>1, <2>2, <2>3 DEF VaultFits, FilesAreThere, NothingSaidAhead, WriteIsCurrent
  <2>5. \A m : Rendered(m)' = Rendered(m)
    BY <2>1 DEF Rendered, RecordsOf
  <2>6. IndexKnowsOwnFiles' /\ ReportedNoteIsCurrent' /\ ConflictHasCause'
    BY <2>1, <2>3, <2>5 DEF VaultFits, IndexKnowsOwnFiles, AsRecorded, ReportedNoteIsCurrent,
           ConflictHasCause
  <2> QED
    BY <2>4, <2>6 DEF VaultFits
<1>3. ASSUME NEW q \in Paths, UserWrites(q) \/ UserDeletes(q) PROVE VaultFits'
  <2>1. PICK content \in {NoFile, UserText(count.touches)} : UserTouches(q, content)
    BY <1>3 DEF UserWrites, UserDeletes
  <2>2. /\ content.by # "core" /\ touched' = touched \cup {q}
        /\ disk'[q] = content /\ \A p \in Paths : p # q => disk'[p] = disk[p]
        /\ UNCHANGED <<index, version, writer, outcome, offer, stranded>>
    BY <2>1 DEF UserTouches, TypeOK, NoFile, UserText
  <2>3. Here' = Here /\ (InWrite' <=> InWrite) /\ \A m : Rendered(m)' = Rendered(m)
    BY <2>2 DEF Here, Current, InWrite, Rendered, RecordsOf
  <2>4. FilesAreThere' /\ NothingSaidAhead'
    BY <2>2, <2>3 DEF VaultFits, FilesAreThere, NothingSaidAhead, Untold
  <2>5. WriteIsCurrent'
    <3>1. writer.at = "record" => InWrite /\ Here \in Paths
      BY DEF InWrite, VaultFits, FilesAreThere
    <3> QED
      BY <2>2, <2>3, <3>1 DEF VaultFits, WriteIsCurrent
  <2>6. IndexKnowsOwnFiles'
    BY <2>2 DEF VaultFits, IndexKnowsOwnFiles, AsRecorded
  <2>7. ConflictHasCause' /\ ReportedNoteIsCurrent'
    <3>1. \A n \in Notes : offer[n] # NoFile \/ outcome[n] \in {"written", "unchanged"}
                              => PathOf[n] \in Paths
      BY DEF VaultFits, FilesAreThere
    <3> QED
      BY <2>2, <2>3, <3>1 DEF VaultFits, ConflictHasCause, ReportedNoteIsCurrent
  <2> QED
    BY <2>4, <2>5, <2>6, <2>7 DEF VaultFits
<1>4. ASSUME NEW n \in Notes, RecordChanges(n) PROVE VaultFits'
  <2>1. /\ outcome' = [m \in Notes |-> "none"] /\ writer.at = "idle" /\ writer' = writer
        /\ UNCHANGED <<disk, index, offer, touched, stranded>> /\ ~InWrite'
    BY <1>4 DEF RecordChanges, Resting, InWrite, files
  <2>2. FilesAreThere' /\ NothingSaidAhead' /\ WriteIsCurrent'
    BY <2>1 DEF VaultFits, FilesAreThere, NothingSaidAhead, WriteIsCurrent
  <2>3. IndexKnowsOwnFiles' /\ ConflictHasCause' /\ ReportedNoteIsCurrent'
    BY <2>1 DEF VaultFits, IndexKnowsOwnFiles, AsRecorded, ConflictHasCause, ReportedNoteIsCurrent
  <2> QED
    BY <2>2, <2>3 DEF VaultFits
<1> QED
  BY <1>1, <1>2, <1>3, <1>4 DEF UserNext

\* The inductive invariant: the one above, the types and the rest.
VaultIInv == VInv /\ TypeOK /\ VaultFits

\* It holds in every state.
LEMMA VaultIInvHolds == Spec => []VaultIInv
<1>1. Init => VaultIInv
  <2> SUFFICES ASSUME Init PROVE VaultIInv
    OBVIOUS
  <2>1. VaultFits
    BY DEF Init, VaultFits, FilesAreThere, NothingSaidAhead, WriteIsCurrent, IndexKnowsOwnFiles,
           ConflictHasCause, ReportedNoteIsCurrent, InWrite, Resting, NoFile
  <2> QED
    BY <2>1, InitHoldsVInv, InitIsTyped DEF VaultIInv
<1>2. VaultIInv /\ [Next]_vvars => VaultIInv'
  <2> SUFFICES ASSUME VaultIInv, [Next]_vvars PROVE VaultIInv'
    OBVIOUS
  <2> USE DEF VaultIInv
  <2>1. VInv'
    BY VInvStep
  <2>2. VaultFits => FilesAreThere
    BY DEF VaultFits
  <2>3. CASE ExportNext
    <3>1. TypeOK'
      BY <2>3, ExportKeepsTypeOK
    <3> QED
      BY <2>1, <2>3, <3>1, ExportKeepsVaultFits
  <2>4. CASE WriteNext
    BY <2>1, <2>2, <2>4, WriteKeepsTypeOK, WriteKeepsVaultFits
  <2>5. CASE FaultNext
    BY <2>1, <2>5, FaultKeepsTypeOK, FaultKeepsVaultFits
  <2>6. CASE UserNext \/ \E n \in Notes : RecordChanges(n)
    BY <2>1, <2>2, <2>6, UserKeepsTypeOK, UserKeepsVaultFits
  <2>7. CASE UNCHANGED vvars
    <3>1. UNCHANGED <<disk, tmp, index, version, writer, outcome, offer, kept, touched, stranded, count>>
      BY <2>7 DEF vvars, files
    <3>2. TypeOK'
      BY <3>1 DEF TypeOK
    <3>3. VaultFits'
      BY <3>1 DEF VaultFits, FilesAreThere, NothingSaidAhead, WriteIsCurrent, IndexKnowsOwnFiles,
             ConflictHasCause, ReportedNoteIsCurrent, InWrite, Here, Current, Rendered, RecordsOf,
             Untold, AsRecorded
    <3> QED
      BY <2>1, <3>2, <3>3
  <2> QED
    BY <2>3, <2>4, <2>5, <2>6, <2>7 DEF Next
<1> QED
  BY <1>1, <1>2, PTL DEF Spec

\* Vault and index agree through crashes, failures and the user's edits: the index
\* knows what the app last put in a file, or the file was left unrecorded by a
\* call that failed, and a merge proposal has a cause (write_rendered, resolve).
THEOREM VaultInvHolds == Spec => []VaultInv
<1>1. VaultIInv => VaultInv
  BY DEF VaultIInv, VaultFits, VaultInv, VInv
<1> QED
  BY <1>1, VaultIInvHolds, PTL

\* A note reported as written or unchanged is rendered from the records as they
\* are, until the user touches it (export_project, write_rendered).
THEOREM ReportedNoteIsCurrentHolds == Spec => []ReportedNoteIsCurrent
<1>1. VaultIInv => ReportedNoteIsCurrent
  BY DEF VaultIInv, VaultFits
<1> QED
  BY <1>1, VaultIInvHolds, PTL
=============================================================================
