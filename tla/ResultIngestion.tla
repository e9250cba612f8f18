-------------------------- MODULE ResultIngestion --------------------------
(***************************************************************************)
(* The ingestion of a run's results: one batch of records, one transaction *)
(* over seven tables, and the content files published beside it.  The      *)
(* database's mutex is held from the first check to the last compensation, *)
(* so batches do not interleave; but the files are no part of the          *)
(* transaction, the process may die between any two steps, and a file may  *)
(* be damaged from outside at any moment.                                  *)
(*                                                                         *)
(* A row is what its identity and its references are: texts, scores and    *)
(* timestamps are left out, and of the strict parse what it says of kinds, *)
(* claim statuses and anchors.  A batch whose envelope names another job,  *)
(* run or project changes nothing and is left out.                         *)
(* Worker ids have no project dimension: the same id may come from runs of *)
(* two projects.  A content's file is named by source, fingerprint and     *)
(* format; temporary files have unique names nothing refers to.            *)
(***************************************************************************)
EXTENDS Integers, Sequences

CONSTANTS
    Runs,        \* the runs whose jobs deliver results
    ProjectOf,   \* the project of a run
    Batch,       \* the records of a run's results, the same at every delivery
    Legacy,      \* the tables before the first ingestion: rows of older builds
    FirstId,     \* what new_id() returns first
    Empty,       \* the fingerprint of empty content
    MaxIngests,  \* bound: batches ever begun
    MaxDamages,  \* bound: content files damaged or deleted from outside
    MaxFailures  \* bound: failing calls and crashes

ASSUME IngestionAssumption ==
    /\ DOMAIN ProjectOf = Runs /\ DOMAIN Batch = Runs
    /\ \A r \in Runs : /\ ProjectOf[r] # "raw"
                       /\ Batch[r] \in Seq({Batch[r][i] : i \in DOMAIN Batch[r]})
    /\ {FirstId, MaxIngests, MaxDamages, MaxFailures} \subseteq Nat

VARIABLES
    db,       \* the committed tables
    file,     \* the content files, intact or not
    job,      \* the ingestion in progress
    nextId,   \* what new_id() returns next
    damaged,  \* ghost: files damaged from outside and not repaired since
    litter,   \* ghost: files in place when a crash cut a batch short
    count     \* how often what is bounded has happened

ivars == <<db, file, job, nextId, damaged, litter, count>>

Kinds    == {"source", "content", "node", "relation", "claim", "evidence"}
Reports  == {"extraction", "dropped", "validation-report", "note", "incremental-report"}
Statuses == {"draft", "needs_review", "confirmed", "superseded"}

\* has_anchor: a quote, a section, a fragment or a position.
Anchored(rec) == rec.anchor # "none"

\* The strict parse of a record and its closed vocabularies.
WellFormed(rec) ==
    \/ rec.kind \in Reports
    \/ /\ rec.kind \in Kinds
       /\ rec.kind = "claim" => rec.status \in Statuses
       /\ rec.kind = "evidence" => Anchored(rec)

\* The records of a batch that are written: reports stay with the worker.
Parsed(batch) ==
    LET parsed[i \in 0 .. Len(batch)] ==
            IF i = 0 THEN <<>>
            ELSE IF batch[i].kind \in Kinds THEN Append(parsed[i - 1], batch[i])
            ELSE parsed[i - 1]
    IN  parsed[Len(batch)]
Records(r) == Parsed(Batch[r])

Raw(w) == <<"raw", w>>

\* Mutant: worker ids are taken as they are.
UnscopedId(p, w) == Raw(w)

\* scoped_id: a worker's id within a project.
ScopedId(p, w) == <<p, w>>

Has(table, key) == key \in DOMAIN table

\* A row put over the one the key had; and one that stays if it is there.
Put(table, key, row) ==
    [k \in DOMAIN table \cup {key} |-> IF k = key THEN row ELSE table[k]]
Keep(table, key, row) == IF Has(table, key) THEN table ELSE Put(table, key, row)
Drop(table, key) == [k \in DOMAIN table \ {key} |-> table[k]]

-----------------------------------------------------------------------------
(* What the tables refer to.                                               *)

Tables == {"source", "content", "node", "relation", "claim", "evidence", "link", "delivered"}

NoPath == <<>>

\* The file of a content, by its source and fingerprint; empty content has none.
\* Its name also has an extension for the content's type, but the worker gives
\* every content the same type.
FileOf(key) == IF key[2] = Empty THEN NoPath ELSE key

Referenced(tables, f) == \E k \in DOMAIN tables.content : tables.content[k] = f

SourcesOf(source, p) == {source[k] : k \in {k \in DOMAIN source : k[1] = p}}
NodesOf(node, p)     == {node[k].id : k \in {k \in DOMAIN node : k[1] = p}}
ClaimsOf(claim, p)   == {k \in DOMAIN claim : claim[k].project = p}

\* Every reference leads to a row, and to one of the same project; of the
\* subjects of older claims nothing is known.
Resolves(tables) ==
    /\ \A k \in DOMAIN tables.content : \E s \in DOMAIN tables.source : tables.source[s] = k[1]
    /\ \A k \in DOMAIN tables.node :
        /\ tables.node[k].sources \subseteq SourcesOf(tables.source, k[1])
        /\ tables.node[k].claims \subseteq ClaimsOf(tables.claim, k[1])
    /\ \A k \in DOMAIN tables.relation :
        {tables.relation[k].from, tables.relation[k].to}
            \subseteq NodesOf(tables.node, tables.relation[k].project)
    /\ \A k \in DOMAIN tables.claim \ DOMAIN Legacy.claim :
        tables.claim[k].subject \in NodesOf(tables.node, tables.claim[k].project)
    /\ \A k \in DOMAIN tables.evidence :
        tables.evidence[k].source \in SourcesOf(tables.source, tables.evidence[k].project)
    /\ \A l \in tables.link :
        /\ Has(tables.evidence, l[2])
        /\ l[1] \in ClaimsOf(tables.claim, tables.evidence[l[2]].project)

\* The id of a row is within its project, or as older builds wrote it.
Scoped(table) == \A k \in DOMAIN table : k[1] \in {"raw", table[k].project}

\* Older builds took worker ids as they were; what they wrote is in order.
ASSUME LegacyAssumption ==
    /\ DOMAIN Legacy = Tables /\ Legacy.delivered = {}
    /\ \A k \in DOMAIN Legacy.source : Legacy.source[k] \in 0 .. FirstId - 1
    /\ \A k \in DOMAIN Legacy.content : Legacy.content[k] = FileOf(k)
    /\ \A k \in DOMAIN Legacy.node :
        /\ Legacy.node[k].id = k \/ Legacy.node[k].id[1] = "raw"
        /\ k[1] # "raw"
        /\ \A m \in DOMAIN Legacy.node : Legacy.node[m].id = Legacy.node[k].id => m = k
    /\ Scoped(Legacy.relation) /\ Scoped(Legacy.claim) /\ Scoped(Legacy.evidence)
    /\ Resolves(Legacy)

-----------------------------------------------------------------------------

Resting == [at |-> "idle"]

Init ==
    /\ db = Legacy
    /\ file = [f \in {FileOf(k) : k \in DOMAIN Legacy.content} \ {NoPath} |-> "intact"]
    /\ job = Resting
    /\ nextId = FirstId
    /\ damaged = {} /\ litter = {}
    /\ count = [ingests |-> 0, damages |-> 0, failures |-> 0]

Count(what, bound) == count[what] < bound /\ count' = [count EXCEPT ![what] = @ + 1]

-----------------------------------------------------------------------------
(* What a record refers to, within the open transaction.                   *)

Project == ProjectOf[job.run]
Record  == Head(job.todo)
tx      == job.tx

IdsUpTo(batch, n, kind) ==
    {batch[i].id : i \in {i \in 1 .. n : batch[i].kind = kind}}
IdsIn(batch, kind) == IdsUpTo(batch, Len(batch), kind)

\* The worker ids of a kind the batch carries, before or after the record.
Carried(kind) == IdsIn(Records(job.run), kind)

\* Sources are known by the records of the batch written so far, and no others.
KnownSource(w) == Has(job.sources, w)

NodeId(w) == IF Has(tx.node, <<Project, w>>) THEN tx.node[<<Project, w>>].id
             ELSE ScopedId(Project, w)
KnownNode(w) == Has(tx.node, <<Project, w>>) \/ w \in Carried("node")

\* Mutant: whose row it is does not matter.
LegacyOfAnyone(w) == Has(tx.claim, Raw(w))

\* The row an older build wrote under the worker's own id, if it is the project's.
LegacyClaim(w) == Has(tx.claim, Raw(w)) /\ tx.claim[Raw(w)].project = Project

ClaimId(w) == IF ~ Has(tx.claim, ScopedId(Project, w)) /\ LegacyClaim(w)
              THEN Raw(w) ELSE ScopedId(Project, w)
KnownClaim(w) == Has(tx.claim, ClaimId(w)) \/ w \in Carried("claim")

\* The rows of the nodes are there when a relation is inserted (foreign keys).
NodeRow(id) == \E k \in DOMAIN tx.node : tx.node[k].id = id

\* An id is taken by another project's row.
Foreign(table, id) == Has(table, id) /\ table[id].project # Project

\* Every reference of a record resolves, and its row can be written.
ContentWritable(rec) == KnownSource(rec.src)

NodeWritable(rec) ==
    /\ \A w \in rec.srcs : KnownSource(w)
    /\ \A w \in rec.claims : KnownClaim(w)
    /\ Has(tx.node, <<Project, rec.id>>) \/ ~ NodeRow(ScopedId(Project, rec.id))

RelationWritable(rec) ==
    /\ KnownNode(rec.from) /\ KnownNode(rec.to)
    /\ NodeRow(NodeId(rec.from)) /\ NodeRow(NodeId(rec.to))
    /\ NodeId(rec.from) # NodeId(rec.to)
    /\ ~ Foreign(tx.relation, ScopedId(Project, rec.id))

ClaimWritable(rec) == KnownNode(rec.node) /\ ~ Foreign(tx.claim, ClaimId(rec.id))

EvidenceWritable(rec) ==
    /\ KnownSource(rec.src) /\ KnownClaim(rec.claim)
    /\ ~ Foreign(tx.evidence, ScopedId(Project, rec.id))

Writable(rec) ==
    CASE rec.kind = "source"   -> TRUE
      [] rec.kind = "content"  -> ContentWritable(rec)
      [] rec.kind = "node"     -> NodeWritable(rec)
      [] rec.kind = "relation" -> RelationWritable(rec)
      [] rec.kind = "claim"    -> ClaimWritable(rec)
      [] rec.kind = "evidence" -> EvidenceWritable(rec)

-----------------------------------------------------------------------------
(* The batch, record by record.                                            *)

\* The run exists and is bound to the job that delivered the envelope, and every
\* record is parsed before the first is written.
Begin(r) ==
    /\ job = Resting
    /\ \A i \in DOMAIN Batch[r] : WellFormed(Batch[r][i])
    /\ Count("ingests", MaxIngests)
    /\ job' = [at |-> "records", run |-> r, todo |-> Records(r), tx |-> db,
               sources |-> [w \in {} |-> 0], links |-> {}, published |-> {}]
    /\ UNCHANGED <<db, file, nextId, damaged, litter>>

Taking(kind) ==
    job.at = "records" /\ job.todo # <<>> /\ Record.kind = kind /\ Writable(Record)

\* The record is written: the tables, what the batch remembers, and on.
Wrote(tables, sources, links, published) ==
    job' = [at |-> "records", run |-> job.run, todo |-> Tail(job.todo), tx |-> tables,
            sources |-> sources, links |-> links, published |-> published]
Row(tables) == Wrote(tables, job.sources, job.links, job.published)

\* Mutant: no look for the row the address already has.
SourceIdAnew(url) == nextId

\* upsert_by_canonical_url: one row per project and address, whose id stays.
SourceId(url) == IF Has(tx.source, <<Project, url>>) THEN tx.source[<<Project, url>>]
                 ELSE nextId

WriteSource ==
    /\ Taking("source")
    /\ LET id == SourceId(Record.url) IN
        /\ Wrote([tx EXCEPT !.source = Put(@, <<Project, Record.url>>, id)],
                 Put(job.sources, Record.id, id), job.links, job.published)
        /\ nextId' = IF id = nextId THEN nextId + 1 ELSE nextId
    /\ UNCHANGED <<db, file, damaged, litter, count>>

NewNode(w) == [id |-> ScopedId(Project, w), sources |-> {}, claims |-> {}]

\* upsert_by_slug: the id stays, the lists of sources and claims are merged.
NodeAfter(w, sources, claims) ==
    LET old == IF Has(tx.node, <<Project, w>>) THEN tx.node[<<Project, w>>] ELSE NewNode(w)
    IN  [id |-> old.id, sources |-> old.sources \cup sources, claims |-> old.claims \cup claims]

WriteNode ==
    /\ Taking("node")
    /\ Row([tx EXCEPT !.node = Put(@, <<Project, Record.id>>,
            NodeAfter(Record.id, {job.sources[w] : w \in Record.srcs},
                                 {ClaimId(w) : w \in Record.claims}))])
    /\ UNCHANGED <<db, file, nextId, damaged, litter, count>>

NewRelation(rec) == [project |-> Project, from |-> NodeId(rec.from), to |-> NodeId(rec.to)]

WriteRelation ==
    /\ Taking("relation")
    /\ Row([tx EXCEPT !.relation =
                Keep(@, ScopedId(Project, Record.id), NewRelation(Record))])
    /\ UNCHANGED <<db, file, nextId, damaged, litter, count>>

NewClaim(rec) == [project |-> Project, subject |-> NodeId(rec.node), status |-> rec.status]

\* insert, or update_review_state of the row that is there.
ClaimAfter(id, rec) ==
    IF Has(tx.claim, id)
    THEN [project |-> tx.claim[id].project, subject |-> tx.claim[id].subject,
          status |-> rec.status]
    ELSE NewClaim(rec)

WriteClaim ==
    /\ Taking("claim")
    /\ LET id == ClaimId(Record.id) IN
        Row([tx EXCEPT !.claim = Put(@, id, ClaimAfter(id, Record))])
    /\ UNCHANGED <<db, file, nextId, damaged, litter, count>>

NewEvidence(rec) == [project |-> Project, source |-> job.sources[rec.src]]

\* The link to the claim waits for the end of the batch.
WriteEvidence ==
    /\ Taking("evidence")
    /\ LET id == ScopedId(Project, Record.id) IN
        Wrote([tx EXCEPT !.evidence = Keep(@, id, NewEvidence(Record))],
              job.sources, job.links \cup {<<ClaimId(Record.claim), id>>}, job.published)
    /\ UNCHANGED <<db, file, nextId, damaged, litter, count>>

-----------------------------------------------------------------------------
(* Content and its file.                                                   *)

Key  == <<job.sources[Record.src], Record.print>>
Path == FileOf(Key)

Intact(f) == Has(file, f) /\ file[f] = "intact"

WroteContent(published) ==
    Wrote([tx EXCEPT !.content = Put(@, Key, Path)], job.sources, job.links, published)

\* Nothing to publish: no bytes, or the file is there and hashes to its name.
WriteContentRow ==
    /\ Taking("content")
    /\ Path = NoPath \/ Intact(Path)
    /\ WroteContent(job.published)
    /\ UNCHANGED <<db, file, nextId, damaged, litter, count>>

\* The bytes go to a temporary file of a unique name.
WriteTemporary ==
    /\ Taking("content")
    /\ Path # NoPath /\ ~ Intact(Path)
    /\ job' = [job EXCEPT !.at = "publish"]
    /\ UNCHANGED <<db, file, nextId, damaged, litter, count>>

\* What is under the final name is removed before the rename.
RemoveStale ==
    /\ job.at = "publish" /\ Has(file, Path)
    /\ file' = Drop(file, Path)
    /\ UNCHANGED <<db, job, nextId, damaged, litter, count>>

\* Mutant: every file the batch has published goes with it.
CompensatesAll(f) == TRUE

\* Only a file no row refers to may be removed if the batch fails.
Compensates(f) == ~ Referenced(tx, f)

Publish ==
    /\ job.at = "publish" /\ ~ Has(file, Path)
    /\ file' = Put(file, Path, "intact")
    /\ WroteContent(IF Compensates(Path) THEN job.published \cup {Path} ELSE job.published)
    /\ damaged' = damaged \ {Path}
    /\ UNCHANGED <<db, nextId, litter, count>>

-----------------------------------------------------------------------------
(* The end of the batch.                                                   *)

\* Both ends of every link have their row.
LinksHold == \A l \in job.links : Has(tx.claim, l[1]) /\ Has(tx.evidence, l[2])

\* The links, the fact of the delivery and the records commit together.
Commit ==
    /\ job.at = "records" /\ job.todo = <<>> /\ LinksHold
    /\ db' = [tx EXCEPT !.link = @ \cup job.links, !.delivered = @ \cup {job.run}]
    /\ job' = Resting
    /\ UNCHANGED <<file, nextId, damaged, litter, count>>

\* Mutant: the transaction is open no more and the rows stay.
RollbackTooLate == db' = tx /\ job' = [job EXCEPT !.at = "rollback"]

\* The transaction is given up; the files remain to be removed.
Rollback == job' = [job EXCEPT !.at = "rollback"] /\ UNCHANGED db

\* A reference does not resolve, or a row is not to be had.
Reject ==
    /\ job.at = "records"
    /\ IF job.todo = <<>> THEN ~ LinksHold ELSE ~ Writable(Record)
    /\ Rollback
    /\ UNCHANGED <<file, nextId, damaged, litter, count>>

\* A statement, the commit or a call on the file system fails.
StepFails ==
    /\ job.at \in {"records", "publish"}
    /\ Count("failures", MaxFailures)
    /\ Rollback
    /\ UNCHANGED <<file, nextId, damaged, litter>>

\* The files the failed batch created are removed, one by one.
Compensate ==
    /\ job.at = "rollback"
    /\ \/ \E f \in job.published :
            /\ file' = Drop(file, f)
            /\ job' = [job EXCEPT !.published = @ \ {f}]
       \/ job.published = {} /\ job' = Resting /\ UNCHANGED file
    /\ UNCHANGED <<db, nextId, damaged, litter, count>>

\* A removal that fails is not reported.
CompensateFails ==
    /\ job.at = "rollback"
    /\ Count("failures", MaxFailures)
    /\ \E f \in job.published :
        /\ job' = [job EXCEPT !.published = @ \ {f}]
        /\ litter' = litter \cup {f}
    /\ UNCHANGED <<db, file, nextId, damaged>>

\* The process dies: the transaction is lost, the files stay.
Crash ==
    /\ job # Resting
    /\ Count("failures", MaxFailures)
    /\ job' = Resting
    /\ litter' = litter \cup job.published
    /\ UNCHANGED <<db, file, nextId, damaged>>

\* Something else damages or deletes a file.
Damage(f) ==
    /\ Count("damages", MaxDamages)
    /\ file' = Put(file, f, "damaged") \/ file' = Drop(file, f)
    /\ damaged' = damaged \cup {f}
    /\ UNCHANGED <<db, job, nextId, litter>>

-----------------------------------------------------------------------------

RecordNext  == WriteSource \/ WriteNode \/ WriteRelation \/ WriteClaim \/ WriteEvidence
ContentNext == WriteContentRow \/ WriteTemporary \/ RemoveStale \/ Publish
EndNext     == Commit \/ Reject \/ StepFails \/ Compensate \/ CompensateFails \/ Crash

Next == \/ \E r \in Runs : Begin(r)
        \/ RecordNext \/ ContentNext \/ EndNext
        \/ \E f \in DOMAIN file : Damage(f)

Spec == Init /\ [][Next]_ivars
-----------------------------------------------------------------------------
(* Properties.                                                             *)

TypeOK ==
    /\ DOMAIN db = Tables
    /\ db.delivered \subseteq Runs
    /\ \A f \in DOMAIN file : file[f] \in {"intact", "damaged"}
    /\ \/ job = Resting
       \/ /\ job.at \in {"records", "publish", "rollback"}
          /\ job.run \in Runs
          /\ job.at = "publish" => job.todo # <<>>
          /\ DOMAIN tx = Tables
    /\ nextId \in Nat
    /\ \A k \in DOMAIN db.source : db.source[k] \in 0 .. nextId - 1
    /\ count \in [ingests : 0 .. MaxIngests, damages : 0 .. MaxDamages,
                  failures : 0 .. MaxFailures]

\* The file of a committed content row is there and hashes to its name, through
\* failed batches, compensations, repairs and crashes; only what was damaged
\* from outside, and not seen since, is not (write_content_file, and the rule
\* that a referenced file is no candidate for compensation).
CommittedContentIsIntact ==
    \A k \in DOMAIN db.content :
        LET f == db.content[k] IN f # NoPath => Intact(f) \/ f \in damaged

\* Between batches every content file belongs to a row, but for what a crash or
\* a failing removal left: a rejected batch takes its files with it.
RejectedBatchLeavesNoFile ==
    job = Resting => \A f \in DOMAIN file : Referenced(db, f) \/ f \in litter

\* The rows the batch of a run stands for, by table and key.
ClaimKey(p, w) ==
    IF /\ ~ Has(Legacy.claim, <<p, w>>)
       /\ Has(Legacy.claim, Raw(w)) /\ Legacy.claim[Raw(w)].project = p
    THEN Raw(w) ELSE <<p, w>>

RowOf(p, rec) ==
    CASE rec.kind = "source" -> <<"source", <<p, rec.url>>>>
      [] rec.kind = "claim"  -> <<"claim", ClaimKey(p, rec.id)>>
      [] OTHER               -> <<rec.kind, <<p, rec.id>>>>

RowsOf(r) == {RowOf(ProjectOf[r], Records(r)[i]) :
              i \in {i \in DOMAIN Records(r) : Records(r)[i].kind # "content"}}

RowsIn(tables) == UNION {{<<t, k>> : k \in DOMAIN tables[t]} :
                         t \in {"source", "node", "relation", "claim", "evidence"}}

\* The tables hold what was there before and the records of the delivered runs,
\* all of them and nothing else: no crash, rejection or failing commit leaves a
\* part of a batch, or a delivery without its records.
AllOrNothing == RowsIn(db) = RowsIn(Legacy) \cup UNION {RowsOf(r) : r \in db.delivered}

\* A batch lands whole or not at all, in the tables and among the files.
BatchInv == TypeOK /\ AllOrNothing /\ RejectedBatchLeavesNoFile

\* Every committed reference leads to a row, and to one of the same project: the
\* chain from a node or claim to its sources is never cut and never crosses
\* projects, though worker ids repeat between them.
ReferencesResolve == Resolves(db)

\* Results delivered a second time add no row and no link, whatever was ingested
\* in between.
RedeliveryAddsNothing ==
    [][job # Resting /\ db' # db /\ job.run \in db.delivered =>
        /\ RowsIn(db') = RowsIn(db) /\ db'.link = db.link
        /\ DOMAIN db'.content = DOMAIN db.content]_ivars

\* What each record refers to stands in the same batch, before it where the
\* writers or the foreign keys ask for that, and no relation is of a node with
\* itself, which the table refuses.
SelfContained(r) ==
    LET b == Records(r)
        Earlier(kind, i) == IdsUpTo(b, i - 1, kind)
    IN  \A i \in DOMAIN b :
          CASE b[i].kind = "source"   -> TRUE
            [] b[i].kind = "content"  -> b[i].src \in Earlier("source", i)
            [] b[i].kind = "node"     -> /\ b[i].srcs \subseteq Earlier("source", i)
                                         /\ b[i].claims \subseteq IdsIn(b, "claim")
            [] b[i].kind = "relation" -> /\ {b[i].from, b[i].to} \subseteq Earlier("node", i)
                                         /\ b[i].from # b[i].to
            [] b[i].kind = "claim"    -> b[i].node \in IdsIn(b, "node")
            [] b[i].kind = "evidence" -> /\ b[i].src \in Earlier("source", i)
                                         /\ b[i].claim \in IdsIn(b, "claim")

\* A batch that stands on its own is turned away only by a failing call: not by
\* another project's rows under the same worker ids, rows of older builds or
\* its own earlier delivery.
NoNeedlessRejection ==
    [][job # Resting /\ job.at # "rollback" /\ job'.at = "rollback" /\ SelfContained(job.run)
        => count'.failures > count.failures]_ivars
=============================================================================
