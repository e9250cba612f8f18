------------------------ MODULE ResultIngestionProofs ------------------------
(***************************************************************************)
(* A batch is the same whenever it comes, so everything the open            *)
(* transaction holds beyond the committed tables is a function of how many *)
(* records are written: the rows, the links, the contents.  The inductive  *)
(* invariant says that of the transaction, with the nodes and claims still *)
(* to come beside what is there, and says the same of the committed tables *)
(* with the delivered runs in the place of the records written.            *)
(***************************************************************************)
EXTENDS ResultIngestion, SequenceTheorems, WellFoundedInduction, TLAPS

-----------------------------------------------------------------------------
(* How far a batch is.                                                     *)

Open == job.at \in {"records", "publish"}

\* todo is what is left of b.
IsRest(todo, b) ==
    /\ b \in Seq({b[i] : i \in DOMAIN b}) /\ todo \in Seq({b[i] : i \in DOMAIN b})
    /\ Len(todo) <= Len(b)
    /\ \A i \in DOMAIN todo : todo[i] = b[Len(b) - Len(todo) + i]

\* So many records of the batch are written.
Written == Len(Records(job.run)) - Len(job.todo)

-----------------------------------------------------------------------------
(* What a run's first n records stand for.                                 *)

RowsTo(r, n) ==
    {RowOf(ProjectOf[r], Records(r)[i]) : i \in {i \in 1 .. n : Records(r)[i].kind # "content"}}

LinkOf(p, rec) == <<ClaimKey(p, rec.claim), <<p, rec.id>>>>

LinksTo(r, n) ==
    {LinkOf(ProjectOf[r], Records(r)[i]) : i \in {i \in 1 .. n : Records(r)[i].kind = "evidence"}}

\* The record that says what the source w is to the records after the n-th.
NamesSource(r, j, w) == Records(r)[j].kind = "source" /\ Records(r)[j].id = w

LastSource(r, n, w, j) ==
    /\ j \in 1 .. n /\ NamesSource(r, j, w)
    /\ \A i \in j + 1 .. n : ~ NamesSource(r, i, w)

SourceKey(r, j) == <<ProjectOf[r], Records(r)[j].url>>

\* The key of the content that is the i-th record, its source being the j-th.
ContentKey(r, i, j, source) == <<source[SourceKey(r, j)], Records(r)[i].print>>

ContentTo(r, n, source) ==
    {ContentKey(r, ij[1], ij[2], source) :
       ij \in {ij \in (1 .. n) \X (1 .. n) :
                 /\ Records(r)[ij[1]].kind = "content"
                 /\ LastSource(r, ij[1] - 1, Records(r)[ij[1]].src, ij[2])}}

\* The nodes and the claims that are still to come.
Late(r, n, kind) ==
    {RowOf(ProjectOf[r], Records(r)[i])[2] :
       i \in {i \in n + 1 .. Len(Records(r)) : Records(r)[i].kind = kind}}

-----------------------------------------------------------------------------
(* The tables one by one.                                                  *)

SourceFits(source, n) == \A k \in DOMAIN source : source[k] \in 0 .. n - 1

ContentFits(content) == \A k \in DOMAIN content : content[k] = FileOf(k)

\* A node's id is its own, and names its project and worker id if it is not old.
NodeFits(node) ==
    \A k \in DOMAIN node :
        /\ node[k].id = k \/ node[k].id[1] = "raw"
        /\ k[1] # "raw"
        /\ \A m \in DOMAIN node : node[m].id = node[k].id => m = k

\* An old claim is one that was there, and hides the scoped id from then on.
ClaimFits(claim) ==
    /\ Scoped(claim)
    /\ \A k \in DOMAIN Legacy.claim : Has(claim, k) /\ claim[k].project = Legacy.claim[k].project
    /\ \A k \in DOMAIN claim \ DOMAIN Legacy.claim : k[1] # "raw"
    /\ \A r \in Runs : \A w : 
         Has(claim, <<ProjectOf[r], w>>) => ClaimKey(ProjectOf[r], w) = <<ProjectOf[r], w>>

TablesFit(tables, n) ==
    /\ DOMAIN tables = Tables
    /\ SourceFits(tables.source, n) /\ ContentFits(tables.content)
    /\ NodeFits(tables.node) /\ ClaimFits(tables.claim)
    /\ Scoped(tables.relation) /\ Scoped(tables.evidence)

-----------------------------------------------------------------------------
(* References, to rows that are there or are late and of the project p.    *)

ContentLeads(content, source) ==
    \A k \in DOMAIN content : \E s \in DOMAIN source : source[s] = k[1]

NodesLead(node, source, claim, p, late) ==
    \A k \in DOMAIN node :
        /\ node[k].sources \subseteq SourcesOf(source, k[1])
        /\ \A c \in node[k].claims : c \in ClaimsOf(claim, k[1]) \/ (k[1] = p /\ c \in late)

RelationsLead(relation, node) ==
    \A k \in DOMAIN relation :
        {relation[k].from, relation[k].to} \subseteq NodesOf(node, relation[k].project)

ClaimsLead(claim, node, p, late) ==
    \A k \in DOMAIN claim \ DOMAIN Legacy.claim :
        \/ claim[k].subject \in NodesOf(node, claim[k].project)
        \/ /\ claim[k].project = p /\ claim[k].subject \in late
           /\ claim[k].subject \notin DOMAIN node

EvidenceLeads(evidence, source) ==
    \A k \in DOMAIN evidence : evidence[k].source \in SourcesOf(source, evidence[k].project)

LinksLead(link, evidence, claim, p, late) ==
    \A l \in link :
        /\ Has(evidence, l[2])
        /\ \/ l[1] \in ClaimsOf(claim, evidence[l[2]].project)
           \/ evidence[l[2]].project = p /\ l[1] \in late

ResolvesBut(tables, p, lateNodes, lateClaims) ==
    /\ ContentLeads(tables.content, tables.source)
    /\ NodesLead(tables.node, tables.source, tables.claim, p, lateClaims)
    /\ RelationsLead(tables.relation, tables.node)
    /\ ClaimsLead(tables.claim, tables.node, p, lateNodes)
    /\ EvidenceLeads(tables.evidence, tables.source)
    /\ LinksLead(tables.link, tables.evidence, tables.claim, p, lateClaims)

-----------------------------------------------------------------------------
(* The inductive invariant.                                                *)

JobFits ==
    \/ job = Resting
    \/ /\ DOMAIN job = {"at", "run", "todo", "tx", "sources", "links", "published"}
       /\ job.at \in {"records", "publish", "rollback"} /\ job.run \in Runs
       /\ DOMAIN job.tx = Tables

\* What is left to write, and that the content at hand is about to be published.
BatchFits ==
    Open => /\ IsRest(job.todo, Records(job.run))
            /\ \A i \in DOMAIN Records(job.run) : Records(job.run)[i].kind \in Kinds
            /\ job.at = "publish" =>
                  /\ job.todo # <<>> /\ Record.kind = "content" /\ ContentWritable(Record)
                  /\ Path # NoPath /\ ~ Intact(Path)

\* What a batch knows of its sources.
SourcesKnown(sources, source, r, n) ==
    /\ DOMAIN sources = IdsUpTo(Records(r), n, "source")
    /\ \A w \in DOMAIN sources : \E j \in 1 .. n :
          LastSource(r, n, w, j) /\ Has(source, SourceKey(r, j)) /\ sources[w] = source[SourceKey(r, j)]

SourcesSame(before, after) == \A k \in DOMAIN before : Has(after, k) /\ after[k] = before[k]

\* The tables t, opened over d, hold the rows of d and those of the first n records.
TxFitsAt(d, t, sources, r, n, id) ==
    /\ TablesFit(t, id)
    /\ t.link = d.link /\ t.delivered = d.delivered
    /\ SourcesSame(d.source, t.source)
    /\ RowsIn(t) = RowsIn(d) \cup RowsTo(r, n)
    /\ DOMAIN t.content = DOMAIN d.content \cup ContentTo(r, n, t.source)
    /\ SourcesKnown(sources, t.source, r, n)

ResolvesAt(t, r, n) == ResolvesBut(t, ProjectOf[r], Late(r, n, "node"), Late(r, n, "claim"))

LinksAt(links, t, r, n) ==
    /\ links = LinksTo(r, n)
    /\ \A l \in links : Has(t.evidence, l[2]) /\ t.evidence[l[2]].project = ProjectOf[r]
    /\ LinksLead(links, t.evidence, t.claim, ProjectOf[r], Late(r, n, "claim"))

\* The transaction when n records are written.
BatchAt(d, t, sources, links, r, n, id) ==
    TxFitsAt(d, t, sources, r, n, id) /\ ResolvesAt(t, r, n) /\ LinksAt(links, t, r, n)

TxFits == Open => BatchAt(db, job.tx, job.sources, job.links, job.run, Written, nextId)

DbFits == TablesFit(db, nextId) /\ Resolves(db) /\ nextId \in Nat

\* The delivered runs are there as a whole.
DeliveredFits ==
    /\ AllOrNothing
    /\ \A r \in db.delivered :
        /\ LinksTo(r, Len(Records(r))) \subseteq db.link
        /\ ContentTo(r, Len(Records(r)), db.source) \subseteq DOMAIN db.content

\* The files a content table refers to.
Files(content) == {k \in DOMAIN content : FileOf(k) # NoPath}

\* No referenced file is bad unless it was damaged; a file is referenced, litter,
\* or the batch's own, and then no committed row's.
FilesFit ==
    /\ NoPath \notin DOMAIN file
    /\ \A f \in DOMAIN file : file[f] \in {"intact", "damaged"}
    /\ \A f \in Files(db.content) : Intact(f) \/ f \in damaged
    /\ \A f \in DOMAIN file :
         f \in Files(db.content) \/ f \in litter \/ (job # Resting /\ f \in job.published)
    /\ job # Resting => \A f \in job.published : f # NoPath /\ f \notin Files(db.content)
    /\ Open =>
         /\ job.published \subseteq Files(job.tx.content)
         /\ \A f \in Files(job.tx.content) :
               /\ Intact(f) \/ f \in damaged
               /\ f \in Files(db.content) \/ f \in litter \/ f \in job.published

CountFits == count \in [ingests : 0 .. MaxIngests, damages : 0 .. MaxDamages,
                        failures : 0 .. MaxFailures]

IngestionIInv ==
    /\ db.delivered \subseteq Runs /\ JobFits /\ CountFits
    /\ BatchFits /\ TxFits /\ DbFits /\ DeliveredFits /\ FilesFit

-----------------------------------------------------------------------------
(* The records of a batch.  Parsed is a recursive function, so that what   *)
(* it keeps is found by induction, in the form of a set of numbers.        *)

\* A set that has 0 and with each number its successor has them all.
LEMMA NatSetInduction ==
    ASSUME NEW S, 0 \in S, \A n \in Nat : n \in S => n + 1 \in S
    PROVE  Nat \subseteq S
<1> DEFINE T == {n \in Nat : n \notin S}
           R == {ss \in Nat \X Nat : ss[1] < ss[2]}
<1>1. IsWellFoundedOn(R, Nat)
  BY NatLessThanWellFounded DEF OpToRel
<1>2. ASSUME T # {} PROVE FALSE
  <2>1. T \subseteq Nat
    OBVIOUS
  <2> HIDE DEF R, T
  <2>2. PICK x \in T : \A y \in T : ~ (<<y, x>> \in R)
    BY <1>1, <1>2, <2>1, WFMin
  <2> USE DEF R, T
  <2>3. x \in Nat /\ x # 0
    BY <2>2
  <2>4. x - 1 \in Nat /\ (x - 1) + 1 = x /\ <<x - 1, x>> \in R
    BY <2>3
  <2> QED
    BY <2>2, <2>3, <2>4
<1> QED
  BY <1>2

\* f has the values of the recursion in Parsed, up to n.
IsParsedTo(f, b, n) ==
    f = [i \in 0 .. n |-> IF i = 0 THEN <<>>
                          ELSE IF b[i].kind \in Kinds THEN Append(f[i - 1], b[i]) ELSE f[i - 1]]

\* The recursion has a solution, so that Parsed is its last value.
LEMMA ParsedExists ==
    ASSUME NEW U, NEW b \in Seq(U)
    PROVE  \E f : IsParsedTo(f, b, Len(b)) /\ Parsed(b) = f[Len(b)]
<1> DEFINE N == {n \in Nat : n <= Len(b) => \E f : IsParsedTo(f, b, n)}
<1>1. 0 \in N
  <2>1. IsParsedTo([i \in 0 .. 0 |-> <<>>], b, 0)
    BY DEF IsParsedTo
  <2> QED
    BY <2>1
<1>2. ASSUME NEW n \in Nat, n \in N PROVE n + 1 \in N
  <2> SUFFICES ASSUME n + 1 <= Len(b) PROVE \E f : IsParsedTo(f, b, n + 1)
    OBVIOUS
  <2>1. PICK f : IsParsedTo(f, b, n)
    BY <1>2
  <2> DEFINE g == [i \in 0 .. (n + 1) |->
                     IF i <= n THEN f[i]
                     ELSE IF b[n + 1].kind \in Kinds THEN Append(f[n], b[n + 1]) ELSE f[n]]
  <2>2. ASSUME NEW i \in 0 .. (n + 1)
        PROVE  g[i] = IF i = 0 THEN <<>>
                      ELSE IF b[i].kind \in Kinds THEN Append(g[i - 1], b[i]) ELSE g[i - 1]
    <3>1. CASE i = 0
      BY <2>1, <3>1 DEF IsParsedTo
    <3>2. CASE i # 0 /\ i <= n
      <4>1. i \in 0 .. n /\ i - 1 \in 0 .. n /\ i - 1 \in 0 .. (n + 1)
        BY <3>2
      <4>2. g[i] = f[i] /\ g[i - 1] = f[i - 1]
        BY <4>1
      <4>3. f[i] = IF b[i].kind \in Kinds THEN Append(f[i - 1], b[i]) ELSE f[i - 1]
        BY <2>1, <3>2, <4>1 DEF IsParsedTo
      <4> QED
        BY <3>2, <4>2, <4>3
    <3>3. CASE i = n + 1
      BY <3>3
    <3> QED
      BY <3>1, <3>2, <3>3
  <2>3. IsParsedTo(g, b, n + 1)
    <3> DEFINE h == [i \in 0 .. (n + 1) |-> IF i = 0 THEN <<>>
                       ELSE IF b[i].kind \in Kinds THEN Append(g[i - 1], b[i]) ELSE g[i - 1]]
    <3>1. \A i \in 0 .. (n + 1) : g[i] = h[i]
      BY <2>2
    <3>2. g = h
      <4> HIDE DEF h
      <4>1. g = [i \in 0 .. (n + 1) |-> g[i]]
        OBVIOUS
      <4>2. h = [i \in 0 .. (n + 1) |-> h[i]]
        BY DEF h
      <4> QED
        BY <3>1, <4>1, <4>2
    <3> QED
      BY <3>2 DEF IsParsedTo
  <2> QED
    BY <2>3
<1>3. \E f : IsParsedTo(f, b, Len(b))
  <2> HIDE DEF N
  <2>1. Nat \subseteq N
    BY <1>1, <1>2, NatSetInduction
  <2>2. Len(b) \in N
    BY <2>1
  <2> QED
    BY <2>2 DEF N
<1> DEFINE f == CHOOSE f : IsParsedTo(f, b, Len(b))
<1>4. IsParsedTo(f, b, Len(b))
  BY <1>3
<1>5. Parsed(b) = f[Len(b)]
  BY DEF Parsed, IsParsedTo
<1> HIDE DEF f
<1> QED
  BY <1>4, <1>5

\* Every record of a batch is of a kind that is written.
LEMMA ParsedKinds ==
    ASSUME NEW U, NEW b \in Seq(U)
    PROVE  Parsed(b) \in Seq({x \in U : x.kind \in Kinds})
<1> DEFINE V == {x \in U : x.kind \in Kinds}
<1>1. PICK f : IsParsedTo(f, b, Len(b)) /\ Parsed(b) = f[Len(b)]
  BY ParsedExists
<1> DEFINE N == {n \in Nat : n <= Len(b) => f[n] \in Seq(V)}
<1>2. 0 \in N
  <2>1. f[0] = <<>>
    BY <1>1 DEF IsParsedTo
  <2>2. f[0] \in Seq(V)
    <3> HIDE DEF V
    <3> QED
      BY <2>1
  <2> QED
    BY <2>2
<1>3. ASSUME NEW n \in Nat, n \in N PROVE n + 1 \in N
  <2> SUFFICES ASSUME n + 1 <= Len(b) PROVE f[n + 1] \in Seq(V)
    OBVIOUS
  <2>1. f[n] \in Seq(V)
    BY <1>3
  <2>2. b[n + 1] \in U /\ n + 1 \in 0 .. Len(b) /\ n + 1 # 0 /\ (n + 1) - 1 = n
    OBVIOUS
  <2>3. f[n + 1] = IF b[n + 1].kind \in Kinds THEN Append(f[n], b[n + 1]) ELSE f[n]
    BY <1>1, <2>2 DEF IsParsedTo
  <2>4. CASE b[n + 1].kind \in Kinds
    <3>1. b[n + 1] \in V
      BY <2>2, <2>4
    <3> HIDE DEF V
    <3> QED
      BY <2>1, <2>3, <2>4, <3>1
  <2> QED
    BY <2>1, <2>3, <2>4
<1> HIDE DEF N
<1>4. Nat \subseteq N
  BY <1>2, <1>3, NatSetInduction
<1>5. Len(b) \in N
  BY <1>4
<1> QED
  BY <1>1, <1>5 DEF N

\* What is left of a batch that has just been taken up is all of it.
LEMMA RecordsFit ==
    ASSUME NEW r \in Runs
    PROVE  /\ IsRest(Records(r), Records(r))
           /\ \A i \in DOMAIN Records(r) : Records(r)[i].kind \in Kinds
<1> DEFINE U == {x \in {Batch[r][i] : i \in DOMAIN Batch[r]} : x.kind \in Kinds}
<1>1. Records(r) \in Seq(U)
  BY ParsedKinds, IngestionAssumption DEF Records
<1>2. \A x \in U : x.kind \in Kinds
  OBVIOUS
<1> HIDE DEF U
<1>3. PICK b : b = Records(r)
  OBVIOUS
<1>4. b \in Seq({b[i] : i \in DOMAIN b}) /\ Len(b) \in Nat
  <2> DEFINE V == {b[i] : i \in DOMAIN b}
  <2>1. b = [i \in 1 .. Len(b) |-> b[i]] /\ Len(b) \in Nat /\ DOMAIN b = 1 .. Len(b)
    BY <1>1, <1>3
  <2>2. \A i \in 1 .. Len(b) : b[i] \in V
    BY <2>1
  <2> HIDE DEF V
  <2>3. b \in [1 .. Len(b) -> V]
    BY <2>1, <2>2
  <2>4. b \in Seq(V)
    BY <2>1, <2>3, SeqDef
  <2> QED
    BY <2>1, <2>4 DEF V
<1>5. \A i \in DOMAIN b : b[Len(b) - Len(b) + i] = b[i]
  BY <1>4
<1> QED
  BY <1>1, <1>2, <1>3, <1>4, <1>5 DEF IsRest

\* The next record, and what is left behind it.
LEMMA RestTail ==
    ASSUME NEW b, NEW todo, IsRest(todo, b), todo # <<>>, NEW n, n = Len(b) - Len(todo)
    PROVE  /\ n \in Nat /\ n + 1 \in 1 .. Len(b) /\ n + 1 \in DOMAIN b /\ Head(todo) = b[n + 1]
           /\ IsRest(Tail(todo), b) /\ Len(b) - Len(Tail(todo)) = n + 1
<1> DEFINE U == {b[i] : i \in DOMAIN b}
<1>1. b \in Seq(U) /\ todo \in Seq(U) /\ Len(todo) <= Len(b)
      /\ \A i \in DOMAIN todo : todo[i] = b[Len(b) - Len(todo) + i]
  BY DEF IsRest
<1>2. Tail(todo) \in Seq(U) /\ Len(Tail(todo)) = Len(todo) - 1
      /\ \A i \in 1 .. Len(todo) - 1 : Tail(todo)[i] = todo[i + 1]
  <2> HIDE DEF U
  <2> QED
    BY <1>1
<1>3. Len(todo) \in Nat /\ Len(b) \in Nat /\ Len(todo) >= 1 /\ DOMAIN b = 1 .. Len(b)
      /\ DOMAIN todo = 1 .. Len(todo) /\ Head(todo) = todo[1]
  <2> HIDE DEF U
  <2> QED
    BY <1>1
<1>4. DOMAIN Tail(todo) = 1 .. Len(todo) - 1
  <2> HIDE DEF U
  <2> QED
    BY <1>2, <1>3
<1>5. ASSUME NEW i \in 1 .. Len(todo) - 1
      PROVE  Tail(todo)[i] = b[Len(b) - Len(Tail(todo)) + i]
  <2>1. i + 1 \in DOMAIN todo /\ Len(b) - Len(todo) + (i + 1) = Len(b) - Len(Tail(todo)) + i
    BY <1>2, <1>3
  <2> QED
    BY <1>1, <1>2, <2>1
<1> HIDE DEF U
<1>6. IsRest(Tail(todo), b)
  <2>1. Len(Tail(todo)) <= Len(b)
    BY <1>1, <1>2, <1>3
  <2>2. \A i \in DOMAIN Tail(todo) : Tail(todo)[i] = b[Len(b) - Len(Tail(todo)) + i]
    BY <1>4, <1>5
  <2> QED
    BY <1>1, <1>2, <2>1, <2>2 DEF IsRest, U
<1> QED
  BY <1>1, <1>2, <1>3, <1>6
-----------------------------------------------------------------------------
(* What one more record adds.                                              *)

\* The records up to the next one.
LEMMA UpToNext ==
    ASSUME NEW n \in Nat
    PROVE  1 .. n + 1 = (1 .. n) \cup {n + 1} /\ n + 1 \notin 1 .. n
OBVIOUS

\* Its row is one more, unless it is a content.
LEMMA RowsStep ==
    ASSUME NEW r, NEW n \in Nat
    PROVE  RowsTo(r, n + 1) = RowsTo(r, n) \cup
               (IF Records(r)[n + 1].kind # "content"
                THEN {RowOf(ProjectOf[r], Records(r)[n + 1])} ELSE {})
<1>1. PICK b : b = Records(r)
  OBVIOUS
<1> QED
  BY <1>1, UpToNext DEF RowsTo

\* Its link is one more, if it is evidence.
LEMMA LinksStep ==
    ASSUME NEW r, NEW n \in Nat
    PROVE  LinksTo(r, n + 1) = LinksTo(r, n) \cup
               (IF Records(r)[n + 1].kind = "evidence"
                THEN {LinkOf(ProjectOf[r], Records(r)[n + 1])} ELSE {})
<1>1. PICK b : b = Records(r)
  OBVIOUS
<1> QED
  BY <1>1, UpToNext DEF LinksTo

\* Its id is one more, if it is of the kind.
LEMMA IdsStep ==
    ASSUME NEW b, NEW n \in Nat, NEW kind
    PROVE  IdsUpTo(b, n + 1, kind) = IdsUpTo(b, n, kind) \cup
               (IF b[n + 1].kind = kind THEN {b[n + 1].id} ELSE {})
BY UpToNext DEF IdsUpTo

\* It is late no longer.
LEMMA LateStep ==
    ASSUME NEW r, NEW n \in Nat, n + 1 \in 1 .. Len(Records(r)), Len(Records(r)) \in Nat, NEW kind
    PROVE  Late(r, n, kind) = Late(r, n + 1, kind) \cup
               (IF Records(r)[n + 1].kind = kind
                THEN {RowOf(ProjectOf[r], Records(r)[n + 1])[2]} ELSE {})
<1>1. PICK b : b = Records(r)
  OBVIOUS
<1>2. n + 1 .. Len(b) = (n + 1 + 1 .. Len(b)) \cup {n + 1}
  BY <1>1
<1> QED
  BY <1>1, <1>2 DEF Late

\* It names a source anew, or the last one stays the last.
LEMMA LastSourceStep ==
    ASSUME NEW r, NEW n \in Nat, NEW w, NEW j
    PROVE  LastSource(r, n + 1, w, j) <=>
               IF NamesSource(r, n + 1, w) THEN j = n + 1 ELSE LastSource(r, n, w, j)
<1>1. n + 1 \in 1 .. n + 1 /\ n + 1 + 1 .. n + 1 = {}
  OBVIOUS
<1>2. ASSUME NEW k \in Nat, k <= n PROVE k + 1 .. n + 1 = (k + 1 .. n) \cup {n + 1}
  BY <1>2
<1>3. ASSUME j \in 1 .. n PROVE j + 1 .. n + 1 = (j + 1 .. n) \cup {n + 1}
  BY <1>2, <1>3
<1>4. CASE NamesSource(r, n + 1, w)
  <2>1. ASSUME LastSource(r, n + 1, w, j) PROVE j = n + 1
    BY <1>3, <1>4, <2>1, UpToNext DEF LastSource
  <2>2. LastSource(r, n + 1, w, n + 1)
    BY <1>1, <1>4 DEF LastSource
  <2> QED
    BY <1>4, <2>1, <2>2
<1>5. CASE ~ NamesSource(r, n + 1, w)
  BY <1>3, <1>5, UpToNext DEF LastSource
<1> QED
  BY <1>4, <1>5

\* There is one last source only.
LEMMA LastSourceUnique ==
    ASSUME NEW r, NEW n \in Nat, NEW w, NEW i, NEW j, LastSource(r, n, w, i), LastSource(r, n, w, j)
    PROVE  i = j
<1>1. i \in 1 .. n /\ j \in 1 .. n
  BY DEF LastSource
<1>2. i < j => j \in i + 1 .. n
  BY <1>1
<1>3. j < i => i \in j + 1 .. n
  BY <1>1
<1> QED
  BY <1>1, <1>2, <1>3 DEF LastSource

\* No content comes with it, unless it is one.
LEMMA ContentStepOther ==
    ASSUME NEW r, NEW n \in Nat, NEW source, Records(r)[n + 1].kind # "content"
    PROVE  ContentTo(r, n + 1, source) = ContentTo(r, n, source)
<1>1. ASSUME NEW i \in 1 .. n, NEW w, NEW j, LastSource(r, i - 1, w, j) PROVE j \in 1 .. n
  BY <1>1 DEF LastSource
<1>2. PICK b : b = Records(r)
  OBVIOUS
<1>3. ContentTo(r, n + 1, source) \subseteq ContentTo(r, n, source)
  <2> SUFFICES ASSUME NEW i \in 1 .. n + 1, NEW j \in 1 .. n + 1, b[i].kind = "content",
                      LastSource(r, i - 1, b[i].src, j)
               PROVE  ContentKey(r, i, j, source) \in ContentTo(r, n, source)
    BY <1>2 DEF ContentTo
  <2>1. i \in 1 .. n
    BY <1>2
  <2>2. j \in 1 .. n
    BY <1>1, <2>1
  <2>3. <<i, j>> \in (1 .. n) \X (1 .. n) /\ <<i, j>>[1] = i /\ <<i, j>>[2] = j
    BY <2>1, <2>2
  <2> QED
    BY <1>2, <2>3 DEF ContentTo
<1>4. ContentTo(r, n, source) \subseteq ContentTo(r, n + 1, source)
  <2>1. (1 .. n) \X (1 .. n) \subseteq (1 .. n + 1) \X (1 .. n + 1)
    OBVIOUS
  <2> QED
    BY <2>1 DEF ContentTo
<1> QED
  BY <1>3, <1>4

\* A content's key is one more.
LEMMA ContentStep ==
    ASSUME NEW r, NEW n \in Nat, NEW source, Records(r)[n + 1].kind = "content",
           NEW last, LastSource(r, n, Records(r)[n + 1].src, last)
    PROVE  ContentTo(r, n + 1, source)
               = ContentTo(r, n, source) \cup {ContentKey(r, n + 1, last, source)}
<1>1. ASSUME NEW i \in 1 .. n, NEW w, NEW j, LastSource(r, i - 1, w, j) PROVE j \in 1 .. n
  BY <1>1 DEF LastSource
<1>2. PICK b : b = Records(r)
  OBVIOUS
<1>3. ContentTo(r, n + 1, source) \subseteq ContentTo(r, n, source) \cup {ContentKey(r, n + 1, last, source)}
  <2> SUFFICES ASSUME NEW i \in 1 .. n + 1, NEW j \in 1 .. n + 1, b[i].kind = "content",
                      LastSource(r, i - 1, b[i].src, j)
               PROVE  ContentKey(r, i, j, source)
                        \in ContentTo(r, n, source) \cup {ContentKey(r, n + 1, last, source)}
    BY <1>2 DEF ContentTo
  <2>1. CASE i \in 1 .. n
    <3>2. j \in 1 .. n
      BY <1>1, <2>1
    <3>3. <<i, j>> \in (1 .. n) \X (1 .. n) /\ <<i, j>>[1] = i /\ <<i, j>>[2] = j
      BY <2>1, <3>2
    <3> QED
      BY <1>2, <3>3 DEF ContentTo
  <2>2. CASE i = n + 1
    <3>1. LastSource(r, n, b[n + 1].src, j)
      BY <2>2
    <3> QED
      BY <1>2, <2>2, <3>1, LastSourceUnique
  <2> QED
    BY <2>1, <2>2
<1>4. ContentTo(r, n, source) \subseteq ContentTo(r, n + 1, source)
  <2>1. (1 .. n) \X (1 .. n) \subseteq (1 .. n + 1) \X (1 .. n + 1)
    OBVIOUS
  <2> QED
    BY <2>1 DEF ContentTo
<1>5. ContentKey(r, n + 1, last, source) \in ContentTo(r, n + 1, source)
  <2>1. last \in 1 .. n + 1 /\ (n + 1) - 1 = n
    BY DEF LastSource
  <2>2. <<n + 1, last>> \in (1 .. n + 1) \X (1 .. n + 1)
        /\ <<n + 1, last>>[1] = n + 1 /\ <<n + 1, last>>[2] = last
    BY <2>1
  <2>3. LastSource(r, <<n + 1, last>>[1] - 1, Records(r)[<<n + 1, last>>[1]].src, <<n + 1, last>>[2])
    BY <2>1, <2>2
  <2> QED
    BY <2>2, <2>3 DEF ContentTo
<1> QED
  BY <1>3, <1>4, <1>5

\* The keys of the contents stay while the sources named keep their ids.
LEMMA ContentSame ==
    ASSUME NEW r, NEW n \in Nat, NEW s, NEW t,
           \A j \in 1 .. n : Records(r)[j].kind = "source" => t[SourceKey(r, j)] = s[SourceKey(r, j)]
    PROVE  ContentTo(r, n, t) = ContentTo(r, n, s)
<1>1. ASSUME NEW i \in 1 .. n, NEW j, LastSource(r, i - 1, Records(r)[i].src, j)
      PROVE  ContentKey(r, i, j, t) = ContentKey(r, i, j, s)
  <2>1. j \in 1 .. n /\ Records(r)[j].kind = "source"
    BY <1>1 DEF LastSource, NamesSource
  <2> QED
    BY <2>1 DEF ContentKey
<1> QED
  BY <1>1 DEF ContentTo
-----------------------------------------------------------------------------
(* A row put into a table.                                                 *)

IsPut(after, table, key, row) ==
    /\ DOMAIN after = DOMAIN table \cup {key} /\ after[key] = row
    /\ \A k \in DOMAIN table : k # key => after[k] = table[k]

\* What Put makes of a table, named so that it can be cited unexpanded.
LEMMA PutRows ==
    ASSUME NEW table, NEW key, NEW row
    PROVE  IsPut(Put(table, key, row), table, key, row)
BY DEF Put, IsPut

IsKept(after, table, key, row) ==
    /\ DOMAIN after = DOMAIN table \cup {key}
    /\ \A k \in DOMAIN table : after[k] = table[k]
    /\ ~ Has(table, key) => after[key] = row

\* What Keep makes of a table.
LEMMA KeepRows ==
    ASSUME NEW table, NEW key, NEW row
    PROVE  IsKept(Keep(table, key, row), table, key, row)
<1>1. CASE Has(table, key)
  BY <1>1 DEF Keep, Has, IsKept
<1>2. CASE ~ Has(table, key)
  <2>1. Keep(table, key, row) = Put(table, key, row)
    BY <1>2 DEF Keep
  <2>2. IsPut(Keep(table, key, row), table, key, row)
    BY <2>1, PutRows
  <2> QED
    BY <1>2, <2>2 DEF IsPut, IsKept, Has
<1> QED
  BY <1>1, <1>2

\* The tables whose rows tell a batch from a part of it.
RowTables == {"source", "node", "relation", "claim", "evidence"}

\* A key more in one of them is a row more.
LEMMA RowsOne ==
    ASSUME NEW t, NEW u, NEW name \in RowTables, NEW key,
           \A n \in RowTables : n # name => DOMAIN u[n] = DOMAIN t[n],
           DOMAIN u[name] = DOMAIN t[name] \cup {key}
    PROVE  RowsIn(u) = RowsIn(t) \cup {<<name, key>>}
<1>1. \A tables, x : x \in RowsIn(tables) <=> \E n \in RowTables : \E k \in DOMAIN tables[n] : x = <<n, k>>
  BY DEF RowsIn, RowTables
<1>2. ASSUME NEW x PROVE x \in RowsIn(u) <=> x \in RowsIn(t) \cup {<<name, key>>}
  BY <1>1
<1> QED
  BY <1>2

\* Tables with the same keys have the same rows.
LEMMA RowsNone ==
    ASSUME NEW t, NEW u, \A n \in RowTables : DOMAIN u[n] = DOMAIN t[n]
    PROVE  RowsIn(u) = RowsIn(t)
BY DEF RowsIn, RowTables

\* The rows of a table are known by the rows of all.
LEMMA RowsOfTable ==
    ASSUME NEW t, NEW name \in RowTables, NEW key
    PROVE  <<name, key>> \in RowsIn(t) <=> key \in DOMAIN t[name]
<1>1. \A n \in RowTables : \A k : <<n, k>> = <<name, key>> => n = name /\ k = key
  OBVIOUS
<1>2. \A x : x \in RowsIn(t) <=> \E n \in RowTables : \E k \in DOMAIN t[n] : x = <<n, k>>
  BY DEF RowsIn, RowTables
<1> QED
  BY <1>1, <1>2

\* The row a record stands for.
LEMMA RowKeys ==
    ASSUME NEW p, NEW rec
    PROVE  /\ rec.kind = "source" => RowOf(p, rec) = <<"source", <<p, rec.url>>>>
           /\ rec.kind = "claim" => RowOf(p, rec) = <<"claim", ClaimKey(p, rec.id)>>
           /\ rec.kind \in {"node", "relation", "evidence"}
                => RowOf(p, rec) = <<rec.kind, <<p, rec.id>>>>
BY DEF RowOf

\* What a claim is stored under does not change as claims are written.
LEMMA ClaimIdIsKey ==
    ASSUME NEW claim, ClaimFits(claim), NEW r \in Runs, NEW w, NEW p, p = ProjectOf[r]
    PROVE  ClaimKey(p, w) = IF /\ ~ Has(claim, <<p, w>>)
                               /\ Has(claim, Raw(w)) /\ claim[Raw(w)].project = p
                            THEN Raw(w) ELSE <<p, w>>
<1>1. Raw(w)[1] = "raw"
  BY DEF Raw
<1>2. Has(claim, Raw(w)) <=> Has(Legacy.claim, Raw(w))
  BY <1>1 DEF ClaimFits, Has
<1>3. Has(claim, Raw(w)) => claim[Raw(w)].project = Legacy.claim[Raw(w)].project
  BY <1>2 DEF ClaimFits, Has
<1>4. CASE Has(claim, <<p, w>>)
  BY <1>4 DEF ClaimFits
<1>5. CASE ~ Has(claim, <<p, w>>)
  <2>1. ~ Has(Legacy.claim, <<p, w>>)
    BY <1>5 DEF ClaimFits, Has
  <2> QED
    BY <1>2, <1>3, <1>5, <2>1 DEF ClaimKey
<1> QED
  BY <1>4, <1>5

\* A source row is put: new with an id not used before, or as it was.
LEMMA SourcePut ==
    ASSUME NEW source, NEW m \in Nat, NEW n \in Nat, m <= n, SourceFits(source, m),
           NEW key, NEW id \in 0 .. n - 1, Has(source, key) => id = source[key]
    PROVE  SourceFits(Put(source, key, id), n) /\ SourcesSame(source, Put(source, key, id))
<1>1. \A x \in 0 .. m - 1 : x \in 0 .. n - 1
  OBVIOUS
<1>2. PICK after : after = Put(source, key, id)
  OBVIOUS
<1>3. IsPut(after, source, key, id)
  BY <1>2, PutRows
<1> QED
  BY <1>1, <1>2, <1>3 DEF SourceFits, SourcesSame, Has, IsPut

\* Nodes keep their ids.
NodesGrow(before, after) ==
    \A k \in DOMAIN before : Has(after, k) /\ after[k].id = before[k].id

\* A node row is put: new under its scoped id, or with the id it had.
LEMMA NodePut ==
    ASSUME NEW node, NodeFits(node), NEW p, p # "raw", NEW w, NEW row,
           row.id = IF Has(node, <<p, w>>) THEN node[<<p, w>>].id ELSE <<p, w>>
    PROVE  NodeFits(Put(node, <<p, w>>, row)) /\ NodesGrow(node, Put(node, <<p, w>>, row))
<1>1. PICK key : key = <<p, w>> /\ key[1] # "raw"
  OBVIOUS
<1>2. PICK after : after = Put(node, key, row)
  OBVIOUS
<1>0. IsPut(after, node, key, row)
  BY <1>2, PutRows
<1>3. DOMAIN after = DOMAIN node \cup {key} /\ after[key] = row
      /\ \A k \in DOMAIN node : k # key => after[k] = node[k]
  BY <1>0 DEF IsPut
<1>4. NodesGrow(node, after)
  BY <1>1, <1>3 DEF NodesGrow, Has
<1>5. ASSUME NEW k \in DOMAIN after
      PROVE  (after[k].id = k \/ after[k].id[1] = "raw") /\ k[1] # "raw"
  <2>1. CASE k \in DOMAIN node
    BY <1>4, <2>1 DEF NodeFits, NodesGrow
  <2>2. CASE k \notin DOMAIN node
    BY <1>1, <1>3, <2>2 DEF Has
  <2> QED
    BY <2>1, <2>2
<1>6. ASSUME NEW k \in DOMAIN after, NEW m \in DOMAIN after, after[m].id = after[k].id
      PROVE  m = k
  <2>1. CASE k \in DOMAIN node /\ m \in DOMAIN node
    BY <1>4, <1>6, <2>1 DEF NodeFits, NodesGrow
  <2>2. CASE k \notin DOMAIN node /\ m \in DOMAIN node
    <3>1. k = key /\ after[k].id = key
      BY <1>1, <1>3, <2>2 DEF Has
    <3>2. after[m].id = node[m].id
      BY <1>4, <2>2 DEF NodesGrow
    <3> QED
      BY <1>1, <1>6, <2>2, <3>1, <3>2 DEF NodeFits
  <2>3. CASE k \in DOMAIN node /\ m \notin DOMAIN node
    <3>1. m = key /\ after[m].id = key
      BY <1>1, <1>3, <2>3 DEF Has
    <3>2. after[k].id = node[k].id
      BY <1>4, <2>3 DEF NodesGrow
    <3> QED
      BY <1>1, <1>6, <2>3, <3>1, <3>2 DEF NodeFits
  <2>4. CASE k \notin DOMAIN node /\ m \notin DOMAIN node
    BY <1>3, <2>4
  <2> QED
    BY <2>1, <2>2, <2>3, <2>4
<1> QED
  BY <1>1, <1>2, <1>4, <1>5, <1>6 DEF NodeFits

\* Claims stay in their project.
ClaimsGrow(before, after) ==
    \A k \in DOMAIN before : Has(after, k) /\ after[k].project = before[k].project

\* A claim row is put under the key its worker id stands for.
LEMMA ClaimPut ==
    ASSUME NEW claim, ClaimFits(claim), NEW r \in Runs, NEW w, NEW row, NEW key,
           key = ClaimKey(ProjectOf[r], w), row.project = ProjectOf[r],
           Has(claim, key) => claim[key].project = ProjectOf[r]
    PROVE  ClaimFits(Put(claim, key, row)) /\ ClaimsGrow(claim, Put(claim, key, row))
<1>1. PICK after : after = Put(claim, key, row)
  OBVIOUS
<1>0. IsPut(after, claim, key, row)
  BY <1>1, PutRows
<1>2. DOMAIN after = DOMAIN claim \cup {key} /\ after[key] = row
      /\ \A k \in DOMAIN claim : k # key => after[k] = claim[k]
  BY <1>0 DEF IsPut
<1>3. ClaimsGrow(claim, after)
  BY <1>2 DEF ClaimsGrow, Has
<1>4. \/ key = Raw(w) /\ key \in DOMAIN Legacy.claim /\ key[1] = "raw"
      \/ key = <<ProjectOf[r], w>> /\ key[1] = ProjectOf[r]
  BY DEF ClaimKey, Has, Raw
<1>5. ProjectOf[r] # "raw"
  BY IngestionAssumption
<1>6. Scoped(after)
  <2> SUFFICES ASSUME NEW k \in DOMAIN after PROVE k[1] \in {"raw", after[k].project}
    BY DEF Scoped
  <2>1. CASE k = key
    BY <1>2, <1>4, <2>1
  <2>2. CASE k # key
    BY <1>2, <2>2 DEF ClaimFits, Scoped
  <2> QED
    BY <2>1, <2>2
<1>7. \A k \in DOMAIN Legacy.claim : Has(after, k) /\ after[k].project = Legacy.claim[k].project
  BY <1>3 DEF ClaimFits, ClaimsGrow, Has
<1>8. \A k \in DOMAIN after \ DOMAIN Legacy.claim : k[1] # "raw"
  BY <1>2, <1>4, <1>5 DEF ClaimFits
<1>9. ASSUME NEW q \in Runs, NEW v, Has(after, <<ProjectOf[q], v>>)
      PROVE  ClaimKey(ProjectOf[q], v) = <<ProjectOf[q], v>>
  <2>1. CASE Has(claim, <<ProjectOf[q], v>>)
    BY <2>1 DEF ClaimFits
  <2>2. CASE ~ Has(claim, <<ProjectOf[q], v>>)
    <3>1. key = <<ProjectOf[q], v>>
      BY <1>2, <1>9, <2>2 DEF Has
    <3>0. ProjectOf[q] # "raw"
      BY IngestionAssumption
    <3>2. ProjectOf[q] # "raw" /\ key[1] = ProjectOf[q]
      BY <3>0, <3>1
    <3>3. key = <<ProjectOf[r], w>>
      BY <1>4, <3>2
    <3>4. ProjectOf[q] = ProjectOf[r] /\ v = w
      BY <3>1, <3>3
    <3> QED
      BY <3>3, <3>4
  <2> QED
    BY <2>1, <2>2
<1> QED
  BY <1>1, <1>3, <1>6, <1>7, <1>8, <1>9 DEF ClaimFits

\* A row is kept or put under a scoped id.
LEMMA ScopedKeep ==
    ASSUME NEW table, Scoped(table), NEW p, NEW w, NEW row, row.project = p
    PROVE  Scoped(Keep(table, <<p, w>>, row))
<1>1. PICK after : after = Keep(table, <<p, w>>, row)
  OBVIOUS
<1>2. IsKept(after, table, <<p, w>>, row)
  BY <1>1, KeepRows
<1>3. ASSUME NEW k \in DOMAIN after PROVE k[1] \in {"raw", after[k].project}
  <2>1. CASE k \in DOMAIN table
    BY <1>2, <2>1 DEF Scoped, IsKept
  <2>2. CASE k \notin DOMAIN table
    <3>1. k = <<p, w>> /\ after[k] = row
      BY <1>2, <2>2 DEF IsKept, Has
    <3>2. k[1] = p
      BY <3>1
    <3> QED
      BY <3>1, <3>2
  <2> QED
    BY <2>1, <2>2
<1> QED
  BY <1>1, <1>3 DEF Scoped

-----------------------------------------------------------------------------
(* References stay as tables grow.                                         *)

\* What a reference may lead to only grows: the sources,
LEMMA SourcesOfGrow ==
    ASSUME NEW s, NEW t, SourcesSame(s, t), NEW p
    PROVE  SourcesOf(s, p) \subseteq SourcesOf(t, p)
BY DEF SourcesSame, SourcesOf, Has

\* the nodes,
LEMMA NodesOfGrow ==
    ASSUME NEW s, NEW t, NodesGrow(s, t), NEW p
    PROVE  NodesOf(s, p) \subseteq NodesOf(t, p)
BY DEF NodesGrow, NodesOf, Has

\* and the claims of a project.
LEMMA ClaimsOfGrow ==
    ASSUME NEW s, NEW t, ClaimsGrow(s, t), NEW p
    PROVE  ClaimsOf(s, p) \subseteq ClaimsOf(t, p)
BY DEF ClaimsGrow, ClaimsOf, Has

\* So references that led to a row still do: those of contents,
LEMMA ContentLeadsGrow ==
    ASSUME NEW content, NEW s, NEW t, ContentLeads(content, s), SourcesSame(s, t)
    PROVE  ContentLeads(content, t)
<1> SUFFICES ASSUME NEW k \in DOMAIN content PROVE \E x \in DOMAIN t : t[x] = k[1]
  BY DEF ContentLeads
<1>1. PICK x \in DOMAIN s : s[x] = k[1]
  BY DEF ContentLeads
<1> QED
  BY <1>1 DEF SourcesSame, Has

\* Late claims come or stay late.
LateBecomes(late, after, there) == late \subseteq after \cup there

\* of nodes, whose late claims may have come,
LEMMA NodesLeadGrow ==
    ASSUME NEW node, NEW s, NEW t, NEW c, NEW d, NEW p, NEW late, NEW after,
           NodesLead(node, s, c, p, late), SourcesSame(s, t), ClaimsGrow(c, d),
           LateBecomes(late, after, ClaimsOf(d, p))
    PROVE  NodesLead(node, t, d, p, after)
<1> SUFFICES ASSUME NEW k \in DOMAIN node
             PROVE  /\ node[k].sources \subseteq SourcesOf(t, k[1])
                    /\ \A x \in node[k].claims :
                         x \in ClaimsOf(d, k[1]) \/ (k[1] = p /\ x \in after)
  BY DEF NodesLead
<1>1. node[k].sources \subseteq SourcesOf(t, k[1])
  BY SourcesOfGrow DEF NodesLead
<1>2. ASSUME NEW x \in node[k].claims
      PROVE  x \in ClaimsOf(d, k[1]) \/ (k[1] = p /\ x \in after)
  <2>1. x \in ClaimsOf(c, k[1]) \/ (k[1] = p /\ x \in late)
    BY DEF NodesLead
  <2> QED
    BY <2>1, ClaimsOfGrow DEF LateBecomes
<1> QED
  BY <1>1, <1>2

\* of relations,
LEMMA RelationsLeadGrow ==
    ASSUME NEW relation, NEW n, NEW m, RelationsLead(relation, n), NodesGrow(n, m)
    PROVE  RelationsLead(relation, m)
BY NodesOfGrow DEF RelationsLead

\* of evidence,
LEMMA EvidenceLeadsGrow ==
    ASSUME NEW evidence, NEW s, NEW t, EvidenceLeads(evidence, s), SourcesSame(s, t)
    PROVE  EvidenceLeads(evidence, t)
BY SourcesOfGrow DEF EvidenceLeads

\* and of links, whose late claims may have come.
LEMMA LinksLeadGrow ==
    ASSUME NEW link, NEW e, NEW f, NEW c, NEW d, NEW p, NEW late, NEW after,
           LinksLead(link, e, c, p, late), SourcesSame(e, f), ClaimsGrow(c, d),
           LateBecomes(late, after, ClaimsOf(d, p))
    PROVE  LinksLead(link, f, d, p, after)
<1> SUFFICES ASSUME NEW l \in link
             PROVE  /\ Has(f, l[2])
                    /\ \/ l[1] \in ClaimsOf(d, f[l[2]].project)
                       \/ f[l[2]].project = p /\ l[1] \in after
  BY DEF LinksLead
<1>1. Has(e, l[2]) /\ (\/ l[1] \in ClaimsOf(c, e[l[2]].project)
                       \/ e[l[2]].project = p /\ l[1] \in late)
  BY DEF LinksLead
<1>2. Has(f, l[2]) /\ f[l[2]] = e[l[2]]
  BY <1>1 DEF SourcesSame, Has
<1> QED
  BY <1>1, <1>2, ClaimsOfGrow DEF LateBecomes
-----------------------------------------------------------------------------
(* What is known of the rows of a batch that is under way.                 *)

\* There is a next record.
HasNext(r, n) == n \in Nat /\ Len(Records(r)) \in Nat /\ n + 1 \in 1 .. Len(Records(r))

\* The rows of the records written are there.
LEMMA WrittenRow ==
    ASSUME NEW d, NEW t, NEW sources, NEW r, NEW n \in Nat, NEW id, TxFitsAt(d, t, sources, r, n, id),
           NEW i \in 1 .. n, NEW name \in RowTables, NEW key, Records(r)[i].kind # "content",
           RowOf(ProjectOf[r], Records(r)[i]) = <<name, key>>
    PROVE  key \in DOMAIN t[name]
<1>1. <<name, key>> \in RowsTo(r, n)
  BY DEF RowsTo
<1>2. <<name, key>> \in RowsIn(t)
  BY <1>1 DEF TxFitsAt
<1> QED
  BY <1>2, RowsOfTable

\* A source record that is written has its row.
LEMMA WrittenSource ==
    ASSUME NEW d, NEW t, NEW sources, NEW r, NEW n \in Nat, NEW id, TxFitsAt(d, t, sources, r, n, id),
           NEW i \in 1 .. n, Records(r)[i].kind = "source"
    PROVE  SourceKey(r, i) \in DOMAIN t.source
<1>1. RowOf(ProjectOf[r], Records(r)[i]) = <<"source", SourceKey(r, i)>>
  BY RowKeys DEF SourceKey
<1> QED
  BY <1>1, WrittenRow DEF RowTables

\* A source the batch knows is one of the project.
LEMMA KnownSourceIsOurs ==
    ASSUME NEW sources, NEW source, NEW r, NEW n, SourcesKnown(sources, source, r, n),
           NEW w \in DOMAIN sources
    PROVE  sources[w] \in SourcesOf(source, ProjectOf[r])
<1>1. PICK j \in 1 .. n : Has(source, SourceKey(r, j)) /\ sources[w] = source[SourceKey(r, j)]
  BY DEF SourcesKnown
<1>2. SourceKey(r, j)[1] = ProjectOf[r]
  BY DEF SourceKey
<1> QED
  BY <1>1, <1>2 DEF SourcesOf, Has

\* A claim under a key of the project is the project's.
LEMMA ClaimOfKey ==
    ASSUME NEW claim, ClaimFits(claim), NEW r \in Runs, NEW w, Has(claim, ClaimKey(ProjectOf[r], w))
    PROVE  /\ claim[ClaimKey(ProjectOf[r], w)].project = ProjectOf[r]
           /\ ClaimKey(ProjectOf[r], w) \in ClaimsOf(claim, ProjectOf[r])
<1>1. PICK key : key = ClaimKey(ProjectOf[r], w)
  OBVIOUS
<1>2. CASE Has(Legacy.claim, key) /\ Legacy.claim[key].project = ProjectOf[r]
  BY <1>1, <1>2 DEF ClaimFits, ClaimsOf, Has
<1>3. CASE ~ (Has(Legacy.claim, key) /\ Legacy.claim[key].project = ProjectOf[r])
  <2>1. key = <<ProjectOf[r], w>> /\ key[1] = ProjectOf[r] /\ ProjectOf[r] # "raw"
    BY <1>1, <1>3, IngestionAssumption DEF ClaimKey
  <2>2. key[1] \in {"raw", claim[key].project}
    BY <1>1 DEF ClaimFits, Scoped, Has
  <2> QED
    BY <1>1, <2>1, <2>2 DEF ClaimsOf, Has
<1> QED
  BY <1>2, <1>3

\* An id of the batch is one of a record written or of one to come.
LEMMA CarriedSplit ==
    ASSUME NEW r, NEW n \in Nat, Len(Records(r)) \in Nat, NEW kind, NEW w \in IdsIn(Records(r), kind)
    PROVE  \E i : /\ i \in 1 .. n \/ i \in n + 1 .. Len(Records(r))
                  /\ Records(r)[i].kind = kind /\ Records(r)[i].id = w
<1>1. PICK i \in 1 .. Len(Records(r)) : Records(r)[i].kind = kind /\ Records(r)[i].id = w
  BY DEF IdsIn, IdsUpTo
<1>2. i \in 1 .. n \/ i \in n + 1 .. Len(Records(r))
  OBVIOUS
<1> QED
  BY <1>1, <1>2

\* A claim the batch may refer to is there or late.
LEMMA ClaimKnown ==
    ASSUME NEW d, NEW t, NEW sources, NEW r \in Runs, NEW n \in Nat, Len(Records(r)) \in Nat, NEW id,
           TxFitsAt(d, t, sources, r, n, id), NEW w,
           Has(t.claim, ClaimKey(ProjectOf[r], w)) \/ w \in IdsIn(Records(r), "claim")
    PROVE  \/ ClaimKey(ProjectOf[r], w) \in ClaimsOf(t.claim, ProjectOf[r])
           \/ ClaimKey(ProjectOf[r], w) \in Late(r, n, "claim")
<1>1. ClaimFits(t.claim)
  BY DEF TxFitsAt, TablesFit
<1>2. CASE Has(t.claim, ClaimKey(ProjectOf[r], w))
  BY <1>1, <1>2, ClaimOfKey
<1>3. CASE w \in IdsIn(Records(r), "claim")
  <2>1. PICK i : /\ i \in 1 .. n \/ i \in n + 1 .. Len(Records(r))
                 /\ Records(r)[i].kind = "claim" /\ Records(r)[i].id = w
    BY <1>3, CarriedSplit
  <2>2. RowOf(ProjectOf[r], Records(r)[i]) = <<"claim", ClaimKey(ProjectOf[r], w)>>
    BY <2>1, RowKeys
  <2>3. CASE i \in 1 .. n
    <3>1. Has(t.claim, ClaimKey(ProjectOf[r], w))
      BY <2>1, <2>2, <2>3, WrittenRow DEF RowTables, Has
    <3> QED
      BY <1>2, <3>1
  <2>4. CASE i \in n + 1 .. Len(Records(r))
    <3>1. RowOf(ProjectOf[r], Records(r)[i])[2] \in Late(r, n, "claim")
      BY <2>1, <2>4 DEF Late
    <3> QED
      BY <2>2, <3>1
  <2> QED
    BY <2>1, <2>3, <2>4
<1> QED
  BY <1>2, <1>3

\* And so is a node.
LEMMA NodeKnown ==
    ASSUME NEW d, NEW t, NEW sources, NEW r \in Runs, NEW n \in Nat, Len(Records(r)) \in Nat, NEW id,
           TxFitsAt(d, t, sources, r, n, id), NEW w,
           Has(t.node, <<ProjectOf[r], w>>) \/ w \in IdsIn(Records(r), "node")
    PROVE  \/ /\ Has(t.node, <<ProjectOf[r], w>>)
              /\ t.node[<<ProjectOf[r], w>>].id \in NodesOf(t.node, ProjectOf[r])
           \/ /\ ~ Has(t.node, <<ProjectOf[r], w>>)
              /\ <<ProjectOf[r], w>> \in Late(r, n, "node")
<1>1. PICK key : key = <<ProjectOf[r], w>> /\ key[1] = ProjectOf[r]
  OBVIOUS
<1>2. CASE Has(t.node, key)
  BY <1>1, <1>2 DEF NodesOf, Has
<1>3. CASE ~ Has(t.node, key)
  <2>1. PICK i : /\ i \in 1 .. n \/ i \in n + 1 .. Len(Records(r))
                 /\ Records(r)[i].kind = "node" /\ Records(r)[i].id = w
    BY <1>1, <1>3, CarriedSplit
  <2>2. RowOf(ProjectOf[r], Records(r)[i]) = <<"node", key>>
    BY <1>1, <2>1, RowKeys
  <2>3. i \notin 1 .. n
    BY <1>3, <2>1, <2>2, WrittenRow DEF RowTables, Has
  <2>4. RowOf(ProjectOf[r], Records(r)[i])[2] \in Late(r, n, "node")
    BY <2>1, <2>3 DEF Late
  <2> QED
    BY <1>1, <1>3, <2>2, <2>4
<1> QED
  BY <1>1, <1>2, <1>3

\* What is written is late no more.
LEMMA LateClaims ==
    ASSUME NEW r, NEW n, HasNext(r, n), NEW rec, rec = Records(r)[n + 1], NEW there,
           rec.kind = "claim" => ClaimKey(ProjectOf[r], rec.id) \in there
    PROVE  LateBecomes(Late(r, n, "claim"), Late(r, n + 1, "claim"), there)
<1>1. Late(r, n, "claim") = Late(r, n + 1, "claim") \cup
        (IF rec.kind = "claim" THEN {RowOf(ProjectOf[r], rec)[2]} ELSE {})
  BY LateStep DEF HasNext
<1>2. rec.kind = "claim" => RowOf(ProjectOf[r], rec)[2] = ClaimKey(ProjectOf[r], rec.id)
  BY RowKeys
<1> QED
  BY <1>1, <1>2 DEF LateBecomes

\* A record that is no node leaves the late nodes as they are,
LEMMA LateNodesOther ==
    ASSUME NEW r, NEW n, HasNext(r, n), Records(r)[n + 1].kind # "node"
    PROVE  Late(r, n, "node") = Late(r, n + 1, "node")
<1>1. Late(r, n, "node") = Late(r, n + 1, "node") \cup
        (IF Records(r)[n + 1].kind = "node" THEN {RowOf(ProjectOf[r], Records(r)[n + 1])[2]} ELSE {})
  BY LateStep DEF HasNext
<1> QED
  BY <1>1

\* and one that is no claim the late claims.
LEMMA LateClaimsOther ==
    ASSUME NEW r, NEW n, HasNext(r, n), Records(r)[n + 1].kind # "claim"
    PROVE  Late(r, n, "claim") = Late(r, n + 1, "claim")
<1>1. Late(r, n, "claim") = Late(r, n + 1, "claim") \cup
        (IF Records(r)[n + 1].kind = "claim" THEN {RowOf(ProjectOf[r], Records(r)[n + 1])[2]} ELSE {})
  BY LateStep DEF HasNext
<1> QED
  BY <1>1

-----------------------------------------------------------------------------
(* One record written.                                                     *)

\* The links stay, but for those of evidence.
LEMMA LinksStay ==
    ASSUME NEW links, NEW t, NEW u, NEW r, NEW n, HasNext(r, n), LinksAt(links, t, r, n),
           Records(r)[n + 1].kind # "evidence",
           SourcesSame(t.evidence, u.evidence), ClaimsGrow(t.claim, u.claim),
           LateBecomes(Late(r, n, "claim"), Late(r, n + 1, "claim"), ClaimsOf(u.claim, ProjectOf[r]))
    PROVE  LinksAt(links, u, r, n + 1)
<1>0. LinksTo(r, n + 1) = LinksTo(r, n) \cup
        (IF Records(r)[n + 1].kind = "evidence"
         THEN {LinkOf(ProjectOf[r], Records(r)[n + 1])} ELSE {})
  BY LinksStep DEF HasNext
<1>1. links = LinksTo(r, n + 1)
  BY <1>0 DEF LinksAt
<1>2. \A l \in links : Has(u.evidence, l[2]) /\ u.evidence[l[2]].project = ProjectOf[r]
  BY DEF LinksAt, SourcesSame, Has
<1>3. LinksLead(links, u.evidence, u.claim, ProjectOf[r], Late(r, n + 1, "claim"))
  BY LinksLeadGrow DEF LinksAt
<1> QED
  BY <1>1, <1>2, <1>3 DEF LinksAt

\* References still lead to rows, if those of the table written do.
LEMMA ResolvesStay ==
    ASSUME NEW t, NEW u, NEW r, NEW n, ResolvesAt(t, r, n),
           SourcesSame(t.source, u.source), NodesGrow(t.node, u.node), ClaimsGrow(t.claim, u.claim),
           SourcesSame(t.evidence, u.evidence), u.link = t.link,
           LateBecomes(Late(r, n, "claim"), Late(r, n + 1, "claim"), ClaimsOf(u.claim, ProjectOf[r])),
           u.content = t.content \/ ContentLeads(u.content, u.source),
           u.node = t.node
             \/ NodesLead(u.node, u.source, u.claim, ProjectOf[r], Late(r, n + 1, "claim")),
           u.relation = t.relation \/ RelationsLead(u.relation, u.node),
           \/ u.claim = t.claim /\ u.node = t.node /\ Late(r, n, "node") = Late(r, n + 1, "node")
           \/ ClaimsLead(u.claim, u.node, ProjectOf[r], Late(r, n + 1, "node")),
           u.evidence = t.evidence \/ EvidenceLeads(u.evidence, u.source)
    PROVE  ResolvesAt(u, r, n + 1)
<1>0. /\ ContentLeads(t.content, t.source)
      /\ NodesLead(t.node, t.source, t.claim, ProjectOf[r], Late(r, n, "claim"))
      /\ RelationsLead(t.relation, t.node)
      /\ ClaimsLead(t.claim, t.node, ProjectOf[r], Late(r, n, "node"))
      /\ EvidenceLeads(t.evidence, t.source)
      /\ LinksLead(t.link, t.evidence, t.claim, ProjectOf[r], Late(r, n, "claim"))
  BY DEF ResolvesAt, ResolvesBut
<1>1. ContentLeads(u.content, u.source)
  BY <1>0, ContentLeadsGrow
<1>2. NodesLead(u.node, u.source, u.claim, ProjectOf[r], Late(r, n + 1, "claim"))
  BY <1>0, NodesLeadGrow
<1>3. RelationsLead(u.relation, u.node)
  BY <1>0, RelationsLeadGrow
<1>4. ClaimsLead(u.claim, u.node, ProjectOf[r], Late(r, n + 1, "node"))
  BY <1>0
<1>5. EvidenceLeads(u.evidence, u.source)
  BY <1>0, EvidenceLeadsGrow
<1>6. LinksLead(u.link, u.evidence, u.claim, ProjectOf[r], Late(r, n + 1, "claim"))
  BY <1>0, LinksLeadGrow
<1> QED
  BY <1>1, <1>2, <1>3, <1>4, <1>5, <1>6 DEF ResolvesAt, ResolvesBut

\* The batch knows its sources as before if the record is none.
LEMMA SourcesKnownStay ==
    ASSUME NEW sources, NEW source, NEW r, NEW n, HasNext(r, n), SourcesKnown(sources, source, r, n),
           Records(r)[n + 1].kind # "source"
    PROVE  SourcesKnown(sources, source, r, n + 1)
<1>1. n \in Nat
  BY DEF HasNext
<1>0. IdsUpTo(Records(r), n + 1, "source") = IdsUpTo(Records(r), n, "source") \cup
        (IF Records(r)[n + 1].kind = "source" THEN {Records(r)[n + 1].id} ELSE {})
  BY <1>1, IdsStep
<1>2. DOMAIN sources = IdsUpTo(Records(r), n + 1, "source")
  BY <1>0 DEF SourcesKnown
<1>3. ASSUME NEW w \in DOMAIN sources
      PROVE  \E j \in 1 .. n + 1 : /\ LastSource(r, n + 1, w, j) /\ Has(source, SourceKey(r, j))
                                   /\ sources[w] = source[SourceKey(r, j)]
  <2>1. PICK j \in 1 .. n : /\ LastSource(r, n, w, j) /\ Has(source, SourceKey(r, j))
                            /\ sources[w] = source[SourceKey(r, j)]
    BY DEF SourcesKnown
  <2>2. LastSource(r, n + 1, w, j)
    BY <1>1, <2>1, LastSourceStep DEF NamesSource
  <2>3. j \in 1 .. n + 1
    BY <1>1
  <2> QED
    BY <2>1, <2>2, <2>3
<1> QED
  BY <1>2, <1>3 DEF SourcesKnown

\* A row more in the table of the record's kind is what the record stands for.
LEMMA TxStays ==
    ASSUME NEW d, NEW t, NEW u, NEW sources, NEW r, NEW n, NEW id, HasNext(r, n),
           TxFitsAt(d, t, sources, r, n, id), TablesFit(u, id),
           NEW rec, rec = Records(r)[n + 1], rec.kind \in RowTables \ {"source"}, NEW key,
           RowOf(ProjectOf[r], rec) = <<rec.kind, key>>,
           DOMAIN u[rec.kind] = DOMAIN t[rec.kind] \cup {key},
           \A name \in Tables : name # rec.kind => u[name] = t[name]
    PROVE  TxFitsAt(d, u, sources, r, n + 1, id)
<1>1. u.source = t.source /\ u.content = t.content /\ u.link = t.link /\ u.delivered = t.delivered
  BY DEF Tables, RowTables
<1>2. n \in Nat /\ rec.kind \in RowTables /\ rec.kind # "content" /\ rec.kind # "source"
  BY DEF HasNext, RowTables
<1>3. RowsIn(u) = RowsIn(t) \cup {<<rec.kind, key>>}
  <2>1. \A name \in RowTables : name # rec.kind => DOMAIN u[name] = DOMAIN t[name]
    BY DEF Tables, RowTables
  <2> QED
    BY <1>2, <2>1, RowsOne
<1>4. RowsTo(r, n + 1) = RowsTo(r, n) \cup {<<rec.kind, key>>}
  BY <1>2, RowsStep
<1>5. ContentTo(r, n + 1, u.source) = ContentTo(r, n, t.source)
  BY <1>1, <1>2, ContentStepOther
<1>6. SourcesKnown(sources, u.source, r, n + 1)
  BY <1>1, <1>2, SourcesKnownStay DEF TxFitsAt
<1> QED
  BY <1>1, <1>3, <1>4, <1>5, <1>6 DEF TxFitsAt
\* Tables that do not change, and that therefore only grow.
LEMMA Grows ==
    ASSUME NEW table
    PROVE  SourcesSame(table, table) /\ NodesGrow(table, table) /\ ClaimsGrow(table, table)
BY DEF SourcesSame, NodesGrow, ClaimsGrow, Has

\* One of the tables is another.
Changed(t, name, table) == [t EXCEPT ![name] = table]

\* Changing a table leaves the others.
LEMMA ChangedTables ==
    ASSUME NEW t, DOMAIN t = Tables, NEW name \in Tables, NEW table
    PROVE  /\ DOMAIN Changed(t, name, table) = Tables
           /\ Changed(t, name, table)[name] = table
           /\ \A other \in Tables : other # name => Changed(t, name, table)[other] = t[other]
BY DEF Changed

\* The transaction fits after a relation between two nodes that are there.
LEMMA RelationWritten ==
    ASSUME NEW d, NEW t, NEW u, NEW sources, NEW links, NEW r \in Runs, NEW n, NEW id, HasNext(r, n),
           BatchAt(d, t, sources, links, r, n, id),
           NEW rec, rec = Records(r)[n + 1], rec.kind = "relation", NEW row,
           row.project = ProjectOf[r],
           {row.from, row.to} \subseteq NodesOf(t.node, ProjectOf[r]),
           u = Changed(t, "relation", Keep(t.relation, <<ProjectOf[r], rec.id>>, row))
    PROVE  BatchAt(d, u, sources, links, r, n + 1, id)
<1>1. PICK key : key = <<ProjectOf[r], rec.id>>
  OBVIOUS
<1>2. TxFitsAt(d, t, sources, r, n, id) /\ ResolvesAt(t, r, n) /\ LinksAt(links, t, r, n)
  BY DEF BatchAt
<1>3. TablesFit(t, id) /\ DOMAIN t = Tables
  BY <1>2 DEF TxFitsAt, TablesFit
<1>4. /\ DOMAIN u = Tables /\ u.relation = Keep(t.relation, key, row)
      /\ \A other \in Tables : other # "relation" => u[other] = t[other]
  BY <1>1, <1>3, ChangedTables DEF Tables
<1>5. /\ u.source = t.source /\ u.content = t.content /\ u.node = t.node /\ u.claim = t.claim
      /\ u.evidence = t.evidence /\ u.link = t.link
  BY <1>4 DEF Tables
<1>6. TablesFit(u, id)
  <2>1. Scoped(u.relation)
    BY <1>1, <1>3, <1>4, ScopedKeep DEF TablesFit
  <2> QED
    BY <1>3, <1>4, <1>5, <2>1 DEF TablesFit
<1>7. RowOf(ProjectOf[r], rec) = <<rec.kind, key>>
  BY <1>1, RowKeys
<1>0. IsKept(u.relation, t.relation, key, row)
  BY <1>4, KeepRows
<1>8. IsKept(u.relation, t.relation, key, row) /\ DOMAIN u.relation = DOMAIN t.relation \cup {key}
  BY <1>0 DEF IsKept
<1>9. TxFitsAt(d, u, sources, r, n + 1, id)
  BY <1>2, <1>4, <1>6, <1>7, <1>8, TxStays DEF RowTables
<1>10. LateBecomes(Late(r, n, "claim"), Late(r, n + 1, "claim"), ClaimsOf(u.claim, ProjectOf[r]))
  BY LateClaims
<1>11. RelationsLead(u.relation, u.node)
  <2> SUFFICES ASSUME NEW k \in DOMAIN u.relation
               PROVE  {u.relation[k].from, u.relation[k].to}
                        \subseteq NodesOf(t.node, u.relation[k].project)
    BY <1>5 DEF RelationsLead
  <2>1. CASE k \in DOMAIN t.relation
    <3>1. u.relation[k] = t.relation[k]
      BY <1>8, <2>1 DEF IsKept
    <3> QED
      BY <1>2, <2>1, <3>1 DEF ResolvesAt, ResolvesBut, RelationsLead
  <2>2. CASE k \notin DOMAIN t.relation
    <3>1. u.relation[k] = row
      BY <1>8, <2>2 DEF IsKept, Has
    <3> QED
      BY <3>1
  <2> QED
    BY <2>1, <2>2
<1>12. ResolvesAt(u, r, n + 1)
  BY <1>2, <1>5, <1>10, <1>11, Grows, LateNodesOther, ResolvesStay
<1>13. LinksAt(links, u, r, n + 1)
  BY <1>2, <1>5, <1>10, Grows, LinksStay
<1> QED
  BY <1>9, <1>12, <1>13 DEF BatchAt

\* It fits after a piece of evidence, whose link waits with the others.
LEMMA EvidenceWritten ==
    ASSUME NEW d, NEW t, NEW u, NEW sources, NEW links, NEW r \in Runs, NEW n, NEW id, HasNext(r, n),
           BatchAt(d, t, sources, links, r, n, id),
           NEW rec, rec = Records(r)[n + 1], rec.kind = "evidence", NEW row,
           row.project = ProjectOf[r], row.source \in SourcesOf(t.source, ProjectOf[r]),
           Has(t.evidence, <<ProjectOf[r], rec.id>>)
             => t.evidence[<<ProjectOf[r], rec.id>>].project = ProjectOf[r],
           Has(t.claim, ClaimKey(ProjectOf[r], rec.claim)) \/ rec.claim \in IdsIn(Records(r), "claim"),
           u = Changed(t, "evidence", Keep(t.evidence, <<ProjectOf[r], rec.id>>, row))
    PROVE  BatchAt(d, u, sources, links \cup {LinkOf(ProjectOf[r], rec)}, r, n + 1, id)
<1>1. PICK key : key = <<ProjectOf[r], rec.id>>
  OBVIOUS
<1>2. TxFitsAt(d, t, sources, r, n, id) /\ ResolvesAt(t, r, n) /\ LinksAt(links, t, r, n)
  BY DEF BatchAt
<1>3. TablesFit(t, id) /\ DOMAIN t = Tables
  BY <1>2 DEF TxFitsAt, TablesFit
<1>4. /\ DOMAIN u = Tables /\ u.evidence = Keep(t.evidence, key, row)
      /\ \A other \in Tables : other # "evidence" => u[other] = t[other]
  BY <1>1, <1>3, ChangedTables DEF Tables
<1>5. /\ u.source = t.source /\ u.content = t.content /\ u.node = t.node /\ u.claim = t.claim
      /\ u.relation = t.relation /\ u.link = t.link
  BY <1>4 DEF Tables
<1>6. TablesFit(u, id)
  <2>1. Scoped(u.evidence)
    BY <1>1, <1>3, <1>4, ScopedKeep DEF TablesFit
  <2> QED
    BY <1>3, <1>4, <1>5, <2>1 DEF TablesFit
<1>7. RowOf(ProjectOf[r], rec) = <<rec.kind, key>>
  BY <1>1, RowKeys
<1>0. IsKept(u.evidence, t.evidence, key, row)
  BY <1>4, KeepRows
<1>8. IsKept(u.evidence, t.evidence, key, row) /\ DOMAIN u.evidence = DOMAIN t.evidence \cup {key}
  BY <1>0 DEF IsKept
<1>9. TxFitsAt(d, u, sources, r, n + 1, id)
  BY <1>2, <1>4, <1>6, <1>7, <1>8, TxStays DEF RowTables
<1>10. LateBecomes(Late(r, n, "claim"), Late(r, n + 1, "claim"), ClaimsOf(u.claim, ProjectOf[r]))
  BY LateClaims
<1>11. SourcesSame(t.evidence, u.evidence)
  BY <1>8 DEF SourcesSame, Has, IsKept
<1>12. EvidenceLeads(u.evidence, u.source)
  <2> SUFFICES ASSUME NEW k \in DOMAIN u.evidence
               PROVE  u.evidence[k].source \in SourcesOf(t.source, u.evidence[k].project)
    BY <1>5 DEF EvidenceLeads
  <2>1. CASE k \in DOMAIN t.evidence
    <3>1. u.evidence[k] = t.evidence[k]
      BY <1>8, <2>1 DEF IsKept
    <3> QED
      BY <1>2, <2>1, <3>1 DEF ResolvesAt, ResolvesBut, EvidenceLeads
  <2>2. CASE k \notin DOMAIN t.evidence
    <3>1. u.evidence[k] = row
      BY <1>8, <2>2 DEF IsKept, Has
    <3> QED
      BY <3>1
  <2> QED
    BY <2>1, <2>2
<1>13. ResolvesAt(u, r, n + 1)
  BY <1>2, <1>5, <1>10, <1>11, <1>12, Grows, LateNodesOther, ResolvesStay
<1>14. key \in DOMAIN u.evidence /\ u.evidence[key].project = ProjectOf[r]
  <2>1. CASE Has(t.evidence, key)
    BY <1>1, <1>8, <2>1 DEF Has, IsKept
  <2>2. CASE ~ Has(t.evidence, key)
    BY <1>8, <2>2 DEF IsKept
  <2> QED
    BY <2>1, <2>2
<1>15. \/ ClaimKey(ProjectOf[r], rec.claim) \in ClaimsOf(u.claim, ProjectOf[r])
       \/ ClaimKey(ProjectOf[r], rec.claim) \in Late(r, n + 1, "claim")
  BY <1>2, <1>5, <1>10, ClaimKnown DEF HasNext, LateBecomes
<1>22. PICK link : link = LinkOf(ProjectOf[r], rec)
  OBVIOUS
<1>16. link = LinkOf(ProjectOf[r], rec) /\ link[2] = key
       /\ link[1] = ClaimKey(ProjectOf[r], rec.claim)
  BY <1>22, <1>1 DEF LinkOf
<1>17. LinksLead(links, u.evidence, u.claim, ProjectOf[r], Late(r, n + 1, "claim"))
  BY <1>2, <1>5, <1>10, <1>11, Grows, LinksLeadGrow DEF LinksAt
<1>18. LinksLead(links \cup {link}, u.evidence, u.claim, ProjectOf[r], Late(r, n + 1, "claim"))
  BY <1>14, <1>15, <1>16, <1>17 DEF LinksLead, Has
<1>19. links \cup {link} = LinksTo(r, n + 1)
  BY <1>2, <1>16, LinksStep DEF LinksAt, HasNext
<1>20. \A l \in links \cup {link} : Has(u.evidence, l[2]) /\ u.evidence[l[2]].project = ProjectOf[r]
  BY <1>2, <1>11, <1>14, <1>16 DEF LinksAt, SourcesSame, Has
<1>21. LinksAt(links \cup {link}, u, r, n + 1)
  BY <1>18, <1>19, <1>20 DEF LinksAt
<1> QED
  BY <1>9, <1>13, <1>16, <1>21 DEF BatchAt

\* It fits after a claim, new or there, whose subject may still be late.
LEMMA ClaimWritten ==
    ASSUME NEW d, NEW t, NEW u, NEW sources, NEW links, NEW r \in Runs, NEW n, NEW id, HasNext(r, n),
           BatchAt(d, t, sources, links, r, n, id),
           NEW rec, rec = Records(r)[n + 1], rec.kind = "claim", NEW row, NEW key,
           key = ClaimKey(ProjectOf[r], rec.id), row.project = ProjectOf[r],
           Has(t.claim, key) => row.subject = t.claim[key].subject,
           ~ Has(t.claim, key) =>
             \/ row.subject \in NodesOf(t.node, ProjectOf[r])
             \/ row.subject \in Late(r, n, "node") /\ row.subject \notin DOMAIN t.node,
           u = Changed(t, "claim", Put(t.claim, key, row))
    PROVE  BatchAt(d, u, sources, links, r, n + 1, id)
<1>2. TxFitsAt(d, t, sources, r, n, id) /\ ResolvesAt(t, r, n) /\ LinksAt(links, t, r, n)
  BY DEF BatchAt
<1>3. TablesFit(t, id) /\ DOMAIN t = Tables /\ ClaimFits(t.claim)
  BY <1>2 DEF TxFitsAt, TablesFit
<1>4. /\ DOMAIN u = Tables /\ u.claim = Put(t.claim, key, row)
      /\ \A other \in Tables : other # "claim" => u[other] = t[other]
  BY <1>3, ChangedTables DEF Tables
<1>5. /\ u.source = t.source /\ u.content = t.content /\ u.node = t.node
      /\ u.evidence = t.evidence /\ u.relation = t.relation /\ u.link = t.link
  BY <1>4 DEF Tables
<1>6. Has(t.claim, key) => t.claim[key].project = ProjectOf[r]
  BY <1>3, ClaimOfKey
<1>7. ClaimFits(u.claim) /\ ClaimsGrow(t.claim, u.claim)
  BY <1>3, <1>4, <1>6, ClaimPut
<1>8. TablesFit(u, id)
  BY <1>3, <1>4, <1>5, <1>7 DEF TablesFit
<1>9. RowOf(ProjectOf[r], rec) = <<rec.kind, key>>
  BY RowKeys
<1>0. IsPut(u.claim, t.claim, key, row)
  BY <1>4, PutRows
<1>10. DOMAIN u.claim = DOMAIN t.claim \cup {key} /\ u.claim[key] = row
       /\ \A k \in DOMAIN t.claim : k # key => u.claim[k] = t.claim[k]
  BY <1>0 DEF IsPut
<1>11. TxFitsAt(d, u, sources, r, n + 1, id)
  BY <1>2, <1>4, <1>8, <1>9, <1>10, TxStays DEF RowTables
<1>12. key \in ClaimsOf(u.claim, ProjectOf[r])
  BY <1>10 DEF ClaimsOf
<1>13. LateBecomes(Late(r, n, "claim"), Late(r, n + 1, "claim"), ClaimsOf(u.claim, ProjectOf[r]))
  BY <1>12, LateClaims
<1>14. Late(r, n, "node") = Late(r, n + 1, "node")
  BY LateNodesOther
<1>15. ClaimsLead(u.claim, u.node, ProjectOf[r], Late(r, n + 1, "node"))
  <2> SUFFICES ASSUME NEW k \in DOMAIN u.claim \ DOMAIN Legacy.claim
               PROVE  \/ u.claim[k].subject \in NodesOf(t.node, u.claim[k].project)
                      \/ /\ u.claim[k].project = ProjectOf[r] /\ u.claim[k].subject \in Late(r, n, "node")
                         /\ u.claim[k].subject \notin DOMAIN t.node
    BY <1>5, <1>14 DEF ClaimsLead
  <2>1. ASSUME k \in DOMAIN t.claim
        PROVE  \/ t.claim[k].subject \in NodesOf(t.node, t.claim[k].project)
               \/ /\ t.claim[k].project = ProjectOf[r] /\ t.claim[k].subject \in Late(r, n, "node")
                  /\ t.claim[k].subject \notin DOMAIN t.node
    BY <1>2, <2>1 DEF ResolvesAt, ResolvesBut, ClaimsLead
  <2>2. CASE k = key
    <3>1. CASE Has(t.claim, key)
      BY <1>6, <1>10, <2>1, <2>2, <3>1 DEF Has
    <3>2. CASE ~ Has(t.claim, key)
      BY <1>10, <2>2, <3>2
    <3> QED
      BY <3>1, <3>2
  <2>3. CASE k # key
    BY <1>10, <2>1, <2>3
  <2> QED
    BY <2>2, <2>3
<1>16. ResolvesAt(u, r, n + 1)
  BY <1>2, <1>5, <1>7, <1>13, <1>15, Grows, ResolvesStay
<1>17. LinksAt(links, u, r, n + 1)
  BY <1>2, <1>5, <1>7, <1>13, Grows, LinksStay
<1> QED
  BY <1>11, <1>16, <1>17 DEF BatchAt

\* It fits after a node: the claims about it that waited have their subject now.
LEMMA NodeWritten ==
    ASSUME NEW d, NEW t, NEW u, NEW sources, NEW links, NEW r \in Runs, NEW n, NEW id, HasNext(r, n),
           BatchAt(d, t, sources, links, r, n, id),
           NEW rec, rec = Records(r)[n + 1], rec.kind = "node", NEW row, NEW key,
           key = <<ProjectOf[r], rec.id>>, NEW ss, NEW cs,
           row.id = IF Has(t.node, key) THEN t.node[key].id ELSE key,
           row.sources \subseteq
             ss \cup (IF Has(t.node, key) THEN t.node[key].sources ELSE {}),
           row.claims \subseteq
             cs \cup (IF Has(t.node, key) THEN t.node[key].claims ELSE {}),
           ss \subseteq SourcesOf(t.source, ProjectOf[r]),
           cs \subseteq ClaimsOf(t.claim, ProjectOf[r]) \cup Late(r, n, "claim"),
           u = Changed(t, "node", Put(t.node, key, row))
    PROVE  BatchAt(d, u, sources, links, r, n + 1, id)
<1>2. TxFitsAt(d, t, sources, r, n, id) /\ ResolvesAt(t, r, n) /\ LinksAt(links, t, r, n)
  BY DEF BatchAt
<1>3. TablesFit(t, id) /\ DOMAIN t = Tables /\ NodeFits(t.node)
  BY <1>2 DEF TxFitsAt, TablesFit
<1>4. /\ DOMAIN u = Tables /\ u.node = Put(t.node, key, row)
      /\ \A other \in Tables : other # "node" => u[other] = t[other]
  BY <1>3, ChangedTables DEF Tables
<1>5. /\ u.source = t.source /\ u.content = t.content /\ u.claim = t.claim
      /\ u.evidence = t.evidence /\ u.relation = t.relation /\ u.link = t.link
  BY <1>4 DEF Tables
<1>6. ProjectOf[r] # "raw" /\ key[1] = ProjectOf[r]
  BY IngestionAssumption
<1>7. NodeFits(u.node) /\ NodesGrow(t.node, u.node)
  BY <1>3, <1>4, <1>6, NodePut
<1>8. TablesFit(u, id)
  BY <1>3, <1>4, <1>5, <1>7 DEF TablesFit
<1>9. RowOf(ProjectOf[r], rec) = <<rec.kind, key>>
  BY RowKeys
<1>0. IsPut(u.node, t.node, key, row)
  BY <1>4, PutRows
<1>10. DOMAIN u.node = DOMAIN t.node \cup {key} /\ u.node[key] = row
       /\ \A k \in DOMAIN t.node : k # key => u.node[k] = t.node[k]
  BY <1>0 DEF IsPut
<1>11. TxFitsAt(d, u, sources, r, n + 1, id)
  BY <1>2, <1>4, <1>8, <1>9, <1>10, TxStays DEF RowTables
<1>12. LateBecomes(Late(r, n, "claim"), Late(r, n + 1, "claim"), ClaimsOf(u.claim, ProjectOf[r]))
  BY LateClaims
<1>13. Late(r, n, "claim") = Late(r, n + 1, "claim")
  BY LateClaimsOther
<1>14. NodesLead(u.node, u.source, u.claim, ProjectOf[r], Late(r, n + 1, "claim"))
  <2> SUFFICES ASSUME NEW k \in DOMAIN u.node
               PROVE  /\ u.node[k].sources \subseteq SourcesOf(t.source, k[1])
                      /\ \A c \in u.node[k].claims :
                           c \in ClaimsOf(t.claim, k[1]) \/ (k[1] = ProjectOf[r] /\ c \in Late(r, n, "claim"))
    BY <1>5, <1>13 DEF NodesLead
  <2>1. ASSUME k \in DOMAIN t.node
        PROVE  /\ t.node[k].sources \subseteq SourcesOf(t.source, k[1])
               /\ \A c \in t.node[k].claims :
                    c \in ClaimsOf(t.claim, k[1]) \/ (k[1] = ProjectOf[r] /\ c \in Late(r, n, "claim"))
    BY <1>2, <2>1 DEF ResolvesAt, ResolvesBut, NodesLead
  <2>2. CASE k = key
    <3>1. CASE Has(t.node, key)
      BY <1>6, <1>10, <2>1, <2>2, <3>1 DEF Has
    <3>2. CASE ~ Has(t.node, key)
      BY <1>6, <1>10, <2>2, <3>2
    <3> QED
      BY <3>1, <3>2
  <2>3. CASE k # key
    BY <1>10, <2>1, <2>3
  <2> QED
    BY <2>2, <2>3
<1>15. ClaimsLead(u.claim, u.node, ProjectOf[r], Late(r, n + 1, "node"))
  <2> SUFFICES ASSUME NEW k \in DOMAIN t.claim \ DOMAIN Legacy.claim
               PROVE  \/ t.claim[k].subject \in NodesOf(u.node, t.claim[k].project)
                      \/ /\ t.claim[k].project = ProjectOf[r]
                         /\ t.claim[k].subject \in Late(r, n + 1, "node")
                         /\ t.claim[k].subject \notin DOMAIN u.node
    BY <1>5 DEF ClaimsLead
  <2>1. \/ t.claim[k].subject \in NodesOf(t.node, t.claim[k].project)
        \/ /\ t.claim[k].project = ProjectOf[r] /\ t.claim[k].subject \in Late(r, n, "node")
           /\ t.claim[k].subject \notin DOMAIN t.node
    BY <1>2 DEF ResolvesAt, ResolvesBut, ClaimsLead
  <2>2. CASE t.claim[k].subject \in NodesOf(t.node, t.claim[k].project)
    BY <1>7, <2>2, NodesOfGrow
  <2>3. CASE /\ t.claim[k].project = ProjectOf[r] /\ t.claim[k].subject \in Late(r, n, "node")
             /\ t.claim[k].subject \notin DOMAIN t.node
    <3>1. Late(r, n, "node") = Late(r, n + 1, "node") \cup {key}
      <4>1. RowOf(ProjectOf[r], rec)[2] = key
        BY <1>9
      <4> QED
        BY <4>1, LateStep DEF HasNext
    <3>2. CASE t.claim[k].subject = key
      <4>1. u.node[key].id = key
        BY <1>10, <2>3, <3>2 DEF Has
      <4>2. key \in NodesOf(u.node, ProjectOf[r])
        BY <1>6, <1>10, <4>1 DEF NodesOf
      <4> QED
        BY <2>3, <3>2, <4>2
    <3>3. CASE t.claim[k].subject # key
      BY <1>10, <2>3, <3>1, <3>3
    <3> QED
      BY <3>2, <3>3
  <2> QED
    BY <2>1, <2>2, <2>3
<1>16. ResolvesAt(u, r, n + 1)
  BY <1>2, <1>5, <1>7, <1>12, <1>14, <1>15, Grows, ResolvesStay
<1>17. LinksAt(links, u, r, n + 1)
  BY <1>2, <1>5, <1>12, Grows, LinksStay
<1> QED
  BY <1>11, <1>16, <1>17 DEF BatchAt

\* It fits after a source: contents written before keep the id they are keyed by.
LEMMA SourceWritten ==
    ASSUME NEW d, NEW t, NEW u, NEW sources, NEW links, NEW r \in Runs, NEW n, NEW m \in Nat, NEW id \in Nat,
           m <= id, HasNext(r, n), BatchAt(d, t, sources, links, r, n, m),
           NEW rec, rec = Records(r)[n + 1], rec.kind = "source", NEW new \in 0 .. id - 1, NEW key,
           key = <<ProjectOf[r], rec.url>>, Has(t.source, key) => new = t.source[key],
           u = Changed(t, "source", Put(t.source, key, new))
    PROVE  BatchAt(d, u, Put(sources, rec.id, new), links, r, n + 1, id)
<1>2. TxFitsAt(d, t, sources, r, n, m) /\ ResolvesAt(t, r, n) /\ LinksAt(links, t, r, n)
  BY DEF BatchAt
<1>3. TablesFit(t, m) /\ DOMAIN t = Tables /\ SourceFits(t.source, m)
  BY <1>2 DEF TxFitsAt, TablesFit
<1>4. /\ DOMAIN u = Tables /\ u.source = Put(t.source, key, new)
      /\ \A other \in Tables : other # "source" => u[other] = t[other]
  BY <1>3, ChangedTables DEF Tables
<1>5. /\ u.node = t.node /\ u.content = t.content /\ u.claim = t.claim
      /\ u.evidence = t.evidence /\ u.relation = t.relation /\ u.link = t.link
      /\ u.delivered = t.delivered
  BY <1>4 DEF Tables
<1>6. SourceFits(u.source, id) /\ SourcesSame(t.source, u.source)
  BY <1>3, <1>4, SourcePut
<1>7. TablesFit(u, id)
  BY <1>3, <1>4, <1>5, <1>6 DEF TablesFit
<1>8. n \in Nat /\ RowOf(ProjectOf[r], rec) = <<"source", key>> /\ SourceKey(r, n + 1) = key
  BY RowKeys DEF HasNext, SourceKey
<1>0. IsPut(u.source, t.source, key, new)
  BY <1>4, PutRows
<1>9. DOMAIN u.source = DOMAIN t.source \cup {key} /\ u.source[key] = new
  BY <1>0 DEF IsPut
<1>10. TxFitsAt(d, u, Put(sources, rec.id, new), r, n + 1, id)
  <2>1. SourcesSame(d.source, u.source)
    BY <1>2, <1>6 DEF TxFitsAt, SourcesSame, Has
  <2>2. RowsIn(u) = RowsIn(t) \cup {<<"source", key>>}
    <3>1. \A name \in RowTables : name # "source" => DOMAIN u[name] = DOMAIN t[name]
      BY <1>4 DEF Tables, RowTables
    <3> QED
      BY <1>9, <3>1, RowsOne DEF RowTables
  <2>3. RowsTo(r, n + 1) = RowsTo(r, n) \cup {<<"source", key>>}
    BY <1>8, RowsStep
  <2>4. ContentTo(r, n + 1, u.source) = ContentTo(r, n, t.source)
    <3>1. ASSUME NEW j \in 1 .. n, Records(r)[j].kind = "source"
          PROVE  u.source[SourceKey(r, j)] = t.source[SourceKey(r, j)]
      BY <1>2, <1>6, <1>8, <3>1, WrittenSource DEF SourcesSame
    <3>2. ContentTo(r, n, u.source) = ContentTo(r, n, t.source)
      BY <1>8, <3>1, ContentSame
    <3> QED
      BY <1>8, <3>2, ContentStepOther
  <2>5. SourcesKnown(Put(sources, rec.id, new), u.source, r, n + 1)
    <3>1. PICK after : after = Put(sources, rec.id, new)
      OBVIOUS
    <3>2. DOMAIN after = DOMAIN sources \cup {rec.id} /\ after[rec.id] = new
          /\ \A k \in DOMAIN sources : k # rec.id => after[k] = sources[k]
      <4>1. IsPut(after, sources, rec.id, new)
        BY <3>1, PutRows
      <4> QED
        BY <4>1 DEF IsPut
    <3>3. SourcesKnown(sources, t.source, r, n)
      BY <1>2 DEF TxFitsAt
    <3>4. DOMAIN after = IdsUpTo(Records(r), n + 1, "source")
      <4>1. IdsUpTo(Records(r), n + 1, "source") = IdsUpTo(Records(r), n, "source") \cup
              (IF Records(r)[n + 1].kind = "source" THEN {Records(r)[n + 1].id} ELSE {})
        BY <1>8, IdsStep
      <4> QED
        BY <3>2, <3>3, <4>1 DEF SourcesKnown
    <3>5. ASSUME NEW w \in DOMAIN after
          PROVE  \E j \in 1 .. n + 1 : /\ LastSource(r, n + 1, w, j) /\ Has(u.source, SourceKey(r, j))
                                       /\ after[w] = u.source[SourceKey(r, j)]
      <4>1. CASE w = rec.id
        <5>1. LastSource(r, n + 1, w, n + 1)
          BY <1>8, <4>1, LastSourceStep DEF NamesSource
        <5>2. n + 1 \in 1 .. n + 1
          BY <1>8
        <5> QED
          BY <1>8, <1>9, <3>2, <4>1, <5>1, <5>2 DEF Has
      <4>2. CASE w # rec.id
        <5>1. PICK j \in 1 .. n : /\ LastSource(r, n, w, j) /\ Has(t.source, SourceKey(r, j))
                                  /\ sources[w] = t.source[SourceKey(r, j)]
          BY <3>2, <3>3, <4>2 DEF SourcesKnown
        <5>2. LastSource(r, n + 1, w, j)
          BY <1>8, <4>2, <5>1, LastSourceStep DEF NamesSource
        <5>3. Has(u.source, SourceKey(r, j)) /\ u.source[SourceKey(r, j)] = t.source[SourceKey(r, j)]
          BY <1>6, <5>1 DEF SourcesSame, Has
        <5>4. after[w] = sources[w] /\ j \in 1 .. n + 1
          BY <1>8, <3>2, <4>2
        <5> QED
          BY <5>1, <5>2, <5>3, <5>4
      <4> QED
        BY <4>1, <4>2
    <3> QED
      BY <3>1, <3>4, <3>5 DEF SourcesKnown
  <2> QED
    BY <1>2, <1>5, <1>7, <2>1, <2>2, <2>3, <2>4, <2>5 DEF TxFitsAt
<1>11. LateBecomes(Late(r, n, "claim"), Late(r, n + 1, "claim"), ClaimsOf(u.claim, ProjectOf[r]))
  BY LateClaims
<1>12. ResolvesAt(u, r, n + 1)
  BY <1>2, <1>5, <1>6, <1>11, Grows, LateNodesOther, ResolvesStay
<1>13. LinksAt(links, u, r, n + 1)
  BY <1>2, <1>5, <1>11, Grows, LinksStay
<1> QED
  BY <1>10, <1>12, <1>13 DEF BatchAt

\* It fits after a content of a source the batch has named.
LEMMA ContentWritten ==
    ASSUME NEW d, NEW t, NEW u, NEW sources, NEW links, NEW r \in Runs, NEW n, NEW id, HasNext(r, n),
           BatchAt(d, t, sources, links, r, n, id),
           NEW rec, rec = Records(r)[n + 1], rec.kind = "content", rec.src \in DOMAIN sources,
           NEW key, key = <<sources[rec.src], rec.print>>,
           u = Changed(t, "content", Put(t.content, key, FileOf(key)))
    PROVE  BatchAt(d, u, sources, links, r, n + 1, id)
<1>2. TxFitsAt(d, t, sources, r, n, id) /\ ResolvesAt(t, r, n) /\ LinksAt(links, t, r, n)
  BY DEF BatchAt
<1>3. TablesFit(t, id) /\ DOMAIN t = Tables /\ SourcesKnown(sources, t.source, r, n)
  BY <1>2 DEF TxFitsAt, TablesFit
<1>4. /\ DOMAIN u = Tables /\ u.content = Put(t.content, key, FileOf(key))
      /\ \A other \in Tables : other # "content" => u[other] = t[other]
  BY <1>3, ChangedTables DEF Tables
<1>5. /\ u.source = t.source /\ u.node = t.node /\ u.claim = t.claim
      /\ u.evidence = t.evidence /\ u.relation = t.relation /\ u.link = t.link
      /\ u.delivered = t.delivered
  BY <1>4 DEF Tables
<1>6. DOMAIN u.content = DOMAIN t.content \cup {key} /\ u.content[key] = FileOf(key)
      /\ \A k \in DOMAIN t.content : k # key => u.content[k] = t.content[k]
  <2>1. IsPut(u.content, t.content, key, FileOf(key))
    BY <1>4, PutRows
  <2> QED
    BY <2>1 DEF IsPut
<1>7. TablesFit(u, id)
  <2>1. ContentFits(u.content)
    BY <1>3, <1>6 DEF TablesFit, ContentFits
  <2> QED
    BY <1>3, <1>4, <1>5, <2>1 DEF TablesFit
<1>8. n \in Nat
  BY DEF HasNext
<1>9. PICK j \in 1 .. n : /\ LastSource(r, n, rec.src, j) /\ Has(t.source, SourceKey(r, j))
                          /\ sources[rec.src] = t.source[SourceKey(r, j)]
  BY <1>3 DEF SourcesKnown
<1>10. TxFitsAt(d, u, sources, r, n + 1, id)
  <2>1. RowsIn(u) = RowsIn(t)
    BY <1>5, RowsNone DEF RowTables
  <2>2. RowsTo(r, n + 1) = RowsTo(r, n)
    <3>1. RowsTo(r, n + 1) = RowsTo(r, n) \cup
            (IF Records(r)[n + 1].kind # "content"
             THEN {RowOf(ProjectOf[r], Records(r)[n + 1])} ELSE {})
      BY <1>8, RowsStep
    <3> QED
      BY <3>1
  <2>3. ContentKey(r, n + 1, j, t.source) = key
    BY <1>9 DEF ContentKey
  <2>4. ContentTo(r, n + 1, u.source) = ContentTo(r, n, t.source) \cup {key}
    BY <1>5, <1>8, <1>9, <2>3, ContentStep
  <2>5. SourcesKnown(sources, u.source, r, n + 1)
    BY <1>3, <1>5, SourcesKnownStay
  <2> QED
    BY <1>2, <1>5, <1>6, <1>7, <2>1, <2>2, <2>4, <2>5 DEF TxFitsAt
<1>11. LateBecomes(Late(r, n, "claim"), Late(r, n + 1, "claim"), ClaimsOf(u.claim, ProjectOf[r]))
  BY LateClaims
<1>12. ContentLeads(u.content, u.source)
  <2>1. \E s \in DOMAIN t.source : t.source[s] = key[1]
    BY <1>9 DEF Has
  <2> QED
    BY <1>2, <1>5, <1>6, <2>1 DEF ResolvesAt, ResolvesBut, ContentLeads
<1>13. ResolvesAt(u, r, n + 1)
  BY <1>2, <1>5, <1>11, <1>12, Grows, LateNodesOther, ResolvesStay
<1>14. LinksAt(links, u, r, n + 1)
  BY <1>2, <1>5, <1>11, Grows, LinksStay
<1> QED
  BY <1>10, <1>13, <1>14 DEF BatchAt
-----------------------------------------------------------------------------
(* The steps that write a record.                                          *)

\* The record at hand is the next one of the run's batch.
LEMMA NextRecord ==
    ASSUME JobFits, BatchFits, Open, job.todo # <<>>
    PROVE  /\ job.run \in Runs /\ HasNext(job.run, Written) /\ Written \in Nat
           /\ Record = Records(job.run)[Written + 1] /\ Project = ProjectOf[job.run]
           /\ IsRest(Tail(job.todo), Records(job.run))
           /\ Len(Records(job.run)) - Len(Tail(job.todo)) = Written + 1
<1>1. job.run \in Runs
  BY DEF JobFits, Open, Resting
<1>2. IsRest(job.todo, Records(job.run))
  BY DEF BatchFits
<1>3. PICK b : b = Records(job.run)
  OBVIOUS
<1>4. PICK n : n = Len(b) - Len(job.todo)
  OBVIOUS
<1>5. /\ n \in Nat /\ n + 1 \in 1 .. Len(b) /\ Head(job.todo) = b[n + 1]
      /\ IsRest(Tail(job.todo), b) /\ Len(b) - Len(Tail(job.todo)) = n + 1
  BY <1>2, <1>3, <1>4, RestTail
<1>6. Len(b) \in Nat
  BY <1>2, <1>3 DEF IsRest
<1> QED
  BY <1>1, <1>3, <1>4, <1>5, <1>6 DEF HasNext, Written, Record, Project

\* What writing the record comes to, given what it does to the tables.
LEMMA WroteFits ==
    ASSUME JobFits, BatchFits, Open, job.todo # <<>>, db' = db,
           NEW u, NEW sources, NEW links, NEW published, Wrote(u, sources, links, published),
           BatchAt(db, u, sources, links, job.run, Written + 1, nextId')
    PROVE  JobFits' /\ BatchFits' /\ TxFits'
<1>1. /\ job.run \in Runs /\ IsRest(Tail(job.todo), Records(job.run))
      /\ Len(Records(job.run)) - Len(Tail(job.todo)) = Written + 1
  BY NextRecord
<1>2. /\ job'.at = "records" /\ job'.run = job.run /\ job'.todo = Tail(job.todo) /\ job'.tx = u
      /\ job'.sources = sources /\ job'.links = links /\ job'.published = published
      /\ DOMAIN job' = {"at", "run", "todo", "tx", "sources", "links", "published"}
  BY DEF Wrote
<1>3. DOMAIN u = Tables
  BY DEF BatchAt, TxFitsAt, TablesFit
<1>4. JobFits'
  BY <1>1, <1>2, <1>3 DEF JobFits
<1>5. \A i \in DOMAIN Records(job.run) : Records(job.run)[i].kind \in Kinds
  BY DEF BatchFits
<1>6. BatchFits'
  BY <1>1, <1>2, <1>5 DEF BatchFits
<1>7. Written' = Written + 1
  BY <1>1, <1>2 DEF Written
<1>8. TxFits'
  BY <1>2, <1>7 DEF TxFits
<1> QED
  BY <1>4, <1>6, <1>8

\* The ids and rows the record names, in the terms of the invariant.
LEMMA IdsAreKeys ==
    ASSUME JobFits, BatchFits, TxFits, Open, NEW w
    PROVE  /\ ClaimId(w) = ClaimKey(ProjectOf[job.run], w)
           /\ Carried("claim") = IdsIn(Records(job.run), "claim")
           /\ Carried("node") = IdsIn(Records(job.run), "node")
           /\ ClaimFits(job.tx.claim) /\ NodeFits(job.tx.node) /\ job.run \in Runs
<1>1. job.run \in Runs
  BY DEF JobFits, Open, Resting
<1>2. ClaimFits(job.tx.claim) /\ NodeFits(job.tx.node)
  BY DEF TxFits, BatchAt, TxFitsAt, TablesFit
<1>3. ClaimId(w) = ClaimKey(ProjectOf[job.run], w)
  BY <1>1, <1>2, ClaimIdIsKey DEF ClaimId, LegacyClaim, tx, Project, ScopedId
<1> QED
  BY <1>1, <1>2, <1>3 DEF Carried

\* The action on a source record does what SourceWritten is about,
LEMMA WriteSourceFits ==
    ASSUME IngestionIInv, WriteSource
    PROVE  JobFits' /\ BatchFits' /\ TxFits'
<1>1. JobFits /\ BatchFits /\ Open /\ job.todo # <<>> /\ TxFits /\ nextId \in Nat
  BY DEF IngestionIInv, WriteSource, Taking, Open, DbFits
<1>2. PICK r, n, rec, id : r = job.run /\ n = Written /\ rec = Record /\ id = SourceId(Record.url)
  OBVIOUS
<1>3. r \in Runs /\ HasNext(r, n) /\ rec = Records(r)[n + 1] /\ Project = ProjectOf[r] /\ rec.kind = "source"
  BY <1>1, <1>2, NextRecord DEF WriteSource, Taking
<1>4. PICK u : u = [tx EXCEPT !.source = Put(@, <<Project, Record.url>>, id)]
  OBVIOUS
<1>5. PICK sources : sources = Put(job.sources, Record.id, id)
  OBVIOUS
<1>6. Wrote(u, sources, job.links, job.published) /\ db' = db
      /\ nextId' = IF id = nextId THEN nextId + 1 ELSE nextId
  BY <1>2, <1>4, <1>5 DEF WriteSource
<1>7. PICK t, key : t = job.tx /\ key = <<ProjectOf[r], rec.url>>
  OBVIOUS
<1>8. u = Changed(t, "source", Put(t.source, key, id))
  BY <1>2, <1>3, <1>4, <1>7 DEF Changed, tx
<1>9. BatchAt(db, t, job.sources, job.links, r, n, nextId)
  BY <1>1, <1>2, <1>7 DEF TxFits
<1>10. SourceFits(t.source, nextId)
  BY <1>9 DEF BatchAt, TxFitsAt, TablesFit
<1>11. (Has(t.source, key) => id = t.source[key]) /\ (~ Has(t.source, key) => id = nextId)
  BY <1>2, <1>3, <1>7 DEF SourceId, tx
<1>12. PICK next : next = IF id = nextId THEN nextId + 1 ELSE nextId
  OBVIOUS
<1>13. next \in Nat /\ nextId <= next /\ id \in 0 .. next - 1
  <2>1. CASE Has(t.source, key)
    <3>1. id \in 0 .. nextId - 1
      BY <1>10, <1>11, <2>1 DEF SourceFits, Has
    <3> QED
      BY <1>1, <1>12, <3>1
  <2>2. CASE ~ Has(t.source, key)
    BY <1>1, <1>11, <1>12, <2>2
  <2> QED
    BY <2>1, <2>2
<1>14. BatchAt(db, u, sources, job.links, r, n + 1, next)
  BY <1>1, <1>2, <1>3, <1>5, <1>7, <1>8, <1>9, <1>11, <1>13, SourceWritten
<1>15. BatchAt(db, u, sources, job.links, job.run, Written + 1, nextId')
  BY <1>2, <1>6, <1>12, <1>14
<1> QED
  BY <1>1, <1>6, <1>15, WroteFits

\* and so do those on a node,
LEMMA WriteNodeFits ==
    ASSUME IngestionIInv, WriteNode
    PROVE  JobFits' /\ BatchFits' /\ TxFits'
<1>1. JobFits /\ BatchFits /\ Open /\ job.todo # <<>> /\ TxFits
  BY DEF IngestionIInv, WriteNode, Taking, Open
<1>2. PICK r, n, rec, t : r = job.run /\ n = Written /\ rec = Record /\ t = job.tx
  OBVIOUS
<1>3. /\ r \in Runs /\ HasNext(r, n) /\ rec = Records(r)[n + 1] /\ Project = ProjectOf[r]
      /\ rec.kind = "node" /\ NodeWritable(rec) /\ n \in Nat /\ Len(Records(r)) \in Nat
  BY <1>1, <1>2, NextRecord DEF WriteNode, Taking, Writable, HasNext
<1>4. PICK ss, cs, key : /\ ss = {job.sources[w] : w \in rec.srcs}
                         /\ cs = {ClaimId(w) : w \in rec.claims}
                         /\ key = <<ProjectOf[r], rec.id>>
  OBVIOUS
<1>5. PICK row : row = NodeAfter(rec.id, ss, cs)
  OBVIOUS
<1>6. PICK u : u = [tx EXCEPT !.node = Put(@, <<Project, Record.id>>, row)]
  OBVIOUS
<1>7. Wrote(u, job.sources, job.links, job.published) /\ db' = db /\ nextId' = nextId
  BY <1>2, <1>4, <1>5, <1>6 DEF WriteNode, Row
<1>8. u = Changed(t, "node", Put(t.node, key, row))
  BY <1>2, <1>3, <1>4, <1>6 DEF Changed, tx
<1>9. BatchAt(db, t, job.sources, job.links, r, n, nextId) /\ TxFitsAt(db, t, job.sources, r, n, nextId)
  BY <1>1, <1>2 DEF TxFits, BatchAt
<1>10. /\ row.id = IF Has(t.node, key) THEN t.node[key].id ELSE key
       /\ row.sources = ss \cup (IF Has(t.node, key) THEN t.node[key].sources ELSE {})
       /\ row.claims = cs \cup (IF Has(t.node, key) THEN t.node[key].claims ELSE {})
  BY <1>2, <1>3, <1>4, <1>5 DEF NodeAfter, NewNode, tx, ScopedId
<1>11. ss \subseteq SourcesOf(t.source, ProjectOf[r])
  BY <1>3, <1>4, <1>9, KnownSourceIsOurs DEF NodeWritable, KnownSource, TxFitsAt, Has
<1>12. cs \subseteq ClaimsOf(t.claim, ProjectOf[r]) \cup Late(r, n, "claim")
  <2> SUFFICES ASSUME NEW w \in rec.claims
               PROVE  ClaimId(w) \in ClaimsOf(t.claim, ProjectOf[r]) \cup Late(r, n, "claim")
    BY <1>4
  <2>1. ClaimId(w) = ClaimKey(ProjectOf[r], w) /\ Carried("claim") = IdsIn(Records(r), "claim")
    BY <1>1, <1>2, IdsAreKeys
  <2>2. Has(t.claim, ClaimKey(ProjectOf[r], w)) \/ w \in IdsIn(Records(r), "claim")
    BY <1>2, <1>3, <2>1 DEF NodeWritable, KnownClaim, tx
  <2> QED
    BY <1>3, <1>9, <2>1, <2>2, ClaimKnown
<1>13. BatchAt(db, u, job.sources, job.links, r, n + 1, nextId)
  BY <1>3, <1>4, <1>8, <1>9, <1>10, <1>11, <1>12, NodeWritten
<1> QED
  BY <1>1, <1>2, <1>7, <1>13, WroteFits

\* a relation,
LEMMA WriteRelationFits ==
    ASSUME IngestionIInv, WriteRelation
    PROVE  JobFits' /\ BatchFits' /\ TxFits'
<1>1. JobFits /\ BatchFits /\ Open /\ job.todo # <<>> /\ TxFits
  BY DEF IngestionIInv, WriteRelation, Taking, Open
<1>2. PICK r, n, rec, t : r = job.run /\ n = Written /\ rec = Record /\ t = job.tx
  OBVIOUS
<1>3. /\ r \in Runs /\ HasNext(r, n) /\ rec = Records(r)[n + 1] /\ Project = ProjectOf[r]
      /\ rec.kind = "relation" /\ RelationWritable(rec) /\ n \in Nat /\ Len(Records(r)) \in Nat
  BY <1>1, <1>2, NextRecord DEF WriteRelation, Taking, Writable, HasNext
<1>4. PICK row, key : row = NewRelation(rec) /\ key = <<ProjectOf[r], rec.id>>
  OBVIOUS
<1>5. PICK u : u = [tx EXCEPT !.relation = Keep(@, ScopedId(Project, Record.id), row)]
  OBVIOUS
<1>6. Wrote(u, job.sources, job.links, job.published) /\ db' = db /\ nextId' = nextId
  BY <1>2, <1>4, <1>5 DEF WriteRelation, Row
<1>7. u = Changed(t, "relation", Keep(t.relation, key, row))
  BY <1>2, <1>3, <1>4, <1>5 DEF Changed, tx, ScopedId
<1>8. BatchAt(db, t, job.sources, job.links, r, n, nextId) /\ TxFitsAt(db, t, job.sources, r, n, nextId)
  BY <1>1, <1>2 DEF TxFits, BatchAt
<1>9. NodeFits(t.node) /\ ProjectOf[r] # "raw"
  BY <1>3, <1>8, IngestionAssumption DEF TxFitsAt, TablesFit
<1>10. ASSUME NEW w, KnownNode(w), NodeRow(NodeId(w))
       PROVE  NodeId(w) \in NodesOf(t.node, ProjectOf[r])
  <2>0. PICK at : at = <<ProjectOf[r], w>>
    OBVIOUS
  <2>1. at = <<ProjectOf[r], w>> /\ at[1] = ProjectOf[r]
    BY <2>0
  <2>2. CASE Has(t.node, at)
    BY <1>2, <1>3, <2>1, <2>2 DEF NodeId, NodesOf, tx, Has
  <2>3. CASE ~ Has(t.node, at)
    <3>1. NodeId(w) = at
      BY <1>2, <1>3, <2>1, <2>3 DEF NodeId, ScopedId, tx
    <3>2. PICK k \in DOMAIN t.node : t.node[k].id = at
      BY <1>2, <1>10, <3>1 DEF NodeRow, tx
    <3>3. k = at
      BY <1>9, <2>1, <3>2 DEF NodeFits
    <3> QED
      BY <2>3, <3>3 DEF Has
  <2> QED
    BY <2>2, <2>3
<1>11. row.project = ProjectOf[r] /\ {row.from, row.to} \subseteq NodesOf(t.node, ProjectOf[r])
  BY <1>3, <1>4, <1>10 DEF NewRelation, RelationWritable
<1>12. BatchAt(db, u, job.sources, job.links, r, n + 1, nextId)
  BY <1>3, <1>4, <1>7, <1>8, <1>11, RelationWritten
<1> QED
  BY <1>1, <1>2, <1>6, <1>12, WroteFits

\* a claim
LEMMA WriteClaimFits ==
    ASSUME IngestionIInv, WriteClaim
    PROVE  JobFits' /\ BatchFits' /\ TxFits'
<1>1. JobFits /\ BatchFits /\ Open /\ job.todo # <<>> /\ TxFits
  BY DEF IngestionIInv, WriteClaim, Taking, Open
<1>2. PICK r, n, rec, t : r = job.run /\ n = Written /\ rec = Record /\ t = job.tx
  OBVIOUS
<1>3. /\ r \in Runs /\ HasNext(r, n) /\ rec = Records(r)[n + 1] /\ Project = ProjectOf[r]
      /\ rec.kind = "claim" /\ ClaimWritable(rec) /\ n \in Nat /\ Len(Records(r)) \in Nat
  BY <1>1, <1>2, NextRecord DEF WriteClaim, Taking, Writable, HasNext
<1>4. PICK key : key = ClaimId(rec.id) /\ key = ClaimKey(ProjectOf[r], rec.id)
  BY <1>1, <1>2, IdsAreKeys
<1>5. PICK row : row = ClaimAfter(key, rec)
  OBVIOUS
<1>6. PICK u : u = [tx EXCEPT !.claim = Put(@, key, row)]
  OBVIOUS
<1>7. Wrote(u, job.sources, job.links, job.published) /\ db' = db /\ nextId' = nextId
  BY <1>2, <1>4, <1>5, <1>6 DEF WriteClaim, Row
<1>8. u = Changed(t, "claim", Put(t.claim, key, row))
  BY <1>2, <1>6 DEF Changed, tx
<1>9. BatchAt(db, t, job.sources, job.links, r, n, nextId) /\ TxFitsAt(db, t, job.sources, r, n, nextId)
  BY <1>1, <1>2 DEF TxFits, BatchAt
<1>10. Has(t.claim, key) => /\ row.project = ProjectOf[r] /\ row.subject = t.claim[key].subject
  BY <1>2, <1>3, <1>4, <1>5 DEF ClaimAfter, ClaimWritable, Foreign, tx
<1>11. ~ Has(t.claim, key) => row.project = ProjectOf[r] /\ row.subject = NodeId(rec.node)
  BY <1>2, <1>3, <1>5 DEF ClaimAfter, NewClaim, tx
<1>12. \/ NodeId(rec.node) \in NodesOf(t.node, ProjectOf[r])
       \/ NodeId(rec.node) \in Late(r, n, "node") /\ NodeId(rec.node) \notin DOMAIN t.node
  <2>1. Has(t.node, <<ProjectOf[r], rec.node>>) \/ rec.node \in IdsIn(Records(r), "node")
    BY <1>1, <1>2, <1>3, IdsAreKeys DEF ClaimWritable, KnownNode, tx
  <2>2. \/ /\ Has(t.node, <<ProjectOf[r], rec.node>>)
           /\ t.node[<<ProjectOf[r], rec.node>>].id \in NodesOf(t.node, ProjectOf[r])
        \/ /\ ~ Has(t.node, <<ProjectOf[r], rec.node>>)
           /\ <<ProjectOf[r], rec.node>> \in Late(r, n, "node")
    BY <1>3, <1>9, <2>1, NodeKnown
  <2> QED
    BY <1>2, <1>3, <2>2 DEF NodeId, ScopedId, tx, Has
<1>13. BatchAt(db, u, job.sources, job.links, r, n + 1, nextId)
  BY <1>3, <1>4, <1>8, <1>9, <1>10, <1>11, <1>12, ClaimWritten
<1> QED
  BY <1>1, <1>2, <1>7, <1>13, WroteFits

\* and a piece of evidence.
LEMMA WriteEvidenceFits ==
    ASSUME IngestionIInv, WriteEvidence
    PROVE  JobFits' /\ BatchFits' /\ TxFits'
<1>1. JobFits /\ BatchFits /\ Open /\ job.todo # <<>> /\ TxFits
  BY DEF IngestionIInv, WriteEvidence, Taking, Open
<1>2. PICK r, n, rec, t : r = job.run /\ n = Written /\ rec = Record /\ t = job.tx
  OBVIOUS
<1>3. /\ r \in Runs /\ HasNext(r, n) /\ rec = Records(r)[n + 1] /\ Project = ProjectOf[r]
      /\ rec.kind = "evidence" /\ EvidenceWritable(rec) /\ n \in Nat /\ Len(Records(r)) \in Nat
  BY <1>1, <1>2, NextRecord DEF WriteEvidence, Taking, Writable, HasNext
<1>4. PICK row, key : row = NewEvidence(rec) /\ key = <<ProjectOf[r], rec.id>>
  OBVIOUS
<1>5. PICK u : u = [tx EXCEPT !.evidence = Keep(@, key, row)]
  OBVIOUS
<1>6. ClaimId(rec.claim) = ClaimKey(ProjectOf[r], rec.claim)
      /\ Carried("claim") = IdsIn(Records(r), "claim")
  BY <1>1, <1>2, IdsAreKeys
<1>7. PICK links : links = job.links \cup {LinkOf(ProjectOf[r], rec)}
  OBVIOUS
<1>8. Wrote(u, job.sources, links, job.published) /\ db' = db /\ nextId' = nextId
  BY <1>2, <1>3, <1>4, <1>5, <1>6, <1>7 DEF WriteEvidence, ScopedId, LinkOf
<1>9. u = Changed(t, "evidence", Keep(t.evidence, key, row))
  BY <1>2, <1>5 DEF Changed, tx
<1>10. BatchAt(db, t, job.sources, job.links, r, n, nextId) /\ TxFitsAt(db, t, job.sources, r, n, nextId)
  BY <1>1, <1>2 DEF TxFits, BatchAt
<1>11. row.project = ProjectOf[r] /\ row.source = job.sources[rec.src]
  BY <1>3, <1>4 DEF NewEvidence
<1>12. row.source \in SourcesOf(t.source, ProjectOf[r])
  BY <1>3, <1>10, <1>11, KnownSourceIsOurs DEF EvidenceWritable, KnownSource, TxFitsAt, Has
<1>13. Has(t.evidence, key) => t.evidence[key].project = ProjectOf[r]
  BY <1>2, <1>3, <1>4 DEF EvidenceWritable, Foreign, ScopedId, tx
<1>14. Has(t.claim, ClaimKey(ProjectOf[r], rec.claim)) \/ rec.claim \in IdsIn(Records(r), "claim")
  BY <1>2, <1>3, <1>6 DEF EvidenceWritable, KnownClaim, tx
<1>15. BatchAt(db, u, job.sources, links, r, n + 1, nextId)
  BY <1>3, <1>4, <1>7, <1>9, <1>10, <1>11, <1>12, <1>13, <1>14, EvidenceWritten
<1> QED
  BY <1>1, <1>2, <1>8, <1>15, WroteFits

\* A content row is written with nothing to publish, or when its file is.
LEMMA WroteContentFits ==
    ASSUME IngestionIInv, Open, job.todo # <<>>, Record.kind = "content", ContentWritable(Record),
           NEW published, WroteContent(published), db' = db, nextId' = nextId
    PROVE  JobFits' /\ BatchFits' /\ TxFits'
<1>1. JobFits /\ BatchFits /\ TxFits
  BY DEF IngestionIInv
<1>2. PICK r, n, rec, t : r = job.run /\ n = Written /\ rec = Record /\ t = job.tx
  OBVIOUS
<1>3. /\ r \in Runs /\ HasNext(r, n) /\ rec = Records(r)[n + 1]
      /\ rec.kind = "content" /\ rec.src \in DOMAIN job.sources
  BY <1>1, <1>2, NextRecord DEF ContentWritable, KnownSource, Has
<1>4. PICK key : key = <<job.sources[rec.src], rec.print>>
  OBVIOUS
<1>5. PICK u : u = [tx EXCEPT !.content = Put(@, Key, Path)]
  OBVIOUS
<1>6. Wrote(u, job.sources, job.links, published)
  BY <1>5 DEF WroteContent
<1>7. u = Changed(t, "content", Put(t.content, key, FileOf(key)))
  BY <1>2, <1>4, <1>5 DEF Changed, tx, Key, Path
<1>8. BatchAt(db, t, job.sources, job.links, r, n, nextId)
  BY <1>1, <1>2 DEF TxFits
<1>9. BatchAt(db, u, job.sources, job.links, r, n + 1, nextId)
  BY <1>3, <1>4, <1>7, <1>8, ContentWritten
<1> QED
  BY <1>1, <1>2, <1>6, <1>9, WroteFits

-----------------------------------------------------------------------------
(* The content files.                                                      *)

\* The files of a content table with one row more.
LEMMA FilesPut ==
    ASSUME NEW content, NEW key
    PROVE  /\ FileOf(key) # NoPath => FileOf(key) = key
           /\ FileOf(key) # NoPath => Files(Put(content, key, FileOf(key))) = Files(content) \cup {key}
           /\ FileOf(key) = NoPath => Files(Put(content, key, FileOf(key))) = Files(content)
<1>1. IsPut(Put(content, key, FileOf(key)), content, key, FileOf(key))
  BY PutRows
<1>2. DOMAIN Put(content, key, FileOf(key)) = DOMAIN content \cup {key}
  BY <1>1 DEF IsPut
<1>3. FileOf(key) # NoPath => FileOf(key) = key
  BY DEF FileOf
<1> QED
  BY <1>2, <1>3 DEF Files

\* A file is referenced by the row of its own key.
LEMMA ReferencedFiles ==
    ASSUME NEW t, ContentFits(t.content), NEW f, f # NoPath
    PROVE  Referenced(t, f) <=> f \in Files(t.content)
<1>1. \A k : FileOf(k) # NoPath => FileOf(k) = k
  BY DEF FileOf
<1> QED
  BY <1>1 DEF Referenced, ContentFits, Files

\* Writing any other record leaves the files and what refers to them alone.
LEMMA OtherWriterFiles ==
    ASSUME FilesFit, Open, NEW u, NEW sources, NEW links, Wrote(u, sources, links, job.published),
           u.content = job.tx.content, UNCHANGED <<db, file, damaged, litter>>
    PROVE  FilesFit'
<1>1. /\ job'.at = "records" /\ job'.tx = u /\ job'.published = job.published
      /\ job # Resting /\ job' # Resting /\ Open'
  BY DEF Wrote, Open, Resting
<1>2. Files(job'.tx.content) = Files(job.tx.content)
  BY <1>1
<1> QED
  BY <1>1, <1>2 DEF FilesFit, Intact, Has

\* A content row is written for a file that is intact, or for none.
LEMMA WriteContentRowFiles ==
    ASSUME IngestionIInv, WriteContentRow
    PROVE  FilesFit'
<1>1. FilesFit /\ Open /\ UNCHANGED <<db, file, damaged, litter>>
  BY DEF IngestionIInv, WriteContentRow, Taking, Open
<1>2. PICK key, u : key = Key /\ u = [tx EXCEPT !.content = Put(@, Key, Path)]
  OBVIOUS
<1>3. Wrote(u, job.sources, job.links, job.published)
  BY <1>2 DEF WriteContentRow, WroteContent
<1>4. DOMAIN job.tx = Tables
  BY <1>1 DEF IngestionIInv, JobFits, Open, Resting
<1>5. u.content = Put(job.tx.content, key, FileOf(key))
  BY <1>2, <1>4 DEF tx, Tables, Path
<1>6. /\ job'.at = "records" /\ job'.tx = u /\ job'.published = job.published
      /\ job # Resting /\ job' # Resting /\ Open'
  BY <1>1, <1>3 DEF Wrote, Open, Resting
<1>7. FileOf(key) = NoPath \/ Intact(FileOf(key))
  BY <1>2 DEF WriteContentRow, Path
<1>8. CASE FileOf(key) = NoPath
  <2>1. Files(job'.tx.content) = Files(job.tx.content)
    BY <1>5, <1>6, <1>8, FilesPut
  <2> QED
    BY <1>1, <1>6, <2>1 DEF FilesFit, Intact, Has
<1>9. CASE FileOf(key) # NoPath
  <2>1. FileOf(key) = key /\ Files(job'.tx.content) = Files(job.tx.content) \cup {key}
    BY <1>5, <1>6, <1>9, FilesPut
  <2>2. Intact(key)
    BY <1>7, <1>9, <2>1
  <2>3. key \in Files(db.content) \/ key \in litter \/ key \in job.published
    BY <1>1, <2>2 DEF FilesFit, Intact, Has
  <2> QED
    BY <1>1, <1>6, <2>1, <2>2, <2>3 DEF FilesFit, Intact, Has
<1> QED
  BY <1>8, <1>9

\* What is about to be replaced was not intact, hence damaged if it is referenced.
LEMMA RemoveStaleFiles ==
    ASSUME IngestionIInv, RemoveStale
    PROVE  FilesFit' /\ BatchFits'
<1>1. /\ FilesFit /\ BatchFits /\ Open /\ job.at = "publish" /\ file' = Drop(file, Path)
      /\ UNCHANGED <<db, job, nextId, damaged, litter, count>>
  BY DEF IngestionIInv, RemoveStale, Open
<1>2. ~ Intact(Path)
  BY <1>1 DEF BatchFits
<1>3. PICK path : path = Path
  OBVIOUS
<1>4. DOMAIN file' = DOMAIN file \ {path} /\ \A f \in DOMAIN file' : file'[f] = file[f]
  BY <1>1, <1>3 DEF Drop
<1>5. \A f : Intact(f) => Intact(f)'
  BY <1>2, <1>3, <1>4 DEF Intact, Has
<1>6. \A f : Intact(f)' => Intact(f)
  BY <1>4 DEF Intact, Has
<1>7. FilesFit'
  <2>1. Open' /\ job' = job
    BY <1>1 DEF Open
  <2> QED
    BY <1>1, <1>4, <1>5, <2>1 DEF FilesFit
<1>8. BatchFits'
  <2>1. job' = job /\ Path' = Path /\ Record' = Record /\ ContentWritable(Record)' = ContentWritable(Record)
    BY <1>1 DEF Path, Key, Record, ContentWritable, KnownSource
  <2>2. ~ Intact(Path)'
    BY <1>2, <1>6, <2>1 DEF Intact, Has
  <2> QED
    BY <1>1, <2>1, <2>2 DEF BatchFits, Open
<1> QED
  BY <1>7, <1>8

\* A file published is the batch's own unless a row referred to it already.
LEMMA PublishFiles ==
    ASSUME IngestionIInv, Publish
    PROVE  FilesFit'
<1>1. /\ FilesFit /\ BatchFits /\ TxFits /\ JobFits /\ Open /\ job.at = "publish"
      /\ file' = Put(file, Path, "intact") /\ damaged' = damaged \ {Path}
      /\ UNCHANGED <<db, litter>> /\ ~ Has(file, Path)
  BY DEF IngestionIInv, Publish, Open
<1>2. PICK key : key = Key
  OBVIOUS
<1>3. FileOf(key) # NoPath /\ FileOf(key) = key /\ Path = key
  BY <1>1, <1>2 DEF BatchFits, Path, FileOf
<1>4. PICK u, published :
        /\ u = [tx EXCEPT !.content = Put(@, Key, Path)]
        /\ published = IF Compensates(Path) THEN job.published \cup {Path} ELSE job.published
  OBVIOUS
<1>5. Wrote(u, job.sources, job.links, published)
  BY <1>4 DEF Publish, WroteContent
<1>6. DOMAIN job.tx = Tables
  BY <1>1 DEF JobFits, Open, Resting
<1>7. u.content = Put(job.tx.content, key, FileOf(key))
  BY <1>2, <1>4, <1>6 DEF tx, Tables, Path
<1>8. /\ job'.at = "records" /\ job'.tx = u /\ job'.published = published
      /\ job # Resting /\ job' # Resting /\ Open'
  BY <1>1, <1>5 DEF Wrote, Open, Resting
<1>9. Files(u.content) = Files(job.tx.content) \cup {key}
  BY <1>3, <1>7, FilesPut
<1>10. ContentFits(job.tx.content) /\ DOMAIN db.content \subseteq DOMAIN job.tx.content
  BY <1>1 DEF TxFits, BatchAt, TxFitsAt, TablesFit
<1>11. Compensates(Path) <=> key \notin Files(job.tx.content)
  BY <1>3, <1>10, ReferencedFiles DEF Compensates, tx
<1>12. Files(db.content) \subseteq Files(job.tx.content)
  BY <1>10 DEF Files
<1>13. published = IF key \notin Files(job.tx.content) THEN job.published \cup {key} ELSE job.published
  BY <1>3, <1>4, <1>11
<1>14. /\ DOMAIN file' = DOMAIN file \cup {key} /\ file'[key] = "intact"
       /\ \A f \in DOMAIN file : f # key => file'[f] = file[f]
  BY <1>1, <1>3 DEF Put
<1>15. \A f : (Intact(f) \/ f \in damaged) => Intact(f)' \/ f \in damaged'
  BY <1>1, <1>3, <1>14 DEF Intact, Has
<1>16. Intact(key)'
  BY <1>14 DEF Intact, Has
<1>17. NoPath \notin DOMAIN file' /\ \A f \in DOMAIN file' : file'[f] \in {"intact", "damaged"}
  BY <1>1, <1>3, <1>14 DEF FilesFit
<1>18. \A f \in Files(db'.content) : Intact(f)' \/ f \in damaged'
  BY <1>1, <1>15 DEF FilesFit
<1>19. \A f \in Files(u.content) : f \in Files(db.content) \/ f \in litter \/ f \in published
  BY <1>1, <1>9, <1>13 DEF FilesFit
<1>20. \A f \in DOMAIN file' : f \in Files(db'.content) \/ f \in litter' \/ f \in published
  BY <1>1, <1>9, <1>13, <1>14, <1>19 DEF FilesFit
<1>21. \A f \in published : f # NoPath /\ f \notin Files(db'.content)
  BY <1>1, <1>3, <1>8, <1>12, <1>13 DEF FilesFit
<1>22. published \subseteq Files(u.content)
  BY <1>1, <1>9, <1>13 DEF FilesFit
<1>23. \A f \in Files(u.content) : Intact(f)' \/ f \in damaged'
  BY <1>1, <1>9, <1>15, <1>16 DEF FilesFit
<1> QED
  BY <1>1, <1>8, <1>17, <1>18, <1>19, <1>20, <1>21, <1>22, <1>23 DEF FilesFit

\* A file damaged or deleted from outside.
LEMMA DamageFits ==
    ASSUME IngestionIInv, NEW f \in DOMAIN file, Damage(f)
    PROVE  FilesFit' /\ BatchFits'
<1>1. /\ FilesFit /\ BatchFits /\ damaged' = damaged \cup {f}
      /\ UNCHANGED <<db, job, nextId, litter>>
      /\ file' = Put(file, f, "damaged") \/ file' = Drop(file, f)
  BY DEF IngestionIInv, Damage
<1>2. /\ DOMAIN file' \subseteq DOMAIN file
      /\ \A g \in DOMAIN file' : file'[g] = file[g] \/ (g = f /\ file'[g] = "damaged")
      /\ \A g \in DOMAIN file : g # f => g \in DOMAIN file'
  BY <1>1 DEF Put, Drop
<1>3. \A g : Intact(g) \/ g \in damaged => Intact(g)' \/ g \in damaged'
  BY <1>1, <1>2 DEF Intact, Has
<1>4. \A g : Intact(g)' => Intact(g)
  BY <1>2 DEF Intact, Has
<1>5. FilesFit'
  <2>1. (Open' <=> Open) /\ job' = job
    BY <1>1 DEF Open
  <2> QED
    BY <1>1, <1>2, <1>3, <2>1 DEF FilesFit
<1>6. BatchFits'
  <2>1. job' = job /\ Path' = Path /\ Record' = Record /\ ContentWritable(Record)' = ContentWritable(Record)
    BY <1>1 DEF Path, Key, Record, ContentWritable, KnownSource
  <2>2. Intact(Path)' => Intact(Path)
    BY <1>4, <2>1 DEF Intact, Has
  <2> QED
    BY <1>1, <2>1, <2>2 DEF BatchFits, Open
<1> QED
  BY <1>5, <1>6

-----------------------------------------------------------------------------
(* Every step keeps the invariant.                                         *)

\* What is counted stays below its bound.
LEMMA CountStep ==
    ASSUME CountFits,
           \/ count' = count
           \/ Count("ingests", MaxIngests) \/ Count("damages", MaxDamages)
           \/ Count("failures", MaxFailures)
    PROVE  CountFits'
<1>1. {MaxIngests, MaxDamages, MaxFailures} \subseteq Nat
  BY IngestionAssumption
<1>2. CASE count' = count
  BY <1>2 DEF CountFits
<1>3. CASE Count("ingests", MaxIngests)
  BY <1>1, <1>3 DEF CountFits, Count
<1>4. CASE Count("damages", MaxDamages)
  BY <1>1, <1>4 DEF CountFits, Count
<1>5. CASE Count("failures", MaxFailures)
  BY <1>1, <1>5 DEF CountFits, Count
<1> QED
  BY <1>2, <1>3, <1>4, <1>5

\* Until a commit the committed tables stay as they are.
LEMMA DbStays ==
    ASSUME IngestionIInv, db' = db, nextId' \in Nat, nextId <= nextId'
    PROVE  DbFits' /\ DeliveredFits' /\ db'.delivered \subseteq Runs
<1>1. DbFits /\ DeliveredFits /\ db.delivered \subseteq Runs
  BY DEF IngestionIInv
<1>2. TablesFit(db, nextId')
  BY <1>1 DEF DbFits, TablesFit, SourceFits
<1>3. DbFits'
  BY <1>1, <1>2 DEF DbFits
<1>4. DeliveredFits'
  BY <1>1 DEF DeliveredFits, AllOrNothing
<1> QED
  BY <1>1, <1>3, <1>4

\* A record other than a content is written.
LEMMA RecordFits ==
    ASSUME IngestionIInv, RecordNext
    PROVE  IngestionIInv'
<1>1. /\ FilesFit /\ CountFits /\ nextId \in Nat
      /\ job.at = "records" /\ Open /\ DOMAIN job.tx = Tables
  BY DEF IngestionIInv, DbFits, RecordNext, WriteSource, WriteNode, WriteRelation, WriteClaim,
         WriteEvidence, Taking, Open, JobFits, Resting
<1>2. UNCHANGED <<db, file, damaged, litter, count>>
  BY DEF RecordNext, WriteSource, WriteNode, WriteRelation, WriteClaim, WriteEvidence
<1>3. nextId' \in Nat /\ nextId <= nextId'
  BY <1>1 DEF RecordNext, WriteSource, WriteNode, WriteRelation, WriteClaim, WriteEvidence
<1>4. JobFits' /\ BatchFits' /\ TxFits'
  BY WriteSourceFits, WriteNodeFits, WriteRelationFits, WriteClaimFits, WriteEvidenceFits
     DEF RecordNext
<1>5. \E u, sources, links : /\ Wrote(u, sources, links, job.published)
                             /\ u.content = job.tx.content
  <2>1. ASSUME NEW name \in {"source", "node", "relation", "claim", "evidence"}, NEW table,
               NEW sources, NEW links,
               Wrote([tx EXCEPT ![name] = table], sources, links, job.published)
        PROVE  \E u, s, l : /\ Wrote(u, s, l, job.published)
                            /\ u.content = job.tx.content
    <3>1. [tx EXCEPT ![name] = table].content = job.tx.content
      BY <1>1 DEF tx, Tables
    <3> QED
      BY <2>1, <3>1
  <2>2. CASE WriteSource
    BY <2>1, <2>2 DEF WriteSource
  <2>3. CASE WriteNode
    BY <2>1, <2>3 DEF WriteNode, Row
  <2>4. CASE WriteRelation
    BY <2>1, <2>4 DEF WriteRelation, Row
  <2>5. CASE WriteClaim
    BY <2>1, <2>5 DEF WriteClaim, Row
  <2>6. CASE WriteEvidence
    BY <2>1, <2>6 DEF WriteEvidence
  <2> QED
    BY <2>2, <2>3, <2>4, <2>5, <2>6 DEF RecordNext
<1>6. FilesFit'
  <2>1. PICK u, sources, links : Wrote(u, sources, links, job.published) /\ u.content = job.tx.content
    BY <1>5
  <2> QED
    BY <1>1, <1>2, <2>1, OtherWriterFiles
<1>7. CountFits'
  BY <1>1, <1>2, CountStep
<1> QED
  BY <1>2, <1>3, <1>4, <1>6, <1>7, DbStays DEF IngestionIInv

\* A content is written, with the steps of its file.
LEMMA ContentFit ==
    ASSUME IngestionIInv, ContentNext
    PROVE  IngestionIInv'
<1>1. JobFits /\ BatchFits /\ TxFits /\ FilesFit /\ CountFits /\ nextId \in Nat /\ Open
  BY DEF IngestionIInv, DbFits, ContentNext, WriteContentRow, WriteTemporary, RemoveStale, Publish,
         Taking, Open
<1>2. UNCHANGED <<db, nextId, count>>
  BY DEF ContentNext, WriteContentRow, WriteTemporary, RemoveStale, Publish
<1>3. DbFits' /\ DeliveredFits' /\ db'.delivered \subseteq Runs
  BY <1>1, <1>2, DbStays
<1>4. CountFits'
  BY <1>1, <1>2, CountStep
<1>5. CASE WriteContentRow
  <2>1. job.todo # <<>> /\ Record.kind = "content" /\ ContentWritable(Record)
    BY <1>5 DEF WriteContentRow, Taking, Writable
  <2>2. JobFits' /\ BatchFits' /\ TxFits'
    BY <1>1, <1>2, <1>5, <2>1, WroteContentFits DEF WriteContentRow
  <2>3. FilesFit'
    BY <1>5, WriteContentRowFiles
  <2> QED
    BY <1>3, <1>4, <2>2, <2>3 DEF IngestionIInv
<1>6. CASE WriteTemporary
  <2>1. job.todo # <<>> /\ Record.kind = "content" /\ ContentWritable(Record)
        /\ Path # NoPath /\ ~ Intact(Path) /\ job' = [job EXCEPT !.at = "publish"] /\ file' = file
        /\ UNCHANGED <<damaged, litter>> /\ job.at = "records"
    BY <1>6 DEF WriteTemporary, Taking, Writable
  <2>2. job # Resting /\ DOMAIN job = {"at", "run", "todo", "tx", "sources", "links", "published"}
    BY <1>1, <2>1 DEF JobFits, Resting
  <2>3. /\ job'.at = "publish" /\ DOMAIN job' = DOMAIN job /\ job'.run = job.run
        /\ job'.todo = job.todo /\ job'.tx = job.tx /\ job'.sources = job.sources
        /\ job'.links = job.links /\ job'.published = job.published
    BY <2>1, <2>2
  <2>4. Open' /\ job' # Resting
    BY <2>3 DEF Open, Resting
  <2>5. JobFits'
    BY <1>1, <2>2, <2>3 DEF JobFits
  <2>6. /\ Record' = Record /\ Path' = Path /\ ContentWritable(Record)' = ContentWritable(Record)
        /\ Intact(Path)' = Intact(Path)
    BY <2>1, <2>3 DEF Record, Path, Key, ContentWritable, KnownSource, Intact
  <2>7. BatchFits'
    BY <1>1, <2>1, <2>3, <2>6 DEF BatchFits
  <2>8. TxFits'
    BY <1>1, <1>2, <2>3 DEF TxFits, Written
  <2>9. FilesFit'
    BY <1>1, <1>2, <2>1, <2>2, <2>3, <2>4 DEF FilesFit, Intact
  <2> QED
    BY <1>3, <1>4, <2>5, <2>7, <2>8, <2>9 DEF IngestionIInv
<1>7. CASE RemoveStale
  <2>1. FilesFit' /\ BatchFits'
    BY <1>7, RemoveStaleFiles
  <2>2. job' = job
    BY <1>7 DEF RemoveStale
  <2>3. JobFits' /\ TxFits'
    BY <1>1, <1>2, <2>2 DEF JobFits, TxFits, Open, Written
  <2> QED
    BY <1>3, <1>4, <2>1, <2>3 DEF IngestionIInv
<1>8. CASE Publish
  <2>1. job.todo # <<>> /\ Record.kind = "content" /\ ContentWritable(Record)
    BY <1>1, <1>8 DEF Publish, BatchFits
  <2>2. \E published : WroteContent(published)
    BY <1>8 DEF Publish
  <2>3. JobFits' /\ BatchFits' /\ TxFits'
    BY <1>1, <1>2, <2>1, <2>2, WroteContentFits
  <2>4. FilesFit'
    BY <1>8, PublishFiles
  <2> QED
    BY <1>3, <1>4, <2>3, <2>4 DEF IngestionIInv
<1> QED
  BY <1>5, <1>6, <1>7, <1>8 DEF ContentNext

\* A transaction just opened holds the committed tables, and no record.
LEMMA BatchBegins ==
    ASSUME NEW d, NEW id, TablesFit(d, id), Resolves(d), NEW r \in Runs
    PROVE  BatchAt(d, d, [w \in {} |-> 0], {}, r, 0, id)
<1>1. RowsTo(r, 0) = {} /\ LinksTo(r, 0) = {} /\ IdsUpTo(Records(r), 0, "source") = {}
  <2>1. 1 .. 0 = {}
    OBVIOUS
  <2> QED
    BY <2>1 DEF RowsTo, LinksTo, IdsUpTo
<1>2. ContentTo(r, 0, d.source) = {}
  <2>1. (1 .. 0) \X (1 .. 0) = {}
    OBVIOUS
  <2> QED
    BY <2>1 DEF ContentTo
<1>3. TxFitsAt(d, d, [w \in {} |-> 0], r, 0, id)
  <2>1. SourcesKnown([w \in {} |-> 0], d.source, r, 0)
    BY <1>1 DEF SourcesKnown
  <2> QED
    BY <1>1, <1>2, <2>1 DEF TxFitsAt, SourcesSame, Has
<1>4. ResolvesAt(d, r, 0)
  <2>1. ContentLeads(d.content, d.source) /\ RelationsLead(d.relation, d.node)
    BY DEF Resolves, ContentLeads, RelationsLead
  <2>2. NodesLead(d.node, d.source, d.claim, ProjectOf[r], Late(r, 0, "claim"))
    BY DEF Resolves, NodesLead
  <2>3. ClaimsLead(d.claim, d.node, ProjectOf[r], Late(r, 0, "node"))
    BY DEF Resolves, ClaimsLead
  <2>4. EvidenceLeads(d.evidence, d.source)
    BY DEF Resolves, EvidenceLeads
  <2>5. LinksLead(d.link, d.evidence, d.claim, ProjectOf[r], Late(r, 0, "claim"))
    BY DEF Resolves, LinksLead
  <2> QED
    BY <2>1, <2>2, <2>3, <2>4, <2>5 DEF ResolvesAt, ResolvesBut
<1>5. LinksAt({}, d, r, 0)
  BY <1>1 DEF LinksAt, LinksLead
<1> QED
  BY <1>3, <1>4, <1>5 DEF BatchAt

\* A batch is taken up.
LEMMA BeginFits ==
    ASSUME IngestionIInv, NEW r \in Runs, Begin(r)
    PROVE  IngestionIInv'
<1>1. /\ DbFits /\ FilesFit /\ CountFits /\ nextId \in Nat /\ job = Resting
      /\ job' = [at |-> "records", run |-> r, todo |-> Records(r), tx |-> db,
                 sources |-> [w \in {} |-> 0], links |-> {}, published |-> {}]
      /\ UNCHANGED <<db, file, nextId, damaged, litter>>
  BY DEF IngestionIInv, Begin, DbFits
<1>2. Open' /\ job' # Resting
  BY <1>1 DEF Open, Resting
<1>3. JobFits'
  BY <1>1 DEF JobFits, DbFits, TablesFit
<1>4. BatchFits'
  BY <1>1, RecordsFit DEF BatchFits
<1>5. Written' = 0
  <2>1. Len(Records(r)) \in Nat
    BY RecordsFit DEF IsRest
  <2> QED
    BY <1>1, <2>1 DEF Written
<1>6. BatchAt(db, db, [w \in {} |-> 0], {}, r, 0, nextId)
  BY <1>1, BatchBegins DEF DbFits
<1>7. TxFits'
  BY <1>1, <1>5, <1>6 DEF TxFits
<1>8. FilesFit'
  BY <1>1, <1>2 DEF FilesFit, Intact, Has
<1>9. CountFits'
  BY <1>1, CountStep DEF Begin
<1> QED
  BY <1>1, <1>3, <1>4, <1>7, <1>8, <1>9, DbStays DEF IngestionIInv

\* What a delivered run's contents are keyed by does not change.
LEMMA DeliveredContent ==
    ASSUME NEW d, NEW e, NEW r \in Runs, SourcesSame(d.source, e.source), RowsOf(r) \subseteq RowsIn(d)
    PROVE  ContentTo(r, Len(Records(r)), e.source) = ContentTo(r, Len(Records(r)), d.source)
<1>1. Len(Records(r)) \in Nat /\ DOMAIN Records(r) = 1 .. Len(Records(r))
  BY RecordsFit DEF IsRest
<1>2. ASSUME NEW j \in 1 .. Len(Records(r)), Records(r)[j].kind = "source"
      PROVE  e.source[SourceKey(r, j)] = d.source[SourceKey(r, j)]
  <2>1. RowOf(ProjectOf[r], Records(r)[j]) = <<"source", SourceKey(r, j)>>
    BY <1>2, RowKeys DEF SourceKey
  <2>2. <<"source", SourceKey(r, j)>> \in RowsOf(r)
    BY <1>1, <1>2, <2>1 DEF RowsOf
  <2>3. SourceKey(r, j) \in DOMAIN d.source
    BY <2>2, RowsOfTable DEF RowTables
  <2> QED
    BY <2>3 DEF SourcesSame
<1> QED
  BY <1>1, <1>2, ContentSame

\* The tables a commit leaves: those of the transaction, with the links.
Committed(t, links, r) ==
    [t EXCEPT !.link = @ \cup links, !.delivered = @ \cup {r}]

\* A commit adds the links and the delivery and changes no other table.
LEMMA CommittedTables ==
    ASSUME NEW t, DOMAIN t = Tables, NEW links, NEW r, NEW e, e = Committed(t, links, r)
    PROVE  /\ DOMAIN e = Tables /\ e.link = t.link \cup links /\ e.delivered = t.delivered \cup {r}
           /\ e.source = t.source /\ e.content = t.content /\ e.node = t.node
           /\ e.relation = t.relation /\ e.claim = t.claim /\ e.evidence = t.evidence
BY DEF Committed, Tables

\* The tables e are d with the batch of r.
Lands(d, e, r, id) ==
    /\ TablesFit(e, id) /\ Resolves(e) /\ SourcesSame(d.source, e.source)
    /\ e.delivered = d.delivered \cup {r} /\ e.link = d.link \cup LinksTo(r, Len(Records(r)))
    /\ RowsIn(e) = RowsIn(d) \cup RowsOf(r)
    /\ DOMAIN e.content = DOMAIN d.content \cup ContentTo(r, Len(Records(r)), e.source)

\* With every record written nothing is late.
LEMMA BatchEnds ==
    ASSUME NEW d, NEW t, NEW sources, NEW links, NEW r \in Runs, NEW id,
           BatchAt(d, t, sources, links, r, Len(Records(r)), id),
           NEW e, e = Committed(t, links, r)
    PROVE  Lands(d, e, r, id)
<1> DEFINE n == Len(Records(r))
<1>1. n \in Nat /\ DOMAIN Records(r) = 1 .. n
  BY RecordsFit DEF IsRest
<1> HIDE DEF n
<1>2. TxFitsAt(d, t, sources, r, n, id) /\ ResolvesAt(t, r, n) /\ LinksAt(links, t, r, n)
  BY DEF BatchAt, n
<1>3. Late(r, n, "node") = {} /\ Late(r, n, "claim") = {}
  <2>1. n + 1 .. Len(Records(r)) = {}
    BY <1>1 DEF n
  <2> QED
    BY <2>1 DEF Late
<1>4. DOMAIN t = Tables
  BY <1>2 DEF TxFitsAt, TablesFit
<1>5. /\ DOMAIN e = Tables /\ e.link = t.link \cup links /\ e.delivered = t.delivered \cup {r}
      /\ e.source = t.source /\ e.content = t.content /\ e.node = t.node
      /\ e.relation = t.relation /\ e.claim = t.claim /\ e.evidence = t.evidence
  BY <1>4, CommittedTables
<1>6. TablesFit(e, id)
  BY <1>2, <1>5 DEF TxFitsAt, TablesFit
<1>7. Resolves(e)
  <2>1. /\ ContentLeads(t.content, t.source) /\ RelationsLead(t.relation, t.node)
        /\ NodesLead(t.node, t.source, t.claim, ProjectOf[r], {})
        /\ ClaimsLead(t.claim, t.node, ProjectOf[r], {}) /\ EvidenceLeads(t.evidence, t.source)
        /\ LinksLead(t.link, t.evidence, t.claim, ProjectOf[r], {})
        /\ LinksLead(links, t.evidence, t.claim, ProjectOf[r], {})
    BY <1>2, <1>3 DEF ResolvesAt, ResolvesBut, LinksAt
  <2>2. \A k \in DOMAIN e.content : \E s \in DOMAIN e.source : e.source[s] = k[1]
    BY <1>5, <2>1 DEF ContentLeads
  <2>3. \A k \in DOMAIN e.node :
          /\ e.node[k].sources \subseteq SourcesOf(e.source, k[1])
          /\ e.node[k].claims \subseteq ClaimsOf(e.claim, k[1])
    BY <1>5, <2>1 DEF NodesLead
  <2>4. \A k \in DOMAIN e.relation :
          {e.relation[k].from, e.relation[k].to} \subseteq NodesOf(e.node, e.relation[k].project)
    BY <1>5, <2>1 DEF RelationsLead
  <2>5. \A k \in DOMAIN e.claim \ DOMAIN Legacy.claim :
          e.claim[k].subject \in NodesOf(e.node, e.claim[k].project)
    BY <1>5, <2>1 DEF ClaimsLead
  <2>6. \A k \in DOMAIN e.evidence : e.evidence[k].source \in SourcesOf(e.source, e.evidence[k].project)
    BY <1>5, <2>1 DEF EvidenceLeads
  <2>7. \A l \in e.link : /\ Has(e.evidence, l[2])
                          /\ l[1] \in ClaimsOf(e.claim, e.evidence[l[2]].project)
    BY <1>5, <2>1 DEF LinksLead
  <2> QED
    BY <2>2, <2>3, <2>4, <2>5, <2>6, <2>7 DEF Resolves
<1>8. RowsIn(e) = RowsIn(d) \cup RowsOf(r)
  <2>1. RowsIn(e) = RowsIn(t)
    BY <1>5, RowsNone DEF RowTables
  <2>2. RowsOf(r) = RowsTo(r, n)
    BY <1>1 DEF RowsOf, RowsTo
  <2> QED
    BY <1>2, <2>1, <2>2 DEF TxFitsAt
<1>9. /\ SourcesSame(d.source, e.source) /\ e.delivered = d.delivered \cup {r}
      /\ e.link = d.link \cup LinksTo(r, n)
      /\ DOMAIN e.content = DOMAIN d.content \cup ContentTo(r, n, e.source)
  BY <1>2, <1>5 DEF TxFitsAt, LinksAt
<1> QED
  BY <1>6, <1>7, <1>8, <1>9 DEF n, Lands

\* What a commit commits.
LEMMA CommitEnds ==
    ASSUME IngestionIInv, Commit
    PROVE  /\ job.run \in Runs /\ db' = Committed(job.tx, job.links, job.run)
           /\ BatchAt(db, job.tx, job.sources, job.links, job.run, Len(Records(job.run)), nextId)
           /\ DOMAIN job.tx = Tables
<1>1. /\ JobFits /\ BatchFits /\ TxFits /\ Open /\ job.todo = <<>> /\ job # Resting
      /\ db' = Committed(job.tx, job.links, job.run)
  BY DEF IngestionIInv, Commit, Open, Committed, tx, Resting
<1>2. job.run \in Runs /\ DOMAIN job.tx = Tables
  BY <1>1 DEF JobFits
<1>3. Written = Len(Records(job.run))
  <2>1. Len(Records(job.run)) \in Nat
    BY <1>2, RecordsFit DEF IsRest
  <2>2. Len(<<>>) = 0
    OBVIOUS
  <2> QED
    BY <1>1, <2>1, <2>2 DEF Written
<1> QED
  BY <1>1, <1>2, <1>3 DEF TxFits

\* The batch commits: what it stands for is what the tables hold now.
LEMMA CommitFits ==
    ASSUME IngestionIInv, Commit
    PROVE  IngestionIInv'
<1>1. PICK r, t, links, sources :
        r = job.run /\ t = job.tx /\ links = job.links /\ sources = job.sources
  OBVIOUS
<1>2. /\ r \in Runs /\ BatchAt(db, t, sources, links, r, Len(Records(r)), nextId) /\ DOMAIN t = Tables
      /\ db' = Committed(t, links, r)
  BY <1>1, CommitEnds
<1>3. PICK d, e, id : d = db /\ e = db' /\ id = nextId
  OBVIOUS
<1>4. /\ TablesFit(e, id) /\ Resolves(e) /\ SourcesSame(d.source, e.source)
      /\ e.delivered = d.delivered \cup {r} /\ e.link = d.link \cup LinksTo(r, Len(Records(r)))
      /\ RowsIn(e) = RowsIn(d) \cup RowsOf(r)
      /\ DOMAIN e.content = DOMAIN d.content \cup ContentTo(r, Len(Records(r)), e.source)
  <2>1. BatchAt(d, t, sources, links, r, Len(Records(r)), id) /\ e = Committed(t, links, r)
    BY <1>2, <1>3
  <2>2. Lands(d, e, r, id)
    BY <1>2, <2>1, BatchEnds
  <2> QED
    BY <2>2 DEF Lands
<1>5. /\ job' = Resting /\ UNCHANGED <<file, nextId, damaged, litter, count>>
      /\ job.at = "records" /\ job # Resting /\ Open
  BY DEF Commit, Open, Resting
<1>6. ~ Open'
  BY <1>5 DEF Open, Resting
<1>7. /\ d.delivered \subseteq Runs /\ nextId \in Nat /\ DeliveredFits /\ FilesFit /\ CountFits
  BY <1>3 DEF IngestionIInv, DbFits
<1>8. DbFits'
  BY <1>3, <1>4, <1>5, <1>7 DEF DbFits
<1>9. DeliveredFits'
  <2>1. RowsIn(e) = RowsIn(Legacy) \cup UNION {RowsOf(q) : q \in e.delivered}
    BY <1>3, <1>4, <1>7 DEF DeliveredFits, AllOrNothing
  <2>2. ASSUME NEW q \in e.delivered
        PROVE  /\ LinksTo(q, Len(Records(q))) \subseteq e.link
               /\ ContentTo(q, Len(Records(q)), e.source) \subseteq DOMAIN e.content
    <3>1. CASE q = r
      BY <1>4, <3>1
    <3>2. CASE q \in d.delivered
      <4>1. /\ LinksTo(q, Len(Records(q))) \subseteq d.link
            /\ ContentTo(q, Len(Records(q)), d.source) \subseteq DOMAIN d.content
            /\ RowsOf(q) \subseteq RowsIn(d) /\ q \in Runs
        BY <1>3, <1>7, <3>2 DEF DeliveredFits, AllOrNothing
      <4>2. ContentTo(q, Len(Records(q)), e.source) = ContentTo(q, Len(Records(q)), d.source)
        BY <1>4, <4>1, DeliveredContent
      <4> QED
        BY <1>4, <4>1, <4>2
    <3> QED
      BY <1>4, <3>1, <3>2
  <2> QED
    BY <1>3, <2>1, <2>2 DEF DeliveredFits, AllOrNothing
<1>10. FilesFit'
  <2>1. e.content = t.content
    BY <1>2, <1>3, CommittedTables
  <2>2. Files(d.content) \subseteq Files(e.content)
    BY <1>4 DEF Files
  <2> QED
    BY <1>1, <1>3, <1>5, <1>6, <1>7, <2>1, <2>2 DEF FilesFit, Intact, Has
<1>11. db'.delivered \subseteq Runs
  BY <1>2, <1>3, <1>4, <1>7
<1>12. JobFits' /\ BatchFits' /\ TxFits' /\ CountFits'
  BY <1>5, <1>6, <1>7 DEF JobFits, BatchFits, TxFits, CountFits
<1> QED
  BY <1>8, <1>9, <1>10, <1>11, <1>12 DEF IngestionIInv

\* Once the transaction is given up only the files are left to see to.
LEMMA ClosedFits ==
    ASSUME IngestionIInv, db' = db, nextId' = nextId, JobFits', ~ Open', FilesFit',
           count' = count \/ Count("failures", MaxFailures)
    PROVE  IngestionIInv'
<1>1. BatchFits' /\ TxFits'
  BY DEF BatchFits, TxFits
<1>2. nextId \in Nat /\ CountFits
  BY DEF IngestionIInv, DbFits
<1>3. CountFits'
  BY <1>2, CountStep
<1>4. DbFits' /\ DeliveredFits' /\ db'.delivered \subseteq Runs
  BY <1>2, DbStays
<1> QED
  BY <1>1, <1>3, <1>4 DEF IngestionIInv

\* The end of a batch that does not commit.
LEMMA EndFits ==
    ASSUME IngestionIInv, EndNext, ~ Commit
    PROVE  IngestionIInv'
<1>1. JobFits /\ FilesFit
  BY DEF IngestionIInv
<1>2. CASE Reject \/ StepFails
  <2>1. /\ job' = [job EXCEPT !.at = "rollback"] /\ UNCHANGED <<db, file, nextId, damaged, litter>>
        /\ count' = count \/ Count("failures", MaxFailures)
        /\ job.at \in {"records", "publish"}
    BY <1>2 DEF Reject, StepFails, Rollback
  <2>2. job # Resting /\ DOMAIN job = {"at", "run", "todo", "tx", "sources", "links", "published"}
        /\ job.run \in Runs /\ DOMAIN job.tx = Tables
    BY <1>1, <2>1 DEF JobFits, Resting
  <2>3. /\ job'.at = "rollback" /\ DOMAIN job' = DOMAIN job /\ job'.run = job.run
        /\ job'.tx = job.tx /\ job'.published = job.published
    BY <2>1, <2>2
  <2>4. ~ Open' /\ job' # Resting
    BY <2>3 DEF Open, Resting
  <2>5. JobFits'
    BY <2>2, <2>3 DEF JobFits
  <2>6. FilesFit'
    BY <1>1, <2>1, <2>2, <2>3, <2>4 DEF FilesFit, Intact, Has
  <2> QED
    BY <2>1, <2>4, <2>5, <2>6, ClosedFits
<1>3. ASSUME job.at = "rollback", NEW f \in job.published, job' = [job EXCEPT !.published = @ \ {f}],
             UNCHANGED <<db, nextId, damaged>>, count' = count \/ Count("failures", MaxFailures),
             \/ file' = Drop(file, f) /\ litter' = litter
             \/ file' = file /\ litter' = litter \cup {f}
      PROVE  IngestionIInv'
  <2>1. job # Resting /\ DOMAIN job = {"at", "run", "todo", "tx", "sources", "links", "published"}
        /\ job.run \in Runs /\ DOMAIN job.tx = Tables
    BY <1>1, <1>3 DEF JobFits, Resting
  <2>2. /\ job'.at = "rollback" /\ DOMAIN job' = DOMAIN job /\ job'.run = job.run
        /\ job'.tx = job.tx /\ job'.published = job.published \ {f}
    BY <1>3, <2>1
  <2>3. ~ Open' /\ job' # Resting
    BY <2>2 DEF Open, Resting
  <2>4. JobFits'
    BY <2>1, <2>2 DEF JobFits
  <2>5. f \notin Files(db.content)
    BY <1>1, <1>3, <2>1 DEF FilesFit
  <2>6. /\ DOMAIN file' \subseteq DOMAIN file /\ (f \in DOMAIN file' => f \in litter')
        /\ \A g \in DOMAIN file' : file'[g] = file[g]
        /\ \A g \in DOMAIN file : g # f => g \in DOMAIN file'
        /\ litter \subseteq litter'
    BY <1>3 DEF Drop
  <2>7. FilesFit'
    <3>1. \A g \in Files(db'.content) : Intact(g)' \/ g \in damaged'
      BY <1>1, <1>3, <2>5, <2>6 DEF FilesFit, Intact, Has
    <3>2. \A g \in DOMAIN file' : g \in Files(db'.content) \/ g \in litter' \/ g \in job'.published
      BY <1>1, <1>3, <2>2, <2>6 DEF FilesFit
    <3> QED
      BY <1>1, <1>3, <2>1, <2>2, <2>3, <2>6, <3>1, <3>2 DEF FilesFit
  <2> QED
    BY <1>3, <2>3, <2>4, <2>7, ClosedFits
<1>4. ASSUME job # Resting, job' = Resting, UNCHANGED <<db, file, nextId, damaged>>,
             litter' = litter \cup job.published,
             count' = count \/ Count("failures", MaxFailures)
      PROVE  IngestionIInv'
  <2>1. ~ Open' /\ JobFits'
    BY <1>4 DEF Open, JobFits, Resting
  <2>2. FilesFit'
    BY <1>1, <1>4, <2>1 DEF FilesFit, Intact, Has
  <2> QED
    BY <1>4, <2>1, <2>2, ClosedFits
<1>5. CASE Compensate
  <2>1. CASE \E f \in job.published :
                file' = Drop(file, f) /\ job' = [job EXCEPT !.published = @ \ {f}]
    BY <1>3, <1>5, <2>1 DEF Compensate
  <2>2. CASE job.published = {} /\ job' = Resting /\ UNCHANGED file
    BY <1>4, <1>5, <2>2 DEF Compensate, Resting
  <2> QED
    BY <1>5, <2>1, <2>2 DEF Compensate
<1>6. CASE CompensateFails
  BY <1>3, <1>6 DEF CompensateFails
<1>7. CASE Crash
  BY <1>4, <1>7 DEF Crash
<1> QED
  BY <1>2, <1>5, <1>6, <1>7 DEF EndNext

\* The tables of older builds are in order, and so are their files.
LEMMA LegacyFits ==
    /\ TablesFit(Legacy, FirstId) /\ Resolves(Legacy) /\ FirstId \in Nat
    /\ Legacy.delivered = {}
<1>1. DOMAIN Legacy = Tables /\ Legacy.delivered = {} /\ Resolves(Legacy) /\ FirstId \in Nat
  BY LegacyAssumption, IngestionAssumption
<1>2. SourceFits(Legacy.source, FirstId) /\ ContentFits(Legacy.content) /\ NodeFits(Legacy.node)
  BY LegacyAssumption DEF SourceFits, ContentFits, NodeFits
<1>3. Scoped(Legacy.relation) /\ Scoped(Legacy.claim) /\ Scoped(Legacy.evidence)
  BY LegacyAssumption
<1>4. ClaimFits(Legacy.claim)
  BY <1>3 DEF ClaimFits, ClaimKey, Has
<1> QED
  BY <1>1, <1>2, <1>3, <1>4 DEF TablesFit

\* The tables of older builds satisfy the invariant.
LEMMA InitFits == Init => IngestionIInv
<1> SUFFICES ASSUME Init PROVE IngestionIInv
  OBVIOUS
<1>1. /\ db = Legacy /\ job = Resting /\ nextId = FirstId /\ damaged = {} /\ litter = {}
      /\ file = [f \in {FileOf(k) : k \in DOMAIN Legacy.content} \ {NoPath} |-> "intact"]
      /\ count = [ingests |-> 0, damages |-> 0, failures |-> 0]
  BY DEF Init
<1>2. DbFits
  BY <1>1, LegacyFits DEF DbFits
<1>3. db.delivered = {} /\ db.delivered \subseteq Runs
  BY <1>1, LegacyFits
<1>4. DeliveredFits
  <2>1. UNION {RowsOf(r) : r \in {}} = {}
    OBVIOUS
  <2>2. AllOrNothing
    BY <1>1, <1>3, <2>1 DEF AllOrNothing
  <2> QED
    BY <1>3, <2>2 DEF DeliveredFits
<1>5. ~ Open
  BY <1>1 DEF Open, Resting
<1>6. JobFits /\ BatchFits /\ TxFits
  BY <1>1, <1>5 DEF JobFits, BatchFits, TxFits
<1>7. CountFits
  <2>1. {MaxIngests, MaxDamages, MaxFailures} \subseteq Nat
    BY IngestionAssumption
  <2> QED
    BY <1>1, <2>1 DEF CountFits
<1>8. FilesFit
  <2>1. \A k : FileOf(k) # NoPath => FileOf(k) = k
    BY DEF FileOf
  <2>2. DOMAIN file = Files(db.content)
    BY <1>1, <2>1 DEF Files
  <2>3. \A f \in DOMAIN file : file[f] = "intact"
    BY <1>1
  <2>4. NoPath \notin DOMAIN file
    BY <1>1
  <2> QED
    BY <1>1, <1>5, <2>2, <2>3, <2>4 DEF FilesFit, Intact, Has
<1> QED
  BY <1>2, <1>3, <1>4, <1>6, <1>7, <1>8 DEF IngestionIInv

\* Every step keeps it.
LEMMA StepFits == IngestionIInv /\ [Next]_ivars => IngestionIInv'
<1> SUFFICES ASSUME IngestionIInv, [Next]_ivars PROVE IngestionIInv'
  OBVIOUS
<1>1. CASE \E r \in Runs : Begin(r)
  BY <1>1, BeginFits
<1>2. CASE RecordNext
  BY <1>2, RecordFits
<1>3. CASE ContentNext
  BY <1>3, ContentFit
<1>4. CASE EndNext
  BY <1>4, EndFits, CommitFits
<1>5. ASSUME NEW f \in DOMAIN file, Damage(f) PROVE IngestionIInv'
  <2>1. FilesFit' /\ BatchFits'
    BY <1>5, DamageFits
  <2>2. UNCHANGED <<db, job, nextId, litter>> /\ Count("damages", MaxDamages)
    BY <1>5 DEF Damage
  <2>3. JobFits /\ TxFits /\ CountFits /\ nextId \in Nat
    BY DEF IngestionIInv, DbFits
  <2>4. JobFits' /\ TxFits'
    BY <2>2, <2>3 DEF JobFits, TxFits, Open, Written
  <2>5. CountFits'
    BY <2>2, <2>3, CountStep
  <2>6. DbFits' /\ DeliveredFits' /\ db'.delivered \subseteq Runs
    BY <2>2, <2>3, DbStays
  <2> QED
    BY <2>1, <2>4, <2>5, <2>6 DEF IngestionIInv
<1>6. CASE UNCHANGED ivars
  <2>1. UNCHANGED <<db, file, job, nextId, damaged, litter, count>>
    BY <1>6 DEF ivars
  <2>2. JobFits /\ TxFits /\ CountFits /\ BatchFits /\ FilesFit /\ nextId \in Nat
    BY DEF IngestionIInv, DbFits
  <2>3. JobFits' /\ TxFits' /\ CountFits'
    BY <2>1, <2>2 DEF JobFits, TxFits, Open, Written, CountFits
  <2>4. BatchFits'
    BY <2>1, <2>2 DEF BatchFits, Open, Record, ContentWritable, KnownSource, Path, Key, Intact
  <2>5. FilesFit'
    BY <2>1, <2>2 DEF FilesFit, Intact, Open
  <2>6. DbFits' /\ DeliveredFits' /\ db'.delivered \subseteq Runs
    BY <2>1, <2>2, DbStays
  <2> QED
    BY <2>3, <2>4, <2>5, <2>6 DEF IngestionIInv
<1> QED
  BY <1>1, <1>2, <1>3, <1>4, <1>5, <1>6 DEF Next

\* The transaction fits at every moment.
THEOREM IngestionHolds == Spec => []IngestionIInv
BY InitFits, StepFits, PTL DEF Spec

-----------------------------------------------------------------------------
(* The safety properties.                                                  *)

\* Rows, files and deliveries of a batch are all there or none is, and a batch
\* turned away leaves no file but what a crash or a failing removal left.
THEOREM BatchInvHolds == Spec => []BatchInv
<1>1. IngestionIInv => BatchInv
  <2> SUFFICES ASSUME IngestionIInv PROVE BatchInv
    OBVIOUS
  <2>1. /\ JobFits /\ CountFits /\ BatchFits /\ DbFits /\ DeliveredFits /\ FilesFit
        /\ db.delivered \subseteq Runs
    BY DEF IngestionIInv
  <2>2. DOMAIN db = Tables /\ SourceFits(db.source, nextId) /\ ContentFits(db.content) /\ nextId \in Nat
    BY <2>1 DEF DbFits, TablesFit
  <2>3. TypeOK
    <3>1. \/ job = Resting
          \/ /\ job.at \in {"records", "publish", "rollback"} /\ job.run \in Runs
             /\ job.at = "publish" => job.todo # <<>>
             /\ DOMAIN tx = Tables
      BY <2>1 DEF JobFits, BatchFits, Open, tx
    <3>2. \A f \in DOMAIN file : file[f] \in {"intact", "damaged"}
      BY <2>1 DEF FilesFit
    <3> QED
      BY <2>1, <2>2, <3>1, <3>2 DEF TypeOK, SourceFits, CountFits
  <2>4. RejectedBatchLeavesNoFile
    <3> SUFFICES ASSUME job = Resting, NEW f \in DOMAIN file
                 PROVE  Referenced(db, f) \/ f \in litter
      BY DEF RejectedBatchLeavesNoFile
    <3>1. f # NoPath /\ (f \in Files(db.content) \/ f \in litter)
      BY <2>1 DEF FilesFit
    <3>2. FileOf(f) # NoPath => FileOf(f) = f
      BY DEF FileOf
    <3> QED
      BY <2>2, <3>1, <3>2 DEF Files, ContentFits, Referenced
  <2> QED
    BY <2>1, <2>3, <2>4 DEF BatchInv, DeliveredFits
<1> QED
  BY <1>1, IngestionHolds, PTL

\* The file of a committed content is intact, or was damaged from outside.
THEOREM CommittedContentIsIntactHolds == Spec => []CommittedContentIsIntact
<1>1. IngestionIInv => CommittedContentIsIntact
  <2> SUFFICES ASSUME IngestionIInv, NEW k \in DOMAIN db.content, db.content[k] # NoPath
               PROVE  Intact(db.content[k]) \/ db.content[k] \in damaged
    BY DEF CommittedContentIsIntact
  <2>1. ContentFits(db.content) /\ FilesFit
    BY DEF IngestionIInv, DbFits, TablesFit
  <2>2. db.content[k] = FileOf(k)
    BY <2>1 DEF ContentFits
  <2>3. FileOf(k) = k /\ k \in Files(db.content)
    BY <2>2 DEF FileOf, Files
  <2> QED
    BY <2>1, <2>2, <2>3 DEF FilesFit
<1> QED
  BY <1>1, IngestionHolds, PTL

\* No committed reference is cut or leads to another project.
THEOREM ReferencesResolveHolds == Spec => []ReferencesResolve
<1>1. IngestionIInv => ReferencesResolve
  BY DEF IngestionIInv, DbFits, ReferencesResolve
<1> QED
  BY <1>1, IngestionHolds, PTL

\* Only a commit changes the committed tables.
LEMMA OnlyCommitCommits ==
    ASSUME [Next]_ivars, db' # db
    PROVE  Commit
BY DEF Next, ivars, Begin, RecordNext, WriteSource, WriteNode, WriteRelation, WriteClaim, WriteEvidence,
       ContentNext, WriteContentRow, WriteTemporary, RemoveStale, Publish, EndNext, Reject, StepFails,
       Rollback, Compensate, CompensateFails, Crash, Damage

\* A batch that is there already changes statuses and merges lists, and adds
\* neither a row nor a link nor a content.
THEOREM RedeliveryAddsNothingHolds == Spec => RedeliveryAddsNothing
<1>1. IngestionIInv /\ [Next]_ivars =>
        [job # Resting /\ db' # db /\ job.run \in db.delivered =>
          /\ RowsIn(db') = RowsIn(db) /\ db'.link = db.link
          /\ DOMAIN db'.content = DOMAIN db.content]_ivars
  <2> SUFFICES ASSUME IngestionIInv, [Next]_ivars, db' # db, job.run \in db.delivered
               PROVE  /\ RowsIn(db') = RowsIn(db) /\ db'.link = db.link
                      /\ DOMAIN db'.content = DOMAIN db.content
    OBVIOUS
  <2>1. Commit
    BY OnlyCommitCommits
  <2>2. PICK r, t, links, sources :
          r = job.run /\ t = job.tx /\ links = job.links /\ sources = job.sources
    OBVIOUS
  <2>3. PICK d, e, id : d = db /\ e = db' /\ id = nextId
    OBVIOUS
  <2>4. /\ r \in Runs /\ BatchAt(d, t, sources, links, r, Len(Records(r)), id)
        /\ e = Committed(t, links, r)
    BY <2>1, <2>2, <2>3, CommitEnds
  <2>5. Lands(d, e, r, id)
    BY <2>4, BatchEnds
  <2>6. /\ SourcesSame(d.source, e.source) /\ e.link = d.link \cup LinksTo(r, Len(Records(r)))
        /\ RowsIn(e) = RowsIn(d) \cup RowsOf(r)
        /\ DOMAIN e.content = DOMAIN d.content \cup ContentTo(r, Len(Records(r)), e.source)
    BY <2>5 DEF Lands
  <2>7. /\ RowsOf(r) \subseteq RowsIn(d) /\ LinksTo(r, Len(Records(r))) \subseteq d.link
        /\ ContentTo(r, Len(Records(r)), d.source) \subseteq DOMAIN d.content
    BY <2>2, <2>3 DEF IngestionIInv, DeliveredFits, AllOrNothing
  <2>8. ContentTo(r, Len(Records(r)), e.source) = ContentTo(r, Len(Records(r)), d.source)
    BY <2>4, <2>6, <2>7, DeliveredContent
  <2>9. RowsIn(e) = RowsIn(d) /\ e.link = d.link /\ DOMAIN e.content = DOMAIN d.content
    BY <2>6, <2>7, <2>8
  <2> QED
    BY <2>3, <2>9
<1> QED
  BY <1>1, IngestionHolds, PTL DEF Spec, RedeliveryAddsNothing

\* What a batch that stands on its own says of its record n + 1.
LEMMA SelfContainedRecord ==
    ASSUME NEW r, SelfContained(r), NEW n \in Nat, n + 1 \in DOMAIN Records(r),
           NEW rec, rec = Records(r)[n + 1]
    PROVE  /\ rec.kind \in {"content", "evidence"} => rec.src \in IdsUpTo(Records(r), n, "source")
           /\ rec.kind = "node" => /\ rec.srcs \subseteq IdsUpTo(Records(r), n, "source")
                                   /\ rec.claims \subseteq IdsIn(Records(r), "claim")
           /\ rec.kind = "relation" => /\ rec.from \in IdsUpTo(Records(r), n, "node")
                                       /\ rec.to \in IdsUpTo(Records(r), n, "node")
                                       /\ rec.from # rec.to
           /\ rec.kind = "claim" => rec.node \in IdsIn(Records(r), "node")
           /\ rec.kind = "evidence" => rec.claim \in IdsIn(Records(r), "claim")
<1>1. (n + 1) - 1 = n
  OBVIOUS
<1>2. CASE rec.kind = "content"
  BY <1>1, <1>2 DEF SelfContained
<1>3. CASE rec.kind = "node"
  BY <1>1, <1>3 DEF SelfContained
<1>4. CASE rec.kind = "relation"
  BY <1>1, <1>4 DEF SelfContained
<1>5. CASE rec.kind = "claim"
  BY <1>1, <1>5 DEF SelfContained
<1>6. CASE rec.kind = "evidence"
  BY <1>1, <1>6 DEF SelfContained
<1> QED
  BY <1>2, <1>3, <1>4, <1>5, <1>6

\* A scoped id is taken by nobody but the project.
LEMMA ScopedIsNotForeign ==
    ASSUME NEW table, Scoped(table), NEW r \in Runs, NEW w, Has(table, <<ProjectOf[r], w>>)
    PROVE  table[<<ProjectOf[r], w>>].project = ProjectOf[r]
<1>1. ProjectOf[r] # "raw"
  BY IngestionAssumption
<1>2. PICK k : k = <<ProjectOf[r], w>>
  OBVIOUS
<1>3. k[1] = ProjectOf[r] /\ k \in DOMAIN table
  BY <1>2 DEF Has
<1>4. k[1] \in {"raw", table[k].project}
  BY <1>3 DEF Scoped
<1> QED
  BY <1>1, <1>2, <1>3, <1>4

\* Every record of a batch that stands on its own can be written.
LEMMA SelfContainedIsWritable ==
    ASSUME IngestionIInv, Open, job.todo # <<>>, SelfContained(job.run)
    PROVE  Writable(Record)
<1>1. JobFits /\ BatchFits /\ TxFits
  BY DEF IngestionIInv
<1>2. PICK r, n, rec, t, d, id :
        r = job.run /\ n = Written /\ rec = Record /\ t = job.tx /\ d = db /\ id = nextId
  OBVIOUS
<1>3. /\ r \in Runs /\ HasNext(r, n) /\ rec = Records(r)[n + 1] /\ Project = ProjectOf[r]
      /\ n \in Nat /\ Len(Records(r)) \in Nat /\ n + 1 \in 1 .. Len(Records(r))
  BY <1>1, <1>2, NextRecord DEF HasNext
<1>4. n + 1 \in DOMAIN Records(r)
  <2>1. DOMAIN Records(r) = 1 .. Len(Records(r))
    BY <1>3, RecordsFit DEF IsRest
  <2> QED
    BY <1>3, <2>1
<1>5. rec.kind \in Kinds
  BY <1>1, <1>2, <1>3, <1>4 DEF BatchFits
<1>6. TxFitsAt(d, t, job.sources, r, n, id)
  BY <1>1, <1>2 DEF TxFits, BatchAt
<1>7. /\ NodeFits(t.node) /\ ClaimFits(t.claim) /\ Scoped(t.relation) /\ Scoped(t.evidence)
      /\ DOMAIN job.sources = IdsUpTo(Records(r), n, "source")
  BY <1>6 DEF TxFitsAt, TablesFit, SourcesKnown
<1>8. ProjectOf[r] # "raw"
  BY <1>3, IngestionAssumption
<1>9. /\ Carried("claim") = IdsIn(Records(r), "claim")
      /\ Carried("node") = IdsIn(Records(r), "node")
      /\ \A w : ClaimId(w) = ClaimKey(ProjectOf[r], w)
  BY <1>1, <1>2, IdsAreKeys
<1>10. SelfContained(r)
  BY <1>2
<1>11. CASE rec.kind = "source"
  BY <1>2, <1>11 DEF Writable
<1>12. CASE rec.kind = "content"
  <2>1. rec.src \in IdsUpTo(Records(r), n, "source")
    BY <1>3, <1>4, <1>10, <1>12, SelfContainedRecord
  <2>2. ContentWritable(rec)
    BY <1>7, <2>1 DEF ContentWritable, KnownSource, Has
  <2> QED
    BY <1>2, <1>12, <2>2 DEF Writable
<1>13. CASE rec.kind = "node"
  <2>1. /\ rec.srcs \subseteq IdsUpTo(Records(r), n, "source")
        /\ rec.claims \subseteq IdsIn(Records(r), "claim")
    BY <1>3, <1>4, <1>10, <1>13, SelfContainedRecord
  <2>2. PICK at : at = <<ProjectOf[r], rec.id>>
    OBVIOUS
  <2>3. at[1] # "raw"
    BY <1>8, <2>2
  <2>4. (\E k \in DOMAIN t.node : t.node[k].id = at) => at \in DOMAIN t.node
    BY <1>7, <2>3 DEF NodeFits
  <2>5. Has(tx.node, <<Project, rec.id>>) \/ ~ NodeRow(ScopedId(Project, rec.id))
    BY <1>2, <1>3, <2>2, <2>4 DEF NodeRow, ScopedId, tx, Has
  <2>6. NodeWritable(rec)
    BY <1>7, <1>9, <2>1, <2>5 DEF NodeWritable, KnownSource, KnownClaim, Has
  <2> QED
    BY <1>2, <1>13, <2>6 DEF Writable
<1>14. CASE rec.kind = "relation"
  <2>1. /\ rec.from \in IdsUpTo(Records(r), n, "node") /\ rec.to \in IdsUpTo(Records(r), n, "node")
        /\ rec.from # rec.to
    BY <1>3, <1>4, <1>10, <1>14, SelfContainedRecord
  <2>2. ASSUME NEW w \in IdsUpTo(Records(r), n, "node") PROVE <<ProjectOf[r], w>> \in DOMAIN t.node
    <3>1. PICK i \in 1 .. n : Records(r)[i].kind = "node" /\ Records(r)[i].id = w
      BY DEF IdsUpTo
    <3>2. RowOf(ProjectOf[r], Records(r)[i]) = <<"node", <<ProjectOf[r], w>>>>
      BY <3>1, RowKeys
    <3>3. Records(r)[i].kind # "content" /\ "node" \in RowTables
      BY <3>1 DEF RowTables
    <3> QED
      BY <1>3, <1>6, <3>2, <3>3, WrittenRow
  <2>3. PICK f, g : f = <<ProjectOf[r], rec.from>> /\ g = <<ProjectOf[r], rec.to>>
    OBVIOUS
  <2>4. f \in DOMAIN t.node /\ g \in DOMAIN t.node /\ f # g
    BY <2>1, <2>2, <2>3
  <2>5. t.node[f].id # t.node[g].id
    BY <1>7, <2>4 DEF NodeFits
  <2>6. NodeId(rec.from) = t.node[f].id /\ NodeId(rec.to) = t.node[g].id
    BY <1>2, <1>3, <2>3, <2>4 DEF NodeId, tx, Has
  <2>7. NodeRow(NodeId(rec.from)) /\ NodeRow(NodeId(rec.to))
    BY <1>2, <2>4, <2>6 DEF NodeRow, tx
  <2>8. KnownNode(rec.from) /\ KnownNode(rec.to)
    BY <1>2, <1>3, <2>3, <2>4 DEF KnownNode, tx, Has
  <2>9. ~ Foreign(tx.relation, ScopedId(Project, rec.id))
    BY <1>2, <1>3, <1>7, ScopedIsNotForeign DEF Foreign, ScopedId, tx
  <2>10. RelationWritable(rec)
    BY <2>5, <2>6, <2>7, <2>8, <2>9 DEF RelationWritable
  <2> QED
    BY <1>2, <1>14, <2>10 DEF Writable
<1>15. CASE rec.kind = "claim"
  <2>1. rec.node \in IdsIn(Records(r), "node")
    BY <1>3, <1>4, <1>10, <1>15, SelfContainedRecord
  <2>2. Has(t.claim, ClaimKey(ProjectOf[r], rec.id))
          => t.claim[ClaimKey(ProjectOf[r], rec.id)].project = ProjectOf[r]
    BY <1>3, <1>7, ClaimOfKey
  <2>3. ~ Foreign(tx.claim, ClaimId(rec.id))
    BY <1>2, <1>3, <1>9, <2>2 DEF Foreign, tx
  <2>4. ClaimWritable(rec)
    BY <1>9, <2>1, <2>3 DEF ClaimWritable, KnownNode
  <2> QED
    BY <1>2, <1>15, <2>4 DEF Writable
<1>16. CASE rec.kind = "evidence"
  <2>1. rec.src \in IdsUpTo(Records(r), n, "source") /\ rec.claim \in IdsIn(Records(r), "claim")
    BY <1>3, <1>4, <1>10, <1>16, SelfContainedRecord
  <2>2. ~ Foreign(tx.evidence, ScopedId(Project, rec.id))
    BY <1>2, <1>3, <1>7, ScopedIsNotForeign DEF Foreign, ScopedId, tx
  <2>3. EvidenceWritable(rec)
    BY <1>7, <1>9, <2>1, <2>2 DEF EvidenceWritable, KnownSource, KnownClaim, Has
  <2> QED
    BY <1>2, <1>16, <2>3 DEF Writable
<1> QED
  BY <1>5, <1>11, <1>12, <1>13, <1>14, <1>15, <1>16 DEF Kinds

\* When every record is written both ends of every link are there.
LEMMA LinksHoldAtTheEnd ==
    ASSUME IngestionIInv, Open, job.todo = <<>>
    PROVE  LinksHold
<1>1. JobFits /\ BatchFits /\ TxFits /\ job # Resting
  BY DEF IngestionIInv, Open, Resting
<1>2. PICK r, n, t, links : r = job.run /\ n = Written /\ t = job.tx /\ links = job.links
  OBVIOUS
<1>3. r \in Runs /\ Len(Records(r)) \in Nat /\ n = Len(Records(r))
  <2>1. r \in Runs
    BY <1>1, <1>2 DEF JobFits
  <2>2. Len(Records(r)) \in Nat
    BY <2>1, RecordsFit DEF IsRest
  <2>3. Len(<<>>) = 0
    OBVIOUS
  <2> QED
    BY <1>2, <2>1, <2>2, <2>3 DEF Written
<1>4. Late(r, n, "claim") = {}
  <2>1. n + 1 .. Len(Records(r)) = {}
    BY <1>3
  <2> QED
    BY <2>1 DEF Late
<1>5. LinksLead(links, t.evidence, t.claim, ProjectOf[r], {})
  BY <1>1, <1>2, <1>4 DEF TxFits, BatchAt, LinksAt
<1> QED
  BY <1>2, <1>5 DEF LinksHold, LinksLead, ClaimsOf, Has, tx

\* Only a rejection and a failing call give a transaction up.
LEMMA OnlyTheseGiveUp ==
    ASSUME [Next]_ivars, job # Resting, job.at # "rollback", job'.at = "rollback"
    PROVE  Reject \/ StepFails
<1>1. CASE \E r \in Runs : Begin(r)
  BY <1>1 DEF Begin
<1>2. CASE RecordNext
  BY <1>2 DEF RecordNext, WriteSource, WriteNode, WriteRelation, WriteClaim, WriteEvidence, Row, Wrote
<1>3. CASE ContentNext
  <2>1. CASE WriteContentRow \/ Publish
    BY <2>1 DEF WriteContentRow, Publish, WroteContent, Wrote
  <2>2. CASE WriteTemporary
    <3>1. job' = [job EXCEPT !.at = "publish"]
      BY <2>2 DEF WriteTemporary
    <3> QED
      BY <3>1
  <2>3. CASE RemoveStale
    BY <2>3 DEF RemoveStale
  <2> QED
    BY <1>3, <2>1, <2>2, <2>3 DEF ContentNext
<1>4. CASE EndNext
  BY <1>4 DEF EndNext, Commit, Compensate, CompensateFails, Crash, Resting
<1>5. CASE (\E f \in DOMAIN file : Damage(f)) \/ UNCHANGED ivars
  BY <1>5 DEF Damage, ivars
<1> QED
  BY <1>1, <1>2, <1>3, <1>4, <1>5 DEF Next

\* A batch that stands on its own is never rejected, whatever other projects,
\* older builds and earlier deliveries left in the tables.
THEOREM NoNeedlessRejectionHolds == Spec => NoNeedlessRejection
<1>1. IngestionIInv /\ [Next]_ivars =>
        [job # Resting /\ job.at # "rollback" /\ job'.at = "rollback" /\ SelfContained(job.run)
          => count'.failures > count.failures]_ivars
  <2> SUFFICES ASSUME IngestionIInv, [Next]_ivars, job # Resting, job.at # "rollback",
                      job'.at = "rollback", SelfContained(job.run)
               PROVE  count'.failures > count.failures
    OBVIOUS
  <2>1. ~ Reject
    <3> SUFFICES ASSUME Reject PROVE FALSE
      OBVIOUS
    <3>1. Open
      BY DEF Reject, Open
    <3> QED
      BY <3>1, SelfContainedIsWritable, LinksHoldAtTheEnd DEF Reject
  <2>2. StepFails
    BY <2>1, OnlyTheseGiveUp
  <2>3. CountFits
    BY DEF IngestionIInv
  <2> QED
    BY <2>2, <2>3 DEF StepFails, Count, CountFits
<1> QED
  BY <1>1, IngestionHolds, PTL DEF Spec, NoNeedlessRejection
=============================================================================
