-------------------------- MODULE GenerationBundle --------------------------
(***************************************************************************)
(* The bundle of a generation: how it is fetched, and how it becomes rows. *)
(***************************************************************************)
EXTENDS Naturals, Sequences, FiniteSets, SequencesExt, FiniteSetsExt, Functions

(***************************************************************************)
(* How a bundle becomes the rows of a generation: the strict reader of     *)
(* storage/src/generation_bundle.rs, the entry contracts of                *)
(* contracts/src/knowledge_bundle.rs and the materializer of               *)
(* grpc-server/src/generation.rs, base and mutation-tail revisions.        *)
(*                                                                         *)
(* The process may die between any two durable writes of a build; the next *)
(* one opens the same RocksDB directory.  An entry's "fault" names the     *)
(* contract it breaks.                                                     *)
(***************************************************************************)

CONSTANTS
    Bundles,        \* sequences of entries
    Tails,          \* sequences of mutations
    MaxEntries,     \* limits.max_entries
    MaxLines,       \* the decoded limit, in lines
    MaxGraphNodes,
    MaxGraphEdges,
    MaxRevisions,   \* bound: revisions built
    MaxDeaths       \* bound: processes that die in a build

VARIABLES
    bundle,    \* the verified file, and what the manifest expects of it
    phase,     \* of the build's journal: Materializing, Verified or Failed
    reader,    \* consume_lines: position, header, section, last ids, counts
    hnsw,      \* the chunks of the in-memory index, in insertion order
    db,        \* the rows of the RocksDB directory
    half,      \* the record whose vector is stored and whose text is not
    tails,     \* the tails applied to the generation
    refused,   \* the tail refused last, <<>> if none
    deaths

buildVars == <<bundle, phase, reader, hnsw, db, half, tails, refused, deaths>>

-----------------------------------------------------------------------------
(* Sections, in the order of the derived Ord.                              *)
Section == [record |-> 1, node |-> 2, edge |-> 3]
NoHeader == [is |-> "none"]
NewReader ==
    [line |-> 0, head |-> NoHeader, section |-> 0, last |-> <<0, 0, 0>>, count |-> <<0, 0, 0>>]
Declared(h) == <<h.records, h.nodes, h.edges>>

NoRows == [vec |-> <<>>, txt |-> <<>>, link |-> <<>>, node |-> <<>>, edge |-> <<>>]
Put(f, k, v) == [x \in DOMAIN f \cup {k} |-> IF x = k THEN v ELSE f[x]]
Without(f, ks) == [x \in DOMAIN f \ ks |-> f[x]]
Live(d) == {c \in DOMAIN d.vec : ~d.vec[c].dead}

(* KnowledgeBundleHeader::validate and validate_against.                   *)
HeaderValid(h) == h.fault = "none"
MatchesManifest(h) == h.records = bundle.records /\ h.edges = bundle.edges
HeaderFits(h) ==
    /\ h.records + h.nodes + h.edges <= MaxEntries
    /\ h.nodes <= MaxGraphNodes /\ h.edges <= MaxGraphEdges

(* The contracts of the entries.                                           *)
RecordValid(e) == e.fault \notin {"identifier", "model", "dimensions", "number", "source_uri", "text"}
NodeValid(e) == e.fault \notin {"identifier", "size"}
EvidenceValid(ids) == ids # <<>> /\ \A n \in 1 .. Len(ids) - 1 : ids[n] < ids[n + 1]
EdgeValid(e) ==
    /\ e.fault \notin {"identifier", "interval", "source_uri", "window", "predicate"}
    /\ EvidenceValid(e.evidence)
Contract(e) ==
    CASE e.is = "record" -> RecordValid(e)
      [] e.is = "node" -> NodeValid(e)
      [] e.is = "edge" -> EdgeValid(e)

SectionHolds(next) == next >= reader.section
IdHolds(s, id) == id > reader.last[s]
CountHolds(s) == reader.count[s] + 1 <= Declared(reader.head)[s]

LineReads(e) ==
    /\ e.is # "junk"
    /\ reader.line + 1 <= MaxLines
    /\ IF e.is = "header"
       THEN reader.line = 0 /\ HeaderValid(e) /\ MatchesManifest(e) /\ HeaderFits(e)
       ELSE /\ reader.head # NoHeader
            /\ SectionHolds(Section[e.is]) /\ IdHolds(Section[e.is], e.id)
            /\ Contract(e) /\ CountHolds(Section[e.is])

LineCounted(e) ==
    IF e.is = "header" THEN [reader EXCEPT !.line = @ + 1, !.head = e]
    ELSE LET s == Section[e.is]
         IN [reader EXCEPT !.line = @ + 1, !.section = s, !.last[s] = e.id, !.count[s] = @ + 1]

-----------------------------------------------------------------------------
(* insert_identity: properties may not name another identity.              *)
IdentityHolds(e) == e.fault # "identity"

(* materialize_node: the row of a chunk needs its vector, and an id keeps  *)
(* the kind it was first stored with.                                      *)
NodeAccepted(d, e) ==
    /\ e.kind = "chunk" => e.id \in Live(d)
    /\ e.id \in DOMAIN d.link => d.link[e.id] = e.kind
    /\ IdentityHolds(e)
WithNode(d, e) ==
    [d EXCEPT !.link = Put(@, e.id, e.kind), !.node = Put(@, <<e.kind, e.id>>, e.body)]

(* materialize_edge: endpoints are found by the stored ids.                *)
EdgeAccepted(d, e) ==
    /\ {e.from, e.to} \subseteq DOMAIN d.link
    /\ Range(e.evidence) \subseteq Live(d)
    /\ IdentityHolds(e)
EdgeRow(d, e) ==
    [from |-> <<d.link[e.from], e.from>>, to |-> <<d.link[e.to], e.to>>,
     evidence |-> Range(e.evidence), body |-> e.body]
WithEdge(d, e) == [d EXCEPT !.edge = Put(@, e.id, EdgeRow(d, e))]

-----------------------------------------------------------------------------
BuildInit ==
    /\ bundle \in Bundles
    /\ phase = "Materializing" /\ reader = NewReader /\ hnsw = <<>>
    /\ db = NoRows /\ half = 0 /\ tails = <<>> /\ refused = <<>> /\ deaths = 0

(* fail_build: the journal is marked and no later attempt resumes it.      *)
FailShadow ==
    /\ phase' = "Failed" /\ reader' = NewReader /\ hnsw' = <<>> /\ half' = 0
    /\ UNCHANGED <<bundle, db, tails, refused, deaths>>

Working == phase = "Materializing" /\ half = 0
AtEnd == reader.line = Len(bundle.lines)
NextEntry == bundle.lines[reader.line + 1]

RefuseEntry ==
    /\ Working /\ ~AtEnd
    /\ LET e == NextEntry
       IN \/ ~LineReads(e)
          \/ LineReads(e) /\ e.is = "record" /\ ~IdentityHolds(e)
          \/ LineReads(e) /\ e.is = "node" /\ ~NodeAccepted(db, e)
          \/ LineReads(e) /\ e.is = "edge" /\ ~EdgeAccepted(db, e)
    /\ FailShadow

TakeHeader ==
    /\ Working /\ ~AtEnd /\ NextEntry.is = "header" /\ LineReads(NextEntry)
    /\ reader' = LineCounted(NextEntry)
    /\ UNCHANGED <<bundle, phase, hnsw, db, half, tails, refused, deaths>>

NextInternal == Len(hnsw) + 1

(* materialize_record: the index, the synced mapping and vector, ...       *)
TakeRecord ==
    /\ Working /\ ~AtEnd
    /\ LET e == NextEntry IN
       /\ e.is = "record" /\ LineReads(e) /\ IdentityHolds(e)
       /\ hnsw' = Append(hnsw, e.id)
       /\ db' = [db EXCEPT !.vec = Put(@, e.id, [at |-> NextInternal, body |-> e.body, dead |-> FALSE])]
       /\ half' = e.id
    /\ UNCHANGED <<bundle, phase, reader, tails, refused, deaths>>

(* ... and then the text.                                                  *)
StoreText ==
    /\ phase = "Materializing" /\ half # 0
    /\ db' = [db EXCEPT !.txt = Put(@, half, NextEntry.body)]
    /\ reader' = LineCounted(NextEntry)
    /\ half' = 0
    /\ UNCHANGED <<bundle, phase, hnsw, tails, refused, deaths>>

TakeNode ==
    /\ Working /\ ~AtEnd
    /\ LET e == NextEntry IN
       /\ e.is = "node" /\ LineReads(e) /\ NodeAccepted(db, e)
       /\ db' = WithNode(db, e) /\ reader' = LineCounted(e)
    /\ UNCHANGED <<bundle, phase, hnsw, half, tails, refused, deaths>>

TakeEdge ==
    /\ Working /\ ~AtEnd
    /\ LET e == NextEntry IN
       /\ e.is = "edge" /\ LineReads(e) /\ EdgeAccepted(db, e)
       /\ db' = WithEdge(db, e) /\ reader' = LineCounted(e)
    /\ UNCHANGED <<bundle, phase, hnsw, half, tails, refused, deaths>>

(* The end of the file: the declared counts, and what the indexes hold.    *)
CountsHold == reader.head # NoHeader /\ reader.count = Declared(reader.head)
IndexesHold ==
    LET n == reader.count IN
    /\ Len(hnsw) = n[1] /\ Cardinality(DOMAIN db.vec) = n[1] /\ Cardinality(DOMAIN db.txt) = n[1]
    /\ Cardinality(DOMAIN db.node) = n[2] /\ Cardinality(DOMAIN db.edge) = n[3]
EndOfBundle ==
    /\ Working /\ AtEnd
    /\ \/ /\ CountsHold /\ IndexesHold
          /\ phase' = "Verified" /\ reader' = NewReader /\ hnsw' = <<>> /\ deaths' = 0
          /\ UNCHANGED <<bundle, db, half, tails, refused>>
       \/ ~(CountsHold /\ IndexesHold) /\ FailShadow

(* The process dies; the journal still says Materializing, so the next     *)
(* attempt reads the bundle again over the rows already written.           *)
DieBuilding ==
    /\ phase = "Materializing" /\ reader.line + half > 0 /\ deaths < MaxDeaths
    /\ reader' = NewReader /\ hnsw' = <<>> /\ half' = 0 /\ deaths' = deaths + 1
    /\ UNCHANGED <<bundle, phase, db, tails, refused>>

-----------------------------------------------------------------------------
(* KnowledgeMutationPayload::validate_against.                             *)
OwnChunkNode(m) ==
    {n \in Range(m.nodes) : n.kind = "chunk"} # {} /\
    \A n \in Range(m.nodes) : n.kind = "chunk" => n.id = m.chunk
PayloadValid(m) ==
    /\ RecordValid(m.record) /\ m.record.id = m.chunk
    /\ \A n \in Range(m.nodes) : NodeValid(n)
    /\ \A n \in 1 .. Len(m.nodes) - 1 : m.nodes[n].id < m.nodes[n + 1].id
    /\ OwnChunkNode(m)
    /\ \A n \in 1 .. Len(m.edges) - 1 : m.edges[n].id < m.edges[n + 1].id
    /\ \A e \in Range(m.edges) : EdgeValid(e) /\ m.chunk \in Range(e.evidence)
MutationValid(m) == m.op = "upsert" => PayloadValid(m)

(* apply_materialized_mutation begins by removing what rests on the chunk: *)
(* edges that cite it, its node and the edges at its node.                 *)
RestingOn(d, c) ==
    {e \in DOMAIN d.edge : c \in d.edge[e].evidence} \cup
    {e \in DOMAIN d.edge : <<"chunk", c>> \in {d.edge[e].from, d.edge[e].to}}
Cleared(d, c) == [d EXCEPT !.edge = Without(@, RestingOn(d, c)), !.node = Without(@, {<<"chunk", c>>})]

Applied(d) == [ok |-> TRUE, db |-> d]
NotApplied(d) == [ok |-> FALSE, db |-> d]
Deleted(d, c) ==
    [d EXCEPT !.vec = IF c \in Live(d) THEN [@ EXCEPT ![c].dead = TRUE] ELSE @,
              !.txt = Without(@, {c})]
InternalOf(d, c) == IF c \in Live(d) THEN d.vec[c].at ELSE 0
Stored(d, r) ==
    [d EXCEPT !.vec = Put(@, r.id, [at |-> InternalOf(d, r.id), body |-> r.body, dead |-> FALSE]),
              !.txt = Put(@, r.id, r.body)]

AddNode(s, n) == IF s.ok /\ NodeAccepted(s.db, n) THEN Applied(WithNode(s.db, n)) ELSE NotApplied(s.db)
AddEdge(s, e) == IF s.ok /\ EdgeAccepted(s.db, e) THEN Applied(WithEdge(s.db, e)) ELSE NotApplied(s.db)
ApplyTailMutation(s, m) ==
    LET d == Cleared(s.db, m.chunk)
        spent == m.chunk \in DOMAIN d.vec /\ d.vec[m.chunk].dead
    IN CASE ~s.ok -> s
         [] s.ok /\ m.op = "delete" -> Applied(Deleted(d, m.chunk))
         [] s.ok /\ m.op = "upsert" /\ (spent \/ ~IdentityHolds(m.record)) -> NotApplied(d)
         [] OTHER -> FoldLeft(AddEdge, FoldLeft(AddNode, Applied(Stored(d, m.record)), m.nodes), m.edges)

(* A plausible bug: the ids are left as the mutations made them.           *)
KeepIds(d) == d

(* normalize_internal_ids: dense, by external id.                          *)
Normalized(d) ==
    [d EXCEPT !.vec = [c \in DOMAIN @ |->
        IF @[c].dead THEN @[c] ELSE [@[c] EXCEPT !.at = Cardinality({x \in Live(d) : x <= c})]]]

(* validate_revision_indexes.                                              *)
RevisionHolds(d) ==
    /\ DOMAIN d.txt = Live(d)
    /\ Cardinality(DOMAIN d.node) <= MaxGraphNodes /\ Cardinality(DOMAIN d.edge) <= MaxGraphEdges
    /\ \A k \in DOMAIN d.node : k[1] = "chunk" => k[2] \in Live(d)
    /\ \A e \in DOMAIN d.edge :
          /\ {d.edge[e].from, d.edge[e].to} \subseteq DOMAIN d.node
          /\ d.edge[e].evidence \subseteq Live(d)

(* materialize_revision_from_runtime on a checkpoint of the source: all of *)
(* the tail or nothing.                                                    *)
BuildTail(tail) ==
    /\ phase = "Verified" /\ Len(tails) < MaxRevisions
    /\ \A n \in DOMAIN tail : MutationValid(tail[n])
    /\ LET s == FoldLeft(ApplyTailMutation, Applied(db), tail)
           d == Normalized(s.db)
       IN \/ s.ok /\ RevisionHolds(d) /\ db' = d /\ tails' = Append(tails, tail) /\ refused' = <<>>
          \/ ~(s.ok /\ RevisionHolds(d)) /\ refused' = tail /\ UNCHANGED <<db, tails>>
    /\ UNCHANGED <<bundle, phase, reader, hnsw, half, deaths>>

BuildNext ==
    \/ RefuseEntry \/ TakeHeader \/ TakeRecord \/ StoreText \/ TakeNode \/ TakeEdge
    \/ EndOfBundle \/ DieBuilding
    \/ \E tail \in Tails : BuildTail(tail)

-----------------------------------------------------------------------------
(* What a bundle must be, read as a whole.                                 *)
Of(kind) == SelectSeq(bundle.lines, LAMBDA e : e.is = kind)
IdsOf(kind) == {e.id : e \in Range(Of(kind))}
Rising(s) == \A n \in 1 .. Len(s) - 1 : s[n].id < s[n + 1].id

WellFormedBundle ==
    /\ Len(bundle.lines) \in 1 .. MaxLines
    /\ bundle.lines = Of("header") \o Of("record") \o Of("node") \o Of("edge")
    /\ Len(Of("header")) = 1
    /\ LET h == Of("header")[1] IN
       /\ HeaderFits(h) /\ h.records = bundle.records /\ h.edges = bundle.edges
       /\ Declared(h) = <<Len(Of("record")), Len(Of("node")), Len(Of("edge"))>>
    /\ \A kind \in {"record", "node", "edge"} : Rising(Of(kind))
    /\ \A e \in Range(bundle.lines) : e.fault = "none"
    /\ \A e \in Range(Of("node")) : e.kind = "chunk" => e.id \in IdsOf("record")
    /\ \A e \in Range(Of("edge")) :
          /\ EvidenceValid(e.evidence)
          /\ {e.from, e.to} \subseteq IdsOf("node") /\ Range(e.evidence) \subseteq IdsOf("record")

(* Every record, node and edge of the bundle, and nothing else.            *)
HoldsBundle ==
    /\ DOMAIN db.vec = IdsOf("record") /\ DOMAIN db.txt = IdsOf("record")
    /\ \A n \in DOMAIN Of("record") :
          LET r == Of("record")[n] IN
          /\ db.vec[r.id] = [at |-> n, body |-> r.body, dead |-> FALSE] /\ db.txt[r.id] = r.body
    /\ DOMAIN db.node = {<<n.kind, n.id>> : n \in Range(Of("node"))}
    /\ DOMAIN db.edge = IdsOf("edge")

(* consume_knowledge_bundle_with_limits, materialize_inner                 *)
(* (generation.rs:615): a generation is verified only for a well-formed    *)
(* bundle, and its rows are then the bundle's, however often the process   *)
(* died on the way and left rows behind.                                   *)
ReadyIsBundle ==
    /\ phase = "Verified" => WellFormedBundle
    /\ phase = "Verified" /\ tails = <<>> => HoldsBundle

(* materialize_installed (generation.rs:575): a failed build is final, so  *)
(* no well-formed bundle may fail (errors of the disk aside), not even one *)
(* whose earlier attempts died half way.                                   *)
FailedIsMalformed == phase = "Failed" => ~WellFormedBundle

-----------------------------------------------------------------------------
(* The mutations of the applied tails, oldest first.                       *)
History == FlattenSeq(tails)
Touched(c, n) == \E k \in n + 1 .. Len(History) : History[k].chunk = c
Upserts == {k \in DOMAIN History : History[k].op = "upsert"}
ChunksNow ==
    {c \in IdsOf("record") \cup {History[k].chunk : k \in Upserts} :
        LET own == {k \in DOMAIN History : History[k].chunk = c}
        IN own # {} => History[Max(own)].op = "upsert"}

(* The edges written, with the mutation that wrote each: 0 is the bundle.  *)
WrittenEdges ==
    {<<0, e>> : e \in Range(Of("edge"))} \cup
    UNION {{<<k, e>> : e \in Range(History[k].edges)} : k \in Upserts}
ChunkEnds(e) == {x \in {e.from, e.to} : db.link[x] = "chunk"}
Standing(k, e) ==
    /\ \A c \in Range(e.evidence) \cup ChunkEnds(e) : ~Touched(c, k)
    /\ ~\E w \in WrittenEdges : w[2].id = e.id /\ w[1] > k

(* apply_materialized_mutation, normalize_internal_ids                     *)
(* (generation.rs:900): after any tails the active chunks are those whose  *)
(* last mutation wrote them, numbered in order, each with the text of its  *)
(* vector, and an edge is there exactly when no later mutation touched     *)
(* what it cites or joins and none wrote it again.                         *)
RevisionIsReplay ==
    phase = "Verified" /\ tails # <<>> =>
        /\ Live(db) = ChunksNow /\ DOMAIN db.txt = ChunksNow
        /\ \A c \in ChunksNow : db.vec[c].at = Cardinality({x \in ChunksNow : x <= c})
                                /\ db.txt[c] = db.vec[c].body
        /\ DOMAIN db.edge = {w[2].id : w \in {x \in WrittenEdges : Standing(x[1], x[2])}}

(* validate_revision_indexes (generation.rs:988): a tail of deletions is   *)
(* never refused, whatever the edges of the deleted chunks cite.           *)
DeletesAlwaysApply == refused # <<>> => \E n \in DOMAIN refused : refused[n].op = "upsert"

-----------------------------------------------------------------------------
(***************************************************************************)
(* Fetching the bundle of a manifest (grpc-server/src/generation_fetch.rs) *)
(* from S3 or from a local mirror into a private temporary file, and       *)
(* installing it (storage/src/generation_layout.rs).  Objects may be       *)
(* replaced under their key at any time; the call may be dropped at every  *)
(* await, by its deadlines or by its caller.                               *)
(*                                                                         *)
(* Content is a sequence of blocks; a SHA-256 digest is the content.       *)
(***************************************************************************)

CONSTANTS
    References,    \* [bucket, key, version, size, sha]: what manifests authorise
    Contents,      \* what the object and the mirror's file may hold
    AllowedBuckets,
    MaxBundleSize,
    RequireDigest, \* require_version_or_digest_key
    Versioned,     \* keys whose versions never change: version -> content
    MaxFetches     \* bound: calls

VARIABLES
    remote,    \* the content under the key now
    mirror,    \* the content of the mirror's file now, <<>> if it is absent
    fetch,     \* the running call
    temp,      \* temporary files: number -> content written so far
    calls,     \* calls started, which number the files
    installed, \* the verified bundle of the shadow directory, <<>> if none
    litter     \* files whose call was dropped, with the fetcher that wrote them

fetchVars == <<remote, mirror, fetch, temp, calls, installed, litter>>

-----------------------------------------------------------------------------
NoFetch == [pc |-> "idle"]
Fetching(kind, ref) == [pc |-> "start", kind |-> kind, ref |-> ref, src |-> <<>>, file |-> 0]

(* ImmutableObjectReference::validate: digest and size are given.          *)
ReferenceValid(ref) == ref.size > 0 /\ ref.sha # <<>>

(* parse_s3_address.                                                       *)
Addressed(ref) ==
    /\ ref.bucket \in AllowedBuckets
    /\ ref.key # "none"
    /\ RequireDigest => ref.version # "none" \/ ref.key = "digest"
Authorised(ref) == ReferenceValid(ref) /\ ref.size <= MaxBundleSize /\ Addressed(ref)

(* What a request for the reference reads: a version never changes.        *)
ObjectOf(ref) == IF ref.version # "none" THEN Versioned[ref.version] ELSE remote

FetchInit ==
    /\ remote \in Contents /\ mirror \in Contents \cup {<<>>}
    /\ fetch = NoFetch /\ temp = <<>> /\ calls = 0 /\ installed = <<>> /\ litter = {}

(* Someone else writes to the bucket or to the mirror.                     *)
ReplaceObject(c) == remote' = c /\ UNCHANGED <<mirror, fetch, temp, calls, installed, litter>>
ReplaceMirror(c) == mirror' = c /\ UNCHANGED <<remote, fetch, temp, calls, installed, litter>>

Rest == <<remote, mirror, calls, installed>>
EndFetch == fetch' = NoFetch

StartFetch(kind, ref) ==
    /\ fetch = NoFetch /\ calls < MaxFetches
    /\ calls' = calls + 1
    /\ fetch' = IF Authorised(ref) THEN Fetching(kind, ref) ELSE NoFetch
    /\ UNCHANGED <<remote, mirror, temp, installed, litter>>

(* HEAD: the length must be the manifest's.                                *)
HeadObject ==
    /\ fetch.pc = "start" /\ fetch.kind = "s3"
    /\ \/ Len(ObjectOf(fetch.ref)) = fetch.ref.size /\ fetch' = [fetch EXCEPT !.pc = "get"]
       \/ EndFetch
    /\ UNCHANGED <<Rest, temp, litter>>

(* GET: the length again, then the file; the guard that removes it is made *)
(* before the first block is awaited.                                      *)
GetObject ==
    /\ fetch.pc = "get"
    /\ LET body == ObjectOf(fetch.ref) IN
       \/ /\ Len(body) = fetch.ref.size
          /\ fetch' = [fetch EXCEPT !.pc = "body", !.src = body, !.file = calls]
          /\ temp' = [n \in DOMAIN temp \cup {calls} |-> IF n = calls THEN <<>> ELSE temp[n]]
       \/ EndFetch /\ UNCHANGED temp
    /\ UNCHANGED <<Rest, litter>>

(* The size of the mirror's file is compared first; the file that is then  *)
(* opened may be another.                                                  *)
StatMirror ==
    /\ fetch.pc = "start" /\ fetch.kind = "mirror"
    /\ IF mirror # <<>> /\ Len(mirror) = fetch.ref.size
       THEN fetch' = [fetch EXCEPT !.pc = "open"] ELSE EndFetch
    /\ UNCHANGED <<Rest, temp, litter>>
OpenMirror ==
    /\ fetch.pc = "open"
    /\ \/ /\ mirror # <<>>
          /\ fetch' = [fetch EXCEPT !.pc = "body", !.src = mirror, !.file = calls]
          /\ temp' = [n \in DOMAIN temp \cup {calls} |-> IF n = calls THEN <<>> ELSE temp[n]]
       \/ EndFetch /\ UNCHANGED temp
    /\ UNCHANGED <<Rest, litter>>

Removed(n) == [k \in DOMAIN temp \ {n} |-> temp[k]]

(* A block, the authorised byte count checked before it is written; the    *)
(* stream may also fail or come to its end early.                          *)
Written == temp[fetch.file]
WithinBounds(n) == n <= fetch.ref.size /\ n <= MaxBundleSize
Block ==
    /\ fetch.pc = "body" /\ Len(Written) < Len(fetch.src)
    /\ \/ /\ WithinBounds(Len(Written) + 1)
          /\ temp' = [temp EXCEPT ![fetch.file] = Append(@, fetch.src[Len(@) + 1])]
          /\ UNCHANGED fetch
       \/ EndFetch /\ temp' = Removed(fetch.file)
    /\ UNCHANGED <<Rest, litter>>

Complete(c, ref) == Len(c) = ref.size
DigestHolds(c, ref) == c = ref.sha

(* The end of the body.  The mirror's copy is also checked by digest.      *)
EndOfBody ==
    /\ fetch.pc = "body"
    /\ LET c == Written
           good == Complete(c, fetch.ref) /\ (fetch.kind = "mirror" => DigestHolds(c, fetch.ref))
       IN \/ good /\ fetch' = [fetch EXCEPT !.pc = "fetched"] /\ UNCHANGED temp
          \/ ~good /\ EndFetch /\ temp' = Removed(fetch.file)
    /\ UNCHANGED <<Rest, litter>>

LeavesFile(kind) == kind = "mirror"

(* The call is dropped at an await: a deadline or a caller that gave up.   *)
(* The mirror's fetcher has no guard while it copies.                      *)
DropFetch ==
    /\ fetch.pc \in {"start", "get", "body"}
    /\ EndFetch
    /\ IF fetch.file = 0 THEN UNCHANGED <<temp, litter>>
       ELSE IF LeavesFile(fetch.kind) THEN litter' = litter \cup {<<fetch.file, fetch.kind>>} /\ UNCHANGED temp
       ELSE temp' = Removed(fetch.file) /\ UNCHANGED litter
    /\ UNCHANGED Rest

(* write_and_verify_bundle and verify_bundle_file: size and digest.        *)
(* A plausible bug: the fetcher is trusted.                                *)
SizeOnly(c, ref) == Len(c) = ref.size
BundleVerified(c, ref) == Len(c) = ref.size /\ c = ref.sha

(* install_bundle, then the temporary file is dropped with its owner.      *)
Install ==
    /\ fetch.pc = "fetched"
    /\ IF BundleVerified(Written, fetch.ref) THEN installed' = <<fetch.ref, Written>> ELSE UNCHANGED installed
    /\ temp' = Removed(fetch.file)
    /\ EndFetch
    /\ UNCHANGED <<remote, mirror, calls, litter>>

FetchNext ==
    \/ \E c \in Contents : ReplaceObject(c) \/ ReplaceMirror(c)
    \/ \E kind \in {"s3", "mirror"}, ref \in References : StartFetch(kind, ref)
    \/ HeadObject \/ GetObject \/ StatMirror \/ OpenMirror \/ Block \/ EndOfBody \/ DropFetch \/ Install

FetchSpec == FetchInit /\ [][FetchNext]_fetchVars

-----------------------------------------------------------------------------
(* install_bundle (generation_layout.rs:561), fetch_inner                  *)
(* (generation_fetch.rs:389): what is installed is what the manifest       *)
(* authorised, although HEAD, GET and the mirror's file are read at        *)
(* different times and the S3 fetcher compares lengths only.               *)
InstalledIsAuthorised ==
    installed # <<>> => Authorised(installed[1]) /\ installed[2] = installed[1].sha

(* generation_fetch.rs:449, 489: a fetched file is never cut short or      *)
(* longer than authorised when it is handed over.                          *)
HandedOverWhole == fetch.pc = "fetched" => Len(Written) = fetch.ref.size

(* FetchedGenerationBundle's Drop (generation_fetch.rs:86, 466): when no   *)
(* call runs, the only temporary files left are copies from the mirror     *)
(* whose call was dropped; nothing of an S3 fetch survives its call.       *)
NothingLeftBehind ==
    /\ DOMAIN temp \subseteq {f[1] : f \in litter} \cup (IF fetch = NoFetch THEN {} ELSE {fetch.file})
    /\ \A f \in litter : f[2] = "mirror"

(* A build that ends Ready holds exactly the rows of its bundle and its    *)
(* tail, whatever crashed and was retried on the way; it ends Failed only  *)
(* on input that breaks a contract.                                        *)
BuildIsReplay ==
    /\ ReadyIsBundle
    /\ FailedIsMalformed
    /\ RevisionIsReplay
    /\ DeletesAlwaysApply

(* A fetch installs the content its manifest authorises, whole, and leaves *)
(* no private file behind, though objects are replaced under their keys    *)
(* and the call is dropped at any await.                                   *)
FetchedIsAuthorised ==
    /\ InstalledIsAuthorised
    /\ HandedOverWhole
    /\ NothingLeftBehind
=============================================================================
