-------------------------- MODULE RetrievalIndexes --------------------------
(***************************************************************************)
(* The secondary indexes of a shard: tags and terms, and the relation graph. *)
(***************************************************************************)
EXTENDS Integers, Sequences, FiniteSets, SequencesExt, FiniteSetsExt

(***************************************************************************)
(* TagIndex (storage/src/tag_index.rs): an inverted index from typed tags  *)
(* to sets of ids, and Bm25Index (retrieval/src/lexical.rs): one from      *)
(* terms to documents.  The answers of the first are compared with what    *)
(* the metadata filter of the service (grpc-server/src/filter.rs) says of  *)
(* each vector.                                                            *)
(*                                                                         *)
(* A number is the bit pattern of a signed magnitude of Width bits, which  *)
(* is what orders and equates 64-bit floats; negative zero is one of them. *)
(***************************************************************************)

CONSTANTS
    TagIds, TagNames,
    TagValues,     \* [type, value]: txt, num, bool; lst with a set of words
    TagFilters,    \* the filters asked
    Width,         \* bits of a number
    TextDocs,      \* documents of the text index
    Texts,         \* their texts: sequences of terms
    MaxTagOps      \* bound: operations

VARIABLES
    tags,      \* what the caller gave each id: TagNames -> value or Untagged
    bitmaps,   \* tag keys -> ids
    postings,  \* postings: <<term, document, frequency>>
    docLen, docTerms, totalLen,
    texts,     \* history: the text inserted last
    tagOps

tagVars == <<tags, bitmaps, postings, docLen, docTerms, totalLen, texts, tagOps>>

Untagged == [type |-> "none", value |-> 0]
Words(v) == IF v.type = "lst" THEN v.value ELSE {}

-----------------------------------------------------------------------------
Sign == 2 ^ (Width - 1)

(* encode_f64_sortable and decode_f64_sortable.                            *)
Encode(bits) == IF bits < Sign THEN bits + Sign ELSE 2 ^ Width - 1 - bits
Decode(code) == IF code >= Sign THEN code - Sign ELSE 2 ^ Width - 1 - code
Number(bits) == IF bits < Sign THEN bits ELSE -(bits - Sign)

(* tag_to_index_keys: one key, or one for each word of a list.             *)
IndexKeys(name, v) ==
    CASE v.type = "none" -> {}
      [] v.type = "num" -> {<<"num", name, Encode(v.value)>>}
      [] v.type = "lst" -> {<<"lst", name, w>> : w \in v.value}
      [] OTHER -> {<<v.type, name, v.value>>}
AllKeys(t) == UNION {IndexKeys(name, t[name]) : name \in TagNames}

Bitmap(key) == IF key \in DOMAIN bitmaps THEN bitmaps[key] ELSE {}

TagInit ==
    /\ tags = [i \in TagIds |-> [n \in TagNames |-> Untagged]]
    /\ bitmaps = <<>>
    /\ postings = {} /\ docLen = <<>> /\ docTerms = <<>> /\ totalLen = 0
    /\ texts = [d \in TextDocs |-> <<>>]
    /\ tagOps = 0

WriteBitmaps(changes) == [k \in {x \in DOMAIN bitmaps \cup DOMAIN changes :
                              (x \in DOMAIN changes => changes[x] # {})} |->
                   IF k \in DOMAIN changes THEN changes[k] ELSE bitmaps[k]]

(* add and remove read each bitmap and write it back in one batch, under   *)
(* the index's lock; a bitmap that gets empty is deleted.                  *)
Added(i, t) == [k \in AllKeys(t) |-> Bitmap(k) \cup {i}]
Removed(i, t) == [k \in AllKeys(t) |-> Bitmap(k) \ {i}]

(* update: both from the bitmaps as stored; of two writes of one key the   *)
(* later, the addition, stays.                                             *)
ReplacedTags(i, old, new) == Added(i, new) @@ Removed(i, old)

SetTags(i, t) ==
    /\ tagOps < MaxTagOps /\ tagOps' = tagOps + 1
    /\ tags[i] # t
    /\ bitmaps' = WriteBitmaps(IF AllKeys(tags[i]) = {} THEN Added(i, t)
                        ELSE IF AllKeys(t) = {} THEN Removed(i, tags[i])
                        ELSE ReplacedTags(i, tags[i], t))
    /\ tags' = [tags EXCEPT ![i] = t]
    /\ UNCHANGED <<postings, docLen, docTerms, totalLen, texts>>

-----------------------------------------------------------------------------
(* A range over every number of a name.                                    *)
Holds(op, x, y) ==
    CASE op = "gt" -> x > y [] op = "gte" -> x >= y [] op = "lt" -> x < y [] op = "lte" -> x <= y
Ranges == {"gt", "gte", "lt", "lte"}
RangeQuery(c) ==
    UNION {bitmaps[k] : k \in {x \in DOMAIN bitmaps : /\ x[1] = "num" /\ x[2] = c.name
                                                      /\ Holds(c.op, Number(Decode(x[3])), Number(c.value.value))}}

(* evaluate_condition.                                                     *)
EvaluateCondition(c) ==
    CASE c.op = "eq" -> UNION {Bitmap(k) : k \in IndexKeys(c.name, c.value)}
      [] c.op = "exists" -> UNION {bitmaps[k] : k \in {x \in DOMAIN bitmaps : x[2] = c.name}}
      [] c.op = "contains" -> IF c.value.type = "txt" THEN Bitmap(<<"lst", c.name, c.value.value>>) ELSE {}
      [] c.op \in Ranges -> IF c.value.type = "num" THEN RangeQuery(c) ELSE {}

Complement(inner) == TagIds \ inner

RECURSIVE EvaluateFilter(_)
(* evaluate_filter, with every id as the universe.                         *)
EvaluateFilter(f) ==
    CASE f.op = "and" -> {i \in TagIds : \A n \in DOMAIN f.of : i \in EvaluateFilter(f.of[n])}
      [] f.op = "or" -> UNION {EvaluateFilter(f.of[n]) : n \in DOMAIN f.of}
      [] f.op = "not" -> Complement(EvaluateFilter(f.of[1]))
      [] OTHER -> EvaluateCondition(f)

-----------------------------------------------------------------------------
(* value_equals, value_contains and condition_matches of filter.rs, which  *)
(* compares the metadata of one vector.                                    *)
ValueEquals(v, w) ==
    /\ v.type = w.type
    /\ IF v.type = "num" THEN Number(v.value) = Number(w.value) ELSE v.value = w.value
ConditionMatches(t, c) ==
    LET v == t[c.name] IN
    /\ v.type # "none"
    /\ CASE c.op = "exists" -> TRUE
         [] c.op = "eq" -> ValueEquals(v, c.value)
         [] c.op = "contains" -> c.value.type = "txt" /\ c.value.value \in Words(v)
         [] c.op \in Ranges -> /\ v.type = "num" /\ c.value.type = "num"
                               /\ Holds(c.op, Number(v.value), Number(c.value.value))

RECURSIVE FilterMatches(_, _)
(* tag_filter_matches.                                                     *)
FilterMatches(t, f) ==
    CASE f.op = "and" -> \A n \in DOMAIN f.of : FilterMatches(t, f.of[n])
      [] f.op = "or" -> \E n \in DOMAIN f.of : FilterMatches(t, f.of[n])
      [] f.op = "not" -> ~FilterMatches(t, f.of[1])
      [] OTHER -> ConditionMatches(t, f)

-----------------------------------------------------------------------------
TermsOfText(text) == {text[n] : n \in DOMAIN text}
Freq(text, term) == Cardinality({n \in DOMAIN text : text[n] = term})
Dropped(f, d) == [x \in DOMAIN f \ {d} |-> f[x]]

(* Bm25Index::remove: the terms on record lead to the postings.            *)
DroppedPostings(d) == {p \in postings : ~(p[2] = d /\ p[1] \in docTerms[d])}

RemoveText(d) ==
    /\ tagOps < MaxTagOps /\ tagOps' = tagOps + 1 /\ d \in DOMAIN docLen
    /\ totalLen' = totalLen - docLen[d]
    /\ postings' = DroppedPostings(d)
    /\ docLen' = Dropped(docLen, d) /\ docTerms' = Dropped(docTerms, d)
    /\ texts' = [texts EXCEPT ![d] = <<>>]
    /\ UNCHANGED <<tags, bitmaps>>

(* Bm25Index::insert: an earlier version is removed first, and a text      *)
(* without terms leaves it at that.                                        *)
InsertText(d, text) ==
    /\ tagOps < MaxTagOps /\ tagOps' = tagOps + 1
    /\ LET known == d \in DOMAIN docLen
           left == IF known THEN DroppedPostings(d) ELSE postings
           less == IF known THEN totalLen - docLen[d] ELSE totalLen
           keep == text # <<>> IN
       /\ postings' = left \cup {<<w, d, Freq(text, w)>> : w \in TermsOfText(text)}
       /\ totalLen' = less + Len(text)
       /\ docLen' = IF keep THEN (d :> Len(text)) @@ docLen ELSE Dropped(docLen, d)
       /\ docTerms' = IF keep THEN (d :> TermsOfText(text)) @@ docTerms ELSE Dropped(docTerms, d)
       /\ texts' = [texts EXCEPT ![d] = text]
    /\ UNCHANGED <<tags, bitmaps>>

TagNext ==
    \/ \E i \in TagIds, t \in [TagNames -> TagValues \cup {Untagged}] : SetTags(i, t)
    \/ \E d \in TextDocs : RemoveText(d) \/ \E text \in Texts : InsertText(d, text)

-----------------------------------------------------------------------------
(* The index answers a filter as the service's filter does vector by       *)
(* vector, after any sequence of updates.  They differ, and the property   *)
(* leaves out, equality with a list (any word of it in the index, the same *)
(* words in the filter) and negative zero (a key of its own in the index). *)
MinusZero == [type |-> "num", value |-> Sign]
IndexAgrees ==
    (\A i \in TagIds, n \in TagNames : tags[i][n] # MinusZero) =>
        \A f \in TagFilters : EvaluateFilter(f) = {i \in TagIds : FilterMatches(tags[i], f)}

(* The text index counts what was inserted last: a document is found under *)
(* a term exactly when its text has it, as often, and search, which takes  *)
(* the length of every document it finds, finds that.                      *)
TextIndexExact ==
    /\ postings = UNION {{<<w, d, Freq(texts[d], w)>> : w \in TermsOfText(texts[d])} : d \in TextDocs}
    /\ \A p \in postings : p[2] \in DOMAIN docLen
    /\ totalLen = FoldFunction(+, 0, docLen)

-----------------------------------------------------------------------------
(***************************************************************************)
(* The relation graph beside the vectors: NativeGraphIndex (graph/src/     *)
(* native.rs) over the keys of one store, the walk over it (graph/src/     *)
(* query.rs), and the projection of a chunk's metadata into it             *)
(* (index_graph_chunk and delete_graph_chunk of grpc-server/src/           *)
(* service.rs).                                                            *)
(*                                                                         *)
(* One workspace.  A writer holds the lock of its chunk's id from before   *)
(* it reads the chunk's stored projection until its batch is written, and  *)
(* the graph's own lock only while the batch is written; a walk takes no   *)
(* lock.  Every edge the projection writes is named by kind and ends.      *)
(***************************************************************************)

CONSTANTS
    GraphChunks,   \* vector ids, which name chunk nodes
    Entities,      \* other nodes: files, documents, people
    Metas,         \* metadata: sets of [rel, target]
    NodeRank,      \* the order of node ids
    HopLimit,      \* per_hop_limit of a walk
    WalkLimit,     \* limit of a walk
    WalkDepth,     \* max_depth of a walk
    MaxGraphOps,   \* bound: updates and deletes
    NoMeta, NoProjection

VARIABLES
    nodes,       \* node keys
    projection,  \* GRAPH_PROJECTION_EDGE_IDS of a chunk node, or NoProjection
    edges,       \* edge key -> the chunk whose metadata it is evidence of
    adjOut, adjIn,  \* adjacency keys
    links,       \* chunk keys: <<from, to>>
    meta,        \* metadata of the chunks that are stored
    graphBatch,  \* what the writer of a chunk has computed, or NoMeta
    walk,        \* the walk in progress
    graphOps,
    lastWriter,  \* history: who wrote an edge last
    raced        \* history: edges somebody else wrote between a writer's read and its write

graphVars == <<nodes, projection, edges, adjOut, adjIn, links, meta, graphBatch, walk, graphOps,
               lastWriter, raced>>

Edge(kind, from, to) == <<kind, from, to>>
Present == DOMAIN edges
IdleWalk == [on |-> FALSE]

-----------------------------------------------------------------------------
(* The edges a chunk's metadata asks for, as index_graph_chunk lists them: *)
(* parent and child, related both ways, then relations to other chunks,    *)
(* people and commits, and what contains the chunk.                        *)
FamilyEdges(c, m) ==
    UNION {{Edge("parent_of", r.target, c), Edge("child_of", c, r.target)} :
               r \in {x \in m : x.rel = "parent"}}
RelatedEdges(c, m) ==
    UNION {{Edge("related_to", c, r.target), Edge("related_to", r.target, c)} :
               r \in {x \in m : x.rel = "related"}}
ReferenceEdges(c, m) ==
    {Edge(r.rel, c, r.target) : r \in {x \in m : x.rel \in {"calls", "owned_by"}}}
StructureEdges(c, m) ==
    {Edge("contains", r.target, c) : r \in {x \in m : x.rel = "contains"}}
ProjectedEdges(c, m) ==
    FamilyEdges(c, m) \cup RelatedEdges(c, m) \cup ReferenceEdges(c, m) \cup StructureEdges(c, m)

(* graph_edge_ids_from_metadata, for a projection that is not on record.   *)
EdgesFromMetadata(c, m) == IF m = NoMeta THEN {} ELSE ProjectedEdges(c, m)

(* should_link_chunk.                                                      *)
Linked(e) == e[1] \in {"calls", "contains", "parent_of", "related_to"} /\ e[3] \in GraphChunks
LinkKey(e) == <<e[2], e[3]>>

(* stored_graph_projection_edge_ids: of the edges on record, those that    *)
(* are still evidence of this chunk.                                       *)
StoredProjection(c) ==
    IF projection[c] = NoProjection THEN NoProjection
    ELSE {e \in projection[c] \cap Present : edges[e] = c}

-----------------------------------------------------------------------------
GraphInit ==
    /\ nodes = {} /\ projection = [c \in GraphChunks |-> NoProjection]
    /\ edges = <<>> /\ adjOut = {} /\ adjIn = {} /\ links = {}
    /\ meta = [c \in GraphChunks |-> NoMeta]
    /\ graphBatch = [c \in GraphChunks |-> NoMeta]
    /\ walk = IdleWalk /\ graphOps = 0
    /\ lastWriter = <<>> /\ raced = {}

Without(f, S) == [e \in DOMAIN f \ S |-> f[e]]
Overlaid(f, S, v) == [e \in DOMAIN f \cup S |-> IF e \in S THEN v ELSE f[e]]

(* A walk is disturbed by a write.                                         *)
Disturb == walk' = IF walk.on THEN [walk EXCEPT !.quiet = FALSE] ELSE walk

(* An insert or update of a chunk reaches index_graph_chunk, which reads   *)
(* the projection it will replace.                                         *)
IndexBegin(c, m) ==
    /\ graphOps < MaxGraphOps /\ graphBatch[c] = NoMeta
    /\ LET stored == StoredProjection(c) IN
       graphBatch' = [graphBatch EXCEPT ![c] =
           [new |-> m, delete |-> IF stored = NoProjection THEN EdgesFromMetadata(c, meta[c]) ELSE stored]]
    /\ graphOps' = graphOps + 1
    /\ UNCHANGED <<nodes, projection, edges, adjOut, adjIn, links, meta, walk, lastWriter, raced>>

(* node_upsert_operations: the chunk's own node is replaced, the others    *)
(* are created or keep what they have.                                     *)
UpsertNodes(c, asked) ==
    /\ nodes' = nodes \cup {c} \cup UNION {{e[2], e[3]} : e \in asked}
    /\ projection' = [projection EXCEPT ![c] = asked]

(* A plausible bug: the incoming side of an edge is not cleaned up.        *)
OneSided(gone, asked) == adjIn' = adjIn \cup asked

DropIncoming(gone, asked) == adjIn' = (adjIn \ gone) \cup asked

(* edge_delete_operations, then edge_upsert_operations.                    *)
WriteEdges(c, gone, asked) ==
    /\ edges' = Overlaid(Without(edges, gone), asked, c)
    /\ adjOut' = (adjOut \ gone) \cup asked
    /\ DropIncoming(gone, asked)
    /\ links' = (links \ {LinkKey(e) : e \in {x \in gone : Linked(x)}})
                \cup {LinkKey(e) : e \in {x \in asked : Linked(x)}}

(* upsert_batch, under the graph's lock: old edges go, nodes and edges     *)
(* come, in one write.                                                     *)
IndexEnd(c) ==
    /\ graphBatch[c] # NoMeta
    /\ LET asked == ProjectedEdges(c, graphBatch[c].new)
           gone == graphBatch[c].delete \cap Present IN
       /\ UpsertNodes(c, asked)
       /\ WriteEdges(c, gone, asked)
       /\ meta' = [meta EXCEPT ![c] = graphBatch[c].new]
       /\ graphBatch' = [graphBatch EXCEPT ![c] = NoMeta]
       /\ lastWriter' = Overlaid(lastWriter, asked, c)
       /\ raced' = (raced \cup
                    (IF \E d \in GraphChunks \ {c} : graphBatch[d] # NoMeta THEN asked \cup gone ELSE {}))
    /\ Disturb
    /\ UNCHANGED graphOps

(* edge_refs_for_node, both ways.                                          *)
EdgesOf(c) == {e \in adjOut : e[2] = c} \cup {e \in adjIn : e[3] = c}

(* delete_graph_chunk: delete_node with every edge at it.                  *)
DeleteChunk(c) ==
    /\ graphOps < MaxGraphOps /\ meta[c] # NoMeta /\ graphBatch[c] = NoMeta
    /\ graphOps' = graphOps + 1
    /\ LET gone == EdgesOf(c) \cap Present IN
       /\ c \in nodes
       /\ nodes' = nodes \ {c} /\ projection' = [projection EXCEPT ![c] = NoProjection]
       /\ edges' = Without(edges, gone) /\ lastWriter' = Without(lastWriter, gone)
       /\ adjOut' = adjOut \ gone /\ adjIn' = adjIn \ gone
       /\ links' = links \ {LinkKey(e) : e \in {x \in gone : Linked(x)}}
       /\ meta' = [meta EXCEPT ![c] = NoMeta]
       /\ raced' = raced \cup (IF \E d \in GraphChunks : graphBatch[d] # NoMeta THEN gone ELSE {})
    /\ Disturb
    /\ UNCHANGED graphBatch

-----------------------------------------------------------------------------
(* neighbors: all weights are equal, so the order is by node, then edge.   *)
(* Edges whose other end has no node are passed over.                      *)
OtherEnd(n, e) == IF e[2] = n THEN e[3] ELSE e[2]
Neighbours(n) ==
    LET ends == {x \in {OtherEnd(n, e) : e \in EdgesOf(n) \cap Present} : x \in nodes}
        count(x) == Cardinality({e \in EdgesOf(n) \cap Present : OtherEnd(n, e) = x})
        ordered == SetToSortSeq(ends, LAMBDA x, y : NodeRank[x] < NodeRank[y])
        repeated == FlattenSeq([i \in 1..Len(ordered) |->
                                   [j \in 1..count(ordered[i]) |-> ordered[i]]]) IN
    SubSeq(repeated, 1, IF Len(repeated) < HopLimit THEN Len(repeated) ELSE HopLimit)

WalkBegin(seed) ==
    /\ ~walk.on /\ graphBatch = [c \in GraphChunks |-> NoMeta]
    /\ walk' = [on |-> TRUE, seed |-> seed, queue |-> <<[node |-> seed, depth |-> 0]>>,
                visited |-> {seed}, found |-> <<>>, quiet |-> TRUE, cut |-> FALSE]
    /\ UNCHANGED <<nodes, projection, edges, adjOut, adjIn, links, meta, graphBatch, graphOps, lastWriter, raced>>

MayVisit(w, hop) == hop < WalkDepth

(* One neighbour: a chunk is noted at its first hop, and its own           *)
(* neighbours are walked to while hops are left.                           *)
Meet(w, n, hop) ==
    IF Len(w.found) >= WalkLimit THEN [w EXCEPT !.cut = TRUE]
    ELSE LET note == n \in GraphChunks /\ n # w.seed /\ \A i \in DOMAIN w.found : w.found[i].id # n
             go == MayVisit(w, hop) /\ n \notin w.visited IN
         [w EXCEPT !.found = IF note THEN Append(@, [id |-> n, hop |-> hop]) ELSE @,
                   !.visited = IF go THEN @ \cup {n} ELSE @,
                   !.queue = IF go THEN Append(@, [node |-> n, depth |-> hop]) ELSE @]

(* related_chunks_with_trace, one node of the queue.                       *)
WalkStep ==
    /\ walk.on /\ walk.queue # <<>>
    /\ LET at == Head(walk.queue)
           popped == [walk EXCEPT !.queue = Tail(@)]
           near == Neighbours(at.node) IN
       walk' = IF at.depth >= WalkDepth THEN popped
               ELSE FoldLeft(LAMBDA w, n : Meet(w, n, at.depth + 1),
                             [popped EXCEPT !.cut = @ \/ Len(near) >= HopLimit], near)
    /\ UNCHANGED <<nodes, projection, edges, adjOut, adjIn, links, meta, graphBatch, graphOps, lastWriter, raced>>

WalkEnd ==
    /\ walk.on /\ walk.queue = <<>> /\ walk' = IdleWalk
    /\ UNCHANGED <<nodes, projection, edges, adjOut, adjIn, links, meta, graphBatch, graphOps, lastWriter, raced>>

GraphNext ==
    \/ \E c \in GraphChunks : IndexEnd(c) \/ DeleteChunk(c) \/ \E m \in Metas : IndexBegin(c, m)
    \/ \E n \in GraphChunks \cup Entities : WalkBegin(n)
    \/ WalkStep \/ WalkEnd

-----------------------------------------------------------------------------
(* The keys of the graph agree: an edge is under both its ends, nothing    *)
(* else is, and a chunk link stands for some edge.                         *)
GraphKeysAgree ==
    /\ adjOut = Present /\ adjIn = Present
    /\ \A l \in links : \E e \in Present : LinkKey(e) = l

(* No edge leads to a node that is gone, through deletes and updates of    *)
(* chunks that refer to each other at the same time.                       *)
EdgesHaveNodes == \A e \in Present : {e[2], e[3]} \subseteq nodes

(* The graph is what the metadata says: an edge is there exactly when the  *)
(* chunk that wrote it last is stored and still asks for it.  Raced are    *)
(* the edges of a chunk indexed between another writer's read and write.   *)
ProjectionExact ==
    \A e \in (Present \cup DOMAIN lastWriter) \ raced :
        (e \in Present) =
        (e \in DOMAIN lastWriter /\ meta[lastWriter[e]] # NoMeta
         /\ e \in ProjectedEdges(lastWriter[e], meta[lastWriter[e]]))

(* Nodes within n hops of a seed.                                          *)
Adjacent(S) == S \cup UNION {{OtherEnd(n, e) : e \in {x \in Present : n \in {x[2], x[3]}}} : n \in S}
Within(seed, n) == LET near[i \in 0..n] == IF i = 0 THEN {seed} ELSE Adjacent(near[i - 1]) IN near[n]

(* A walk that no write and no limit disturbed finds exactly the chunks    *)
(* within its depth, each once and at its shortest distance.               *)
WalkExact ==
    walk.on /\ walk.queue = <<>> /\ ~walk.cut /\ walk.quiet =>
        /\ {walk.found[i].id : i \in DOMAIN walk.found} =
           (Within(walk.seed, WalkDepth) \cap GraphChunks) \ {walk.seed}
        /\ \A i \in DOMAIN walk.found :
              LET f == walk.found[i] IN
              f.id \in Within(walk.seed, f.hop) \ Within(walk.seed, f.hop - 1)

(* The secondary indexes say of every filter, term and walk what the rows  *)
(* say, in any interleaving of writers, and the two keys of an edge agree. *)
IndexesAgree ==
    /\ IndexAgrees
    /\ TextIndexExact
    /\ GraphKeysAgree
    /\ EdgesHaveNodes
    /\ ProjectionExact
    /\ WalkExact
=============================================================================
