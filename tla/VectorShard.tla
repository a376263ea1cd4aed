---------------------------- MODULE VectorShard ----------------------------
(***************************************************************************)
(* A vector shard: AkiDbService in grpc-server/src/service.rs over the     *)
(* rows of IdMapping (storage/src/id_mapping.rs), the HNSW index with its  *)
(* tombstones (faiss-wrapper/src/hnsw.rs, tombstone.rs) and the derived    *)
(* lexical, document and graph projections; start-up is build_service in   *)
(* server/src/lib.rs.                                                      *)
(*                                                                         *)
(* A mutation holds the lock of its id through several steps.  Between two *)
(* of them other ids are mutated, clients search and read, the compaction  *)
(* task runs, and the process may die; only the rows and the graph         *)
(* survive.  A batch insert is a sequence of single inserts, each under    *)
(* its own lock.                                                           *)
(***************************************************************************)
EXTENDS Integers, FiniteSets, FiniteSetsExt

CONSTANTS
    Ids,          \* external ids, numbers in the order of their row keys
    Vals,         \* vectors with their metadata
    Workspaces,
    Writes,       \* the writes clients ask for: id, vector, workspace and text
    MaxInternal,  \* internal ids a behaviour may allocate
    MaxFailures,  \* storage and graph failures in a behaviour
    MaxCrashes,
    NoValue

ASSUME ShardAssumption ==
    /\ Ids \subseteq Nat /\ IsFiniteSet(Ids)
    /\ Writes \subseteq [id : Ids, val : Vals, ws : Workspaces, text : Vals \cup {NoValue}]
    /\ MaxInternal \in Nat /\ MaxFailures \in Nat /\ MaxCrashes \in Nat

VARIABLES
    row,          \* id: the mapping and vector rows, written in one batch
    textRow,      \* id: the persisted source text
    graph,        \* id: the vector whose metadata the graph projects
    snap,         \* the persisted HNSW snapshot
    phase,        \* of the process
    fwd,          \* id: its internal id in the index
    slot,         \* internal id: the vector in the index
    tomb,         \* internal ids with a tombstone
    nextId,
    docs,         \* id: the text in the lexical index and document store
    op,           \* id: the mutation that holds its lock
    reader,       \* a point read in progress
    hurt,         \* ids whose last upsert could not be persisted
    failures, crashes

shardVars == <<row, textRow, graph, snap, phase, fwd, slot, tomb, nextId, docs, op, reader,
               hurt, failures, crashes>>
shardRows == <<row, textRow, graph, snap>>
indexVars == <<fwd, slot, tomb, nextId>>
bounds == <<failures, crashes>>

Internals == 0..(MaxInternal - 1)

-----------------------------------------------------------------------------
(* IdMapping: mapping, vector and text rows of one id.                     *)

Rows == [val : Vals, ws : Workspaces, internal : Internals, live : BOOLEAN]
Active(id) == row[id] # NoValue /\ row[id].live
ActiveIds == {id \in Ids : Active(id)}
Deleted(id) == row[id] # NoValue /\ ~row[id].live

(* get_vector_including_deleted keeps the owner of a deleted id.           *)
OwnedByOther(id, ws) == row[id] # NoValue /\ row[id].ws # ws

(* upsert_with_vector_and_text; "keep" leaves the text row alone.          *)
UpsertRow(id, internal, v, ws, text) ==
    /\ row' = [row EXCEPT ![id] = [val |-> v, ws |-> ws, internal |-> internal, live |-> TRUE]]
    /\ textRow' = IF text = "keep" THEN textRow ELSE [textRow EXCEPT ![id] = text]

-----------------------------------------------------------------------------
(* HnswIndex.                                                              *)

Slots == [id : Ids, val : Vals]

(* The internal id an insert gets: that of the same external id, though    *)
(* it is tombstoned, or the next one.                                      *)
TargetOf(id) == IF fwd[id] # NoValue THEN fwd[id] ELSE nextId

IndexInsert(id, v) ==
    LET n == TargetOf(id) IN
    /\ n < MaxInternal
    /\ fwd' = [fwd EXCEPT ![id] = n]
    /\ slot' = [slot EXCEPT ![n] = [id |-> id, val |-> v]]
    /\ tomb' = tomb \ {n}
    /\ nextId' = IF n = nextId THEN nextId + 1 ELSE nextId

IndexDelete(n) == tomb' = tomb \cup {n} /\ UNCHANGED <<fwd, slot, nextId>>

(* What an unfiltered search can return.                                   *)
Found == {id \in Ids : \E n \in Internals : slot[n] # NoValue /\ slot[n].id = id /\ n \notin tomb}

(* trigger_rebuild: tombstoned vectors are removed from the graph, with    *)
(* their mapping and tombstone; a removal that fails leaves all three.     *)
Compact ==
    /\ phase = "up"
    /\ \E gone \in SUBSET {n \in tomb : slot[n] # NoValue} :
           /\ gone # {}
           /\ slot' = [n \in Internals |-> IF n \in gone THEN NoValue ELSE slot[n]]
           /\ fwd' = [id \in Ids |-> IF fwd[id] \in gone THEN NoValue ELSE fwd[id]]
           /\ tomb' = tomb \ gone
    /\ UNCHANGED <<row, textRow, graph, snap, phase, nextId, docs, op, reader, hurt, failures, crashes>>

-----------------------------------------------------------------------------
(* Mutations.  op holds the lock of the id: a second caller is refused.    *)

Ops == [kind : {"insert", "update", "delete"}, step : {"indexed", "persisted", "text", "unlinked", "marked"},
        val : Vals \cup {NoValue}, ws : Workspaces, text : Vals \cup {NoValue, "keep"},
        new : Internals \cup {NoValue}, old : Internals \cup {NoValue}]

(* NoValue is the None of an Option.                                       *)
ASSUME NoValueAssumption ==
    NoValue \notin Rows \cup Slots \cup Ops \cup Vals \cup Internals
                       \cup [val : Vals, ws : Workspaces, live : BOOLEAN]

(* The internal id an upsert replaces.                                     *)
Replaced(id) == IF Active(id) THEN row[id].internal ELSE NoValue

IndexStep(kind, id, v, ws, text) ==
    /\ phase = "up" /\ op[id] = NoValue
    /\ IndexInsert(id, v)
    /\ op' = [op EXCEPT ![id] = [kind |-> kind, step |-> "indexed", val |-> v, ws |-> ws,
                                 text |-> text, new |-> TargetOf(id), old |-> Replaced(id)]]
    /\ UNCHANGED <<shardRows, phase, docs, reader, hurt, bounds>>

(* A plausible bug: nobody asks whose id it is.                            *)
InsertUnowned(id, v, ws, text) == ~Deleted(id) /\ IndexStep("insert", id, v, ws, text)

(* insert_inner: the owner and the deletion are looked up before the       *)
(* index is touched.                                                       *)
InsertBegin(id, v, ws, text) ==
    /\ ~OwnedByOther(id, ws) /\ ~Deleted(id)
    /\ IndexStep("insert", id, v, ws, text)

(* update_inner: only the owner is looked up; the text is not touched.     *)
UpdateBegin(id, v, ws) ==
    /\ ~OwnedByOther(id, ws)
    /\ IndexStep("update", id, v, ws, "keep")

(* The rows are written in one synced batch.                               *)
PersistUpsert(id) ==
    /\ op[id] # NoValue /\ op[id].step = "indexed" /\ ~Deleted(id)
    /\ UpsertRow(id, op[id].new, op[id].val, op[id].ws, op[id].text)
    /\ op' = [op EXCEPT ![id].step = "persisted"]
    /\ hurt' = hurt \ {<<id, "index">>}
    /\ UNCHANGED <<graph, snap, phase, indexVars, docs, reader, bounds>>

(* A plausible bug: a batch that fails leaves the vector in the index.     *)
RollbackNothing(id) ==
    /\ op[id] # NoValue /\ op[id].step = "indexed" /\ (Deleted(id) \/ failures < MaxFailures)
    /\ failures' = IF Deleted(id) THEN failures ELSE failures + 1
    /\ op' = [op EXCEPT ![id] = NoValue]
    /\ hurt' = IF Active(id) THEN hurt \cup {<<id, "index">>} ELSE hurt
    /\ UNCHANGED <<shardRows, indexVars, phase, docs, reader, crashes>>

(* The batch fails, or the id turns out to be deleted: the new vector is   *)
(* tombstoned, which also hides the one it replaced.                       *)
RollbackUpsert(id) ==
    /\ op[id] # NoValue /\ op[id].step = "indexed" /\ (Deleted(id) \/ failures < MaxFailures)
    /\ failures' = IF Deleted(id) THEN failures ELSE failures + 1
    /\ IndexDelete(op[id].new)
    /\ op' = [op EXCEPT ![id] = NoValue]
    /\ hurt' = IF Active(id) THEN hurt \cup {<<id, "index">>} ELSE hurt
    /\ UNCHANGED <<shardRows, phase, docs, reader, crashes>>

(* sync_source_text of an insert: empty text clears the entry.             *)
SyncSourceText(id) ==
    IF op[id].text = "keep" THEN docs ELSE [docs EXCEPT ![id] = op[id].text]

(* The replaced vector goes from the index, then the text is synced.       *)
ReplaceAndSync(id) ==
    /\ op[id] # NoValue /\ op[id].step = "persisted"
    /\ tomb' = IF op[id].old \notin {NoValue, op[id].new} THEN tomb \cup {op[id].old} ELSE tomb
    /\ docs' = SyncSourceText(id)
    /\ op' = [op EXCEPT ![id].step = "text"]
    /\ UNCHANGED <<shardRows, phase, fwd, slot, nextId, reader, hurt, bounds>>

(* index_graph_chunk replaces the edges of the chunk, or fails: the caller *)
(* is told so, though the vector is stored.                                *)
ProjectGraph(id) ==
    /\ op[id] # NoValue /\ op[id].step = "text"
    /\ \/ /\ graph' = [graph EXCEPT ![id] = op[id].val]
          /\ hurt' = hurt \ {<<id, "graph">>}
          /\ UNCHANGED failures
       \/ /\ failures < MaxFailures /\ failures' = failures + 1
          /\ hurt' = hurt \cup {<<id, "graph">>}
          /\ UNCHANGED graph
    /\ op' = [op EXCEPT ![id] = NoValue]
    /\ UNCHANGED <<row, textRow, snap, phase, indexVars, docs, reader, crashes>>

(* delete_inner: the graph chunk goes first.                               *)
DeleteBegin(id, ws) ==
    /\ phase = "up" /\ op[id] = NoValue /\ row[id] # NoValue /\ ~OwnedByOther(id, ws)
    /\ graph' = [graph EXCEPT ![id] = NoValue]
    /\ op' = [op EXCEPT ![id] = [kind |-> "delete", step |-> "unlinked", val |-> NoValue, ws |-> ws,
                                 text |-> NoValue, new |-> NoValue, old |-> NoValue]]
    /\ UNCHANGED <<row, textRow, snap, phase, indexVars, docs, reader, hurt, bounds>>

(* mark_deleted drops the text in the same batch; a second delete finds    *)
(* nothing to do, and a failed one leaves the vector without its chunk.    *)
MarkDeleted(id) ==
    /\ op[id] # NoValue /\ op[id].step = "unlinked"
    /\ \/ /\ Active(id)
          /\ row' = [row EXCEPT ![id].live = FALSE]
          /\ textRow' = [textRow EXCEPT ![id] = NoValue]
          /\ op' = [op EXCEPT ![id].step = "marked", ![id].old = row[id].internal]
          /\ hurt' = hurt \ {<<id, "graph">>}
          /\ UNCHANGED failures
       \/ /\ ~Active(id) /\ op' = [op EXCEPT ![id] = NoValue]
          /\ UNCHANGED <<row, textRow, hurt, failures>>
       \/ /\ Active(id) /\ failures < MaxFailures /\ failures' = failures + 1
          /\ op' = [op EXCEPT ![id] = NoValue]
          /\ hurt' = hurt \cup {<<id, "graph">>}
          /\ UNCHANGED <<row, textRow>>
    /\ UNCHANGED <<graph, snap, phase, indexVars, docs, reader, crashes>>

DeleteFromIndex(id) ==
    /\ op[id] # NoValue /\ op[id].step = "marked"
    /\ IndexDelete(op[id].old)
    /\ docs' = [docs EXCEPT ![id] = NoValue]
    /\ op' = [op EXCEPT ![id] = NoValue]
    /\ hurt' = hurt \ {<<id, "index">>}
    /\ UNCHANGED <<shardRows, phase, reader, bounds>>

(* get_inner reads the rows, and then the index by the internal id it      *)
(* found, falling back to the stored vector.                               *)
GetBegin(id, ws) ==
    /\ phase = "up" /\ reader = NoValue /\ Active(id) /\ ~OwnedByOther(id, ws)
    /\ reader' = [id |-> id, internal |-> row[id].internal]
    /\ UNCHANGED <<shardRows, phase, indexVars, docs, op, hurt, bounds>>

GetEnd ==
    /\ reader # NoValue /\ reader' = NoValue
    /\ UNCHANGED <<shardRows, phase, indexVars, docs, op, hurt, bounds>>

-----------------------------------------------------------------------------
(* Crash and start-up.                                                     *)

NoIndex == fwd' = [id \in Ids |-> NoValue] /\ slot' = [n \in Internals |-> NoValue] /\ tomb' = {} /\ nextId' = 0

Crash ==
    /\ phase # "down" /\ crashes < MaxCrashes /\ crashes' = crashes + 1
    /\ phase' = "down" /\ NoIndex
    /\ docs' = [id \in Ids |-> NoValue] /\ op' = [id \in Ids |-> NoValue]
    /\ reader' = NoValue /\ hurt' = {}
    /\ UNCHANGED <<shardRows, failures>>

(* durable_vector_fingerprint of the active rows.                          *)
Fingerprint == {[id |-> id, internal |-> row[id].internal, val |-> row[id].val] : id \in ActiveIds}
SnapshotFits == snap # NoValue /\ snap.vectors = Fingerprint

(* rebuild_lexical_index, the bootstrap of an empty graph, and             *)
(* reconcile_projections, which compares counts.                           *)
Reprojected == [id \in Ids |-> IF Active(id) THEN row[id].val ELSE graph[id]]

Serve ==
    /\ phase' = "up"
    /\ docs' = [id \in Ids |-> IF Active(id) THEN textRow[id] ELSE NoValue]
    /\ graph' = IF Cardinality({id \in Ids : graph[id] # NoValue}) # Cardinality(ActiveIds)
                THEN Reprojected ELSE graph

(* The snapshot is loaded when its fingerprint is that of the rows.        *)
LoadSnapshot ==
    /\ phase = "down" /\ SnapshotFits
    /\ fwd' = [id \in Ids |-> IF \E s \in snap.vectors : s.id = id
                              THEN (CHOOSE s \in snap.vectors : s.id = id).internal ELSE NoValue]
    /\ slot' = [n \in Internals |-> IF \E s \in snap.vectors : s.internal = n
                   THEN LET s == CHOOSE s \in snap.vectors : s.internal = n
                        IN  [id |-> s.id, val |-> s.val] ELSE NoValue]
    /\ nextId' = snap.nextId /\ tomb' = {}
    /\ Serve
    /\ UNCHANGED <<row, textRow, snap, op, reader, hurt, bounds>>

ReloadBegin ==
    /\ phase = "down" /\ ~SnapshotFits
    /\ phase' = "reload"
    /\ UNCHANGED <<shardRows, indexVars, docs, op, reader, hurt, bounds>>

(* The active rows are inserted again one by one, in the order of their    *)
(* keys; each is renumbered, in the index and in its row.                  *)
ReloadOne ==
    LET todo == {id \in ActiveIds : fwd[id] = NoValue}
        id == Min(todo)
    IN  /\ phase = "reload" /\ todo # {}
        /\ IndexInsert(id, row[id].val)
        /\ UpsertRow(id, nextId, row[id].val, row[id].ws, "keep")
        /\ UNCHANGED <<graph, snap, phase, docs, op, reader, hurt, bounds>>

(* The reloaded index is saved, unless it is empty or the save fails.      *)
ReloadEnd ==
    /\ phase = "reload" /\ \A id \in ActiveIds : fwd[id] # NoValue
    /\ \/ ActiveIds # {} /\ snap' = [vectors |-> Fingerprint, nextId |-> nextId]
       \/ UNCHANGED snap
    /\ Serve
    /\ UNCHANGED <<row, textRow, indexVars, op, reader, hurt, bounds>>

-----------------------------------------------------------------------------
ShardInit ==
    /\ row = [id \in Ids |-> NoValue] /\ textRow = [id \in Ids |-> NoValue]
    /\ graph = [id \in Ids |-> NoValue] /\ snap = NoValue /\ phase = "up"
    /\ fwd = [id \in Ids |-> NoValue] /\ slot = [n \in Internals |-> NoValue] /\ tomb = {}
    /\ nextId = 0 /\ docs = [id \in Ids |-> NoValue] /\ op = [id \in Ids |-> NoValue]
    /\ reader = NoValue /\ hurt = {} /\ failures = 0 /\ crashes = 0

Mutate(id) ==
    \/ \E w \in {u \in Writes : u.id = id} :
           UpdateBegin(id, w.val, w.ws) \/ InsertBegin(id, w.val, w.ws, w.text)
    \/ PersistUpsert(id) \/ RollbackUpsert(id) \/ ReplaceAndSync(id) \/ ProjectGraph(id)
    \/ \E ws \in Workspaces : DeleteBegin(id, ws)
    \/ MarkDeleted(id) \/ DeleteFromIndex(id)

ShardNext ==
    \/ \E id \in Ids : Mutate(id) \/ \E ws \in Workspaces : GetBegin(id, ws)
    \/ GetEnd
    \/ Compact
    \/ Crash \/ LoadSnapshot \/ ReloadBegin \/ ReloadOne \/ ReloadEnd

ShardSpec == ShardInit /\ [][ShardNext]_shardVars

-----------------------------------------------------------------------------
(* Properties.                                                             *)

(* Type correctness of the rows, the index and the mutations in progress.  *)
ShardTypeOK ==
    /\ row \in [Ids -> Rows \cup {NoValue}] /\ textRow \in [Ids -> Vals \cup {NoValue}]
    /\ graph \in [Ids -> Vals \cup {NoValue}] /\ phase \in {"up", "down", "reload"}
    /\ fwd \in [Ids -> Internals \cup {NoValue}] /\ slot \in [Internals -> Slots \cup {NoValue}]
    /\ tomb \subseteq Internals /\ nextId \in 0..MaxInternal
    /\ docs \in [Ids -> Vals \cup {NoValue}] /\ op \in [Ids -> Ops \cup {NoValue}]
    /\ hurt \subseteq Ids \X {"index", "graph"}

(* A stored vector whose last upsert was acknowledged is searchable under  *)
(* the internal id of its row: no compaction, no renumbering reload, no    *)
(* mutation of another id, finds or tombstones the wrong one.              *)
StoredIsSearchable ==
    phase = "up" => \A id \in ActiveIds :
        op[id] = NoValue /\ <<id, "index">> \notin hurt =>
            /\ fwd[id] = row[id].internal /\ fwd[id] \notin tomb
            /\ slot[fwd[id]] = [id |-> id, val |-> row[id].val]

(* What search returns is stored: an id that was deleted, or never         *)
(* acknowledged, is not found once its mutation is over, and a stored one  *)
(* is found with the vector it has.                                        *)
FoundIsStored ==
    phase = "up" => \A n \in Internals : slot[n] # NoValue /\ n \notin tomb /\ op[slot[n].id] = NoValue =>
        Active(slot[n].id) /\ slot[n].val = row[slot[n].id].val

(* The lexical index holds the text that a restart would rebuild.          *)
DocsFollowRows ==
    phase = "up" => \A id \in Ids : op[id] = NoValue => docs[id] = textRow[id]

(* Every stored vector has its chunk in the graph, unless a call that said *)
(* so failed: the start-up check compares counts, and that is enough to    *)
(* find a chunk that a crash left out.                                     *)
GraphComplete ==
    phase = "up" => \A id \in Ids : op[id] = NoValue /\ <<id, "graph">> \notin hurt =>
        (graph[id] # NoValue <=> Active(id))

(* A read that resolved its internal id before a compaction, an upsert or  *)
(* a delete ran never returns the vector of another id.                    *)
ReadsOwnVector ==
    reader # NoValue /\ slot[reader.internal] # NoValue => slot[reader.internal].id = reader.id

(* The rows are a map in which a deleted id is never used again and keeps  *)
(* its workspace, whatever interleaves, fails or crashes.                  *)
Content == [id \in Ids |-> IF row[id] = NoValue THEN NoValue
                           ELSE [val |-> row[id].val, ws |-> row[id].ws, live |-> row[id].live]]
Map == INSTANCE VectorMap WITH content <- Content
ImplementsMap == Map!MapSpec

(* Between calls the shard's index, text index, graph and rows agree,      *)
(* whatever write failed half way and wherever the process died.           *)
ShardConsistent ==
    /\ ShardTypeOK
    /\ StoredIsSearchable
    /\ FoundIsStored
    /\ DocsFollowRows
    /\ GraphComplete
    /\ ReadsOwnVector
=============================================================================
