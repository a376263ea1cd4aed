----------------------------- MODULE HnswIndex ------------------------------
(***************************************************************************)
(* The HNSW index of a shard: its snapshot and start, and a search of it.  *)
(***************************************************************************)
EXTENDS Naturals, Sequences, FiniteSets, FiniteSetsExt, TLC, SequencesExt

(***************************************************************************)
(* The shard's HNSW snapshot (faiss-wrapper/src/snapshot.rs, tombstone.rs) *)
(* and the start of the server that loads it or rebuilds the index from    *)
(* the stored vectors (server/src/lib.rs, build_service).  The process may *)
(* die between any two writes; a file may rot; the index may be configured *)
(* otherwise at the next start.                                            *)
(*                                                                         *)
(* A SHA-256 digest is the content itself.  RocksDB rows are synced, so    *)
(* they survive; the snapshot is only a cache of what they say.            *)
(***************************************************************************)

CONSTANTS
    SnapIds,     \* vector ids
    SnapVecs,    \* vectors
    Confs,       \* index configurations a start may ask for
    ExactConf,   \* the one whose precision is i8: exact vectors are stored beside
    Absent,      \* model value: no row, directory, file or index
    MaxSnapWrites, MaxStarts   \* bounds

(* Absent is no row.                                                       *)
ASSUME SnapAssumption == Absent \notin [int : Nat, vec : SnapVecs]

VARIABLES
    rows,     \* id -> durable row [int, vec]; Absent when never stored or deleted
    everDel,  \* deleted ids: they are not reused
    idx,      \* the index in memory
    dest, bak,\* the published directory and the one moved aside
    stagedDir,   \* process id -> its partial directory
    pid, snapPhase, conf,
    todo,     \* ids a reload has still to insert
    started, written

snapVars == <<rows, everDel, idx, dest, bak, stagedDir, pid, snapPhase, conf, todo, started, written>>

-----------------------------------------------------------------------------
(* The index: id -> internal id, internal id -> vector, deleted internal   *)
(* ids, the next internal id.                                              *)
MapWith(f, k, v) == [x \in DOMAIN f \cup {k} |-> IF x = k THEN v ELSE f[x]]
NewIndex == [map |-> <<>>, vec |-> <<>>, tomb |-> {}, next |-> 0]
IndexPut(x, i, v) ==
    LET n == IF i \in DOMAIN x.map THEN x.map[i] ELSE x.next
    IN [map  |-> MapWith(x.map, i, n), vec |-> MapWith(x.vec, n, v), tomb |-> x.tomb \ {n},
        next |-> IF i \in DOMAIN x.map THEN x.next ELSE x.next + 1]
MarkTomb(x, n) == [x EXCEPT !.tomb = @ \cup {n}]

ActiveRows == {i \in SnapIds : rows[i] # Absent}
(* A plausible bug: the vectors are left out of the fingerprint.           *)
WithoutVectors == {<<i, rows[i].int>> : i \in ActiveRows}
(* durable_vector_fingerprint of load_active_vectors.                      *)
Payload == {<<i, rows[i].int, rows[i].vec>> : i \in ActiveRows}

(* encode_mappings refuses an index whose maps and graph disagree.         *)
MapsAgree(x) ==
    /\ {x.map[i] : i \in DOMAIN x.map} = DOMAIN x.vec
    /\ Cardinality(DOMAIN x.map) = Cardinality(DOMAIN x.vec)
    /\ \A i \in DOMAIN x.map : x.map[i] < x.next

EmptyDir == [manifest |-> Absent, graph |-> Absent, mappings |-> Absent,
             tombstones |-> Absent, exact |-> Absent]
ExactFile(x) == IF conf = ExactConf THEN x.vec ELSE Absent
ManifestOf(x, d) ==
    [conf |-> conf, next |-> x.next, count |-> Cardinality(DOMAIN x.vec),
     deleted |-> Cardinality(x.tomb), payload |-> Payload, graph |-> d.graph,
     mappings |-> d.mappings, tombstones |-> d.tombstones, exact |-> d.exact]

(* load: configuration, fingerprint, checksums, then what the maps say.    *)
DigestsHold(d) ==
    /\ d.graph = d.manifest.graph /\ d.mappings = d.manifest.mappings
    /\ d.tombstones = d.manifest.tombstones
    /\ (d.manifest.conf = ExactConf) => d.exact # Absent /\ d.exact = d.manifest.exact
MappingsFit(d) ==
    /\ Cardinality(DOMAIN d.mappings) = d.manifest.count
    /\ \A i \in DOMAIN d.mappings : d.mappings[i] < d.manifest.next /\ d.mappings[i] \in DOMAIN d.graph
    /\ \A i, j \in DOMAIN d.mappings : d.mappings[i] = d.mappings[j] => i = j
TombstonesFit(d) ==
    /\ Cardinality(d.tombstones) = d.manifest.deleted /\ d.manifest.deleted <= d.manifest.count
    /\ \A n \in d.tombstones : n < d.manifest.next
Loadable(d) ==
    /\ d.manifest.conf = conf
    /\ d.manifest.payload = Payload
    /\ DigestsHold(d) /\ MappingsFit(d) /\ TombstonesFit(d)
Loaded(d) == [map |-> d.mappings, vec |-> d.graph, tomb |-> d.tombstones, next |-> d.manifest.next]
(* external_id_maps_to, for every stored vector.                           *)
MapsStored(x) == \A i \in ActiveRows : i \in DOMAIN x.map /\ x.map[i] = rows[i].int

-----------------------------------------------------------------------------
SnapInit ==
    /\ rows = [i \in SnapIds |-> Absent] /\ everDel = {}
    /\ idx = Absent /\ dest = Absent /\ bak = Absent /\ stagedDir = <<>>
    /\ pid = 1 /\ snapPhase = "down" /\ conf \in Confs /\ todo = {} /\ started = 0 /\ written = 0

Files == <<dest, bak, stagedDir>>
Store == <<rows, everDel, written>>

(* build_service: a manifest is looked for, nothing else.                  *)
Start(c, p) ==
    /\ snapPhase = "down" /\ started < MaxStarts
    /\ started' = started + 1 /\ conf' = c /\ pid' = p /\ snapPhase' = "open"
    /\ UNCHANGED <<Files, Store, idx, todo>>

OpenIndex ==
    /\ snapPhase = "open"
    /\ IF dest # Absent /\ dest.manifest # Absent /\ Loadable(dest) /\ MapsStored(Loaded(dest))
       THEN idx' = Loaded(dest) /\ snapPhase' = "up" /\ UNCHANGED todo
       ELSE idx' = NewIndex /\ snapPhase' = "reload" /\ todo' = ActiveRows
    /\ UNCHANGED <<Files, Store, pid, conf, started>>

(* One stored vector goes into the new index and its row gets the number   *)
(* the index gave it.                                                      *)
ReloadVector ==
    /\ snapPhase = "reload" /\ todo # {}
    /\ LET i == CHOOSE x \in todo : TRUE
           x == IndexPut(idx, i, rows[i].vec)
       IN /\ idx' = x
          /\ rows' = [rows EXCEPT ![i].int = x.map[i]]
          /\ todo' = todo \ {i}
    /\ UNCHANGED <<Files, everDel, written, pid, snapPhase, conf, started>>

(* The reload is over: a snapshot is saved unless there is nothing in it.  *)
ReloadDone ==
    /\ snapPhase = "reload" /\ todo = {}
    /\ IF ActiveRows # {} /\ MapsAgree(idx)
       THEN snapPhase' = "save" /\ stagedDir' = MapWith(stagedDir, pid, EmptyDir)
       ELSE snapPhase' = "up" /\ UNCHANGED stagedDir
    /\ UNCHANGED <<Store, dest, bak, idx, pid, conf, todo, started>>

-----------------------------------------------------------------------------
(* save: the files one after the other, the manifest last.                 *)
Mine == stagedDir[pid]
FileOrder == <<"graph", "mappings", "tombstones", "exact", "manifest">>

NextFile ==
    LET left == {n \in DOMAIN FileOrder : Mine[FileOrder[n]] = Absent
                    /\ (FileOrder[n] = "exact" => conf = ExactConf)}
    IN FileOrder[CHOOSE n \in left : \A k \in left : n <= k]
FileOf(f) ==
    CASE f = "graph" -> idx.vec
      [] f = "mappings" -> idx.map
      [] f = "tombstones" -> idx.tomb
      [] f = "exact" -> ExactFile(idx)
      [] f = "manifest" -> ManifestOf(idx, [graph |-> idx.vec, mappings |-> idx.map,
                                            tombstones |-> idx.tomb, exact |-> ExactFile(idx)])
WriteSnapshotFile ==
    /\ snapPhase = "save"
    /\ stagedDir' = [stagedDir EXCEPT ![pid][NextFile] = FileOf(NextFile)]
    /\ snapPhase' = IF NextFile = "manifest" THEN "drop_backup" ELSE "save"
    /\ UNCHANGED <<Store, dest, bak, idx, pid, conf, todo, started>>

Unstaged == [p \in DOMAIN stagedDir \ {pid} |-> stagedDir[p]]

(* An error in save or publish: the partial directory is removed, the      *)
(* server warns and goes on.                                               *)
SaveFails ==
    /\ snapPhase \in {"save", "drop_backup"}
    /\ stagedDir' = Unstaged /\ snapPhase' = "up"
    /\ UNCHANGED <<Store, dest, bak, idx, pid, conf, todo, started>>

(* publish_directory.                                                      *)
DropBackup ==
    /\ snapPhase = "drop_backup" /\ bak' = Absent /\ snapPhase' = "move_aside"
    /\ UNCHANGED <<Store, dest, stagedDir, idx, pid, conf, todo, started>>
MoveAside ==
    /\ snapPhase = "move_aside"
    /\ dest' = Absent /\ bak' = dest /\ snapPhase' = "publish"
    /\ UNCHANGED <<Store, stagedDir, idx, pid, conf, todo, started>>
PublishDirectory ==
    /\ snapPhase = "publish"
    /\ \/ dest' = Mine /\ bak' = bak /\ snapPhase' = "tidy"
       \/ dest' = bak /\ bak' = Absent /\ snapPhase' = "up"
    /\ stagedDir' = Unstaged
    /\ UNCHANGED <<Store, idx, pid, conf, todo, started>>
TidyBackup ==
    /\ snapPhase = "tidy" /\ bak' = Absent /\ snapPhase' = "up"
    /\ UNCHANGED <<Store, dest, stagedDir, idx, pid, conf, todo, started>>

-----------------------------------------------------------------------------
(* What the shard service does to the index and its rows.                  *)
UpsertVector(i, v) ==
    /\ snapPhase = "up" /\ written < MaxSnapWrites /\ i \notin everDel
    /\ LET x == IndexPut(idx, i, v)
       IN idx' = x /\ rows' = [rows EXCEPT ![i] = [int |-> x.map[i], vec |-> v]]
    /\ written' = written + 1
    /\ UNCHANGED <<Files, everDel, pid, snapPhase, conf, todo, started>>
DeleteVector(i) ==
    /\ snapPhase = "up" /\ written < MaxSnapWrites /\ rows[i] # Absent
    /\ idx' = MarkTomb(idx, rows[i].int)
    /\ rows' = [rows EXCEPT ![i] = Absent] /\ everDel' = everDel \cup {i}
    /\ written' = written + 1
    /\ UNCHANGED <<Files, pid, snapPhase, conf, todo, started>>

Die ==
    /\ snapPhase # "down" /\ snapPhase' = "down" /\ idx' = Absent /\ todo' = {}
    /\ UNCHANGED <<Files, Store, pid, conf, started>>

(* A file of the published directory rots or is lost while the server is   *)
(* down.                                                                   *)
Rot(f) ==
    /\ snapPhase = "down" /\ dest # Absent /\ dest[f] # Absent
    /\ dest' = [dest EXCEPT ![f] = Absent]
    /\ UNCHANGED <<Store, bak, stagedDir, idx, pid, snapPhase, conf, todo, started>>

SnapNext ==
    \/ \E c \in Confs, p \in 1..2 : Start(c, p)
    \/ OpenIndex \/ ReloadVector \/ ReloadDone
    \/ WriteSnapshotFile \/ SaveFails \/ DropBackup \/ MoveAside \/ PublishDirectory \/ TidyBackup
    \/ \E i \in SnapIds, v \in SnapVecs : UpsertVector(i, v)
    \/ \E i \in SnapIds : DeleteVector(i)
    \/ Die
    \/ \E f \in {"graph", "mappings", "exact"} : Rot(f)

SnapSpec == SnapInit /\ [][SnapNext]_snapVars

-----------------------------------------------------------------------------
(* build_service (server/src/lib.rs:1317): whatever was published, crashed *)
(* through, rotted or reconfigured, a shard that serves answers with       *)
(* exactly the stored vectors, and every row names its own internal id.    *)
StartsWithDurable ==
    snapPhase = "up" =>
        \A i \in SnapIds :
            IF rows[i] # Absent
            THEN /\ i \in DOMAIN idx.map /\ idx.map[i] = rows[i].int
                 /\ idx.vec[idx.map[i]] = rows[i].vec /\ idx.map[i] \notin idx.tomb
            ELSE i \notin DOMAIN idx.map \/ idx.map[i] \in idx.tomb

(* save (snapshot.rs:206): the loader looks for a manifest only, so a      *)
(* directory that has one has the other files too, before it is moved into *)
(* place; what is published has a manifest, wherever the process died.     *)
ManifestLast ==
    /\ \A p \in DOMAIN stagedDir :
          stagedDir[p].manifest # Absent =>
              /\ stagedDir[p].graph # Absent /\ stagedDir[p].mappings # Absent /\ stagedDir[p].tombstones # Absent
              /\ stagedDir[p].manifest.conf = ExactConf => stagedDir[p].exact # Absent
    /\ \A d \in {dest, bak} \ {Absent} : d.manifest # Absent

-----------------------------------------------------------------------------
(***************************************************************************)
(* A search of the HNSW index (faiss-wrapper/src/hnsw.rs): the candidate   *)
(* window grows until top_k live and admitted vectors are found or the     *)
(* limit is reached.  Deletes take another lock than searches, and the     *)
(* filter reads metadata that may change, so both happen between two       *)
(* passes of one search.                                                   *)
(*                                                                         *)
(* The graph's answer is taken as exact: slots are numbered by distance    *)
(* from the query.  With the i8 precision the distances are those of the   *)
(* codes and Exact is the order of the original vectors.                   *)
(***************************************************************************)

CONSTANTS
    SlotCount,      \* vectors in the graph, nearest first 1..SlotCount
    Queries,        \* [topK, limit, filtered, caching, quantised]
    Exact,          \* slot -> its place by exact distance
    FilterFactor, MinFiltered,  \* FILTER_CANDIDATE_MULTIPLIER, MIN_FILTER_CANDIDATES
    RerankFloor,    \* I8_RERANK_CANDIDATES
    MaxChanges      \* bound: deletes and filter changes

VARIABLES
    dead,      \* tombstoned slots
    allowed,   \* slots the filter admits now
    seek,      \* the running search
    changes

searchVars == <<dead, allowed, seek, changes>>

Places == 1..SlotCount
NoSearch == [pc |-> "idle"]

(* candidate_count: room for the tombstones, all rounded up.               *)
BaseCount(q) == IF q.filtered THEN Max({q.topK * FilterFactor, MinFiltered}) ELSE q.topK + (q.topK + 1) \div 2
CandidateCount(q, tombstoned) ==
    LET active == SlotCount - Min({tombstoned, SlotCount})
    IN IF SlotCount = 0 \/ active = 0 THEN 0
       ELSE Min({(BaseCount(q) * SlotCount + active - 1) \div active, SlotCount})

NextCandidateCount(n, limit) == Min({Max({2 * n, n + 1}), limit})

(* search_window before its first pass.                                    *)
FirstCount(q, tombstoned) ==
    LET n == CandidateCount(q, tombstoned)
    IN IF q.quantised THEN Max({n, Max({Min({RerankFloor, SlotCount}), q.topK})}) ELSE n
LimitOf(q, tombstoned) ==
    IF q.filtered \/ tombstoned > 0 THEN Min({Max({q.limit, q.topK}), SlotCount})
    ELSE FirstCount(q, tombstoned)

SearchInit ==
    /\ dead \in SUBSET Places /\ allowed \in SUBSET Places
    /\ seek = NoSearch /\ changes = 0

StartSearch(q) ==
    /\ seek.pc = "idle"
    /\ LET t == Cardinality(dead)
           n == FirstCount(q, t)
       IN seek' = IF CandidateCount(q, t) = 0
                  THEN [pc |-> "done", q |-> q, hits |-> <<>>, limited |-> FALSE, n |-> 0, limit |-> 0, refused |-> {}]
                  ELSE [pc |-> "pass", q |-> q, hits |-> <<>>, limited |-> FALSE,
                        n |-> Min({n, LimitOf(q, t)}), limit |-> LimitOf(q, t), refused |-> {}]
    /\ UNCHANGED <<dead, allowed, changes>>

(* One pass over the n nearest: live slots the filter admits; refusals are *)
(* remembered when the caller says so, admissions never.                   *)
Asked(s) == {x \in 1..Min({s.n, SlotCount}) : x \notin dead /\ ~(s.q.caching /\ x \in s.refused)}
Admitted(s) == {x \in Asked(s) : s.q.filtered => x \in allowed}
ByDistance(S) == SetToSortSeq(S, <)

ByExact(S) == SetToSortSeq(S, LAMBDA x, y : Exact[x] < Exact[y])
Hits(s) ==
    LET ranked == IF s.q.quantised THEN ByExact(Admitted(s)) ELSE ByDistance(Admitted(s))
    IN SubSeq(ranked, 1, Min({s.q.topK, Len(ranked)}))

CandidateLimited(s, found) == s.q.filtered /\ Len(found) < s.q.topK /\ s.n >= s.q.limit

Pass ==
    /\ seek.pc = "pass"
    /\ LET found == Hits(seek)
           refused == IF seek.q.filtered THEN seek.refused \cup (Asked(seek) \ allowed) ELSE {}
       IN seek' = IF Len(found) >= seek.q.topK \/ seek.n >= seek.limit
                  THEN [seek EXCEPT !.pc = "done", !.hits = found, !.limited = CandidateLimited(seek, found),
                                    !.refused = refused]
                  ELSE [seek EXCEPT !.n = NextCandidateCount(@, seek.limit), !.refused = refused]
    /\ UNCHANGED <<dead, allowed, changes>>

EndSearch == seek.pc = "done" /\ seek' = NoSearch /\ UNCHANGED <<dead, allowed, changes>>

(* delete, and a change of the metadata the filter reads.                  *)
DeleteSlot(x) ==
    /\ seek.pc = "pass" /\ changes < MaxChanges /\ x \notin dead
    /\ dead' = dead \cup {x} /\ changes' = changes + 1 /\ UNCHANGED <<allowed, seek>>
ChangeMetadata(x) ==
    /\ seek.pc = "pass" /\ changes < MaxChanges
    /\ allowed' = IF x \in allowed THEN allowed \ {x} ELSE allowed \cup {x}
    /\ changes' = changes + 1 /\ UNCHANGED <<dead, seek>>

SearchNext ==
    \/ \E q \in Queries : StartSearch(q)
    \/ Pass \/ EndSearch
    \/ \E x \in Places : DeleteSlot(x) \/ ChangeMetadata(x)

-----------------------------------------------------------------------------
Wanted(q) == {x \in Places \ dead : q.filtered => x \in allowed}
Short == Len(seek.hits) < seek.q.topK

(* search_candidate_window (hnsw.rs:420): when a search answers, every hit *)
(* is live and admitted, and a filtered answer shorter than asked either   *)
(* holds everything there is or says that it was limited, unless a refusal *)
(* was remembered.  An unfiltered one is short for want of vectors, or     *)
(* because its window was cut at the caller's limit by tombstones, or      *)
(* because vectors were deleted while it ran: nothing says so then.        *)
ShortIsExplained ==
    seek.pc = "done" =>
        /\ \A k \in DOMAIN seek.hits : seek.hits[k] \in Wanted(seek.q)
        /\ Short /\ seek.q.filtered /\ changes = 0 =>
              seek.limited \/ Wanted(seek.q) = ToSet(seek.hits)
        /\ Short /\ ~seek.q.filtered /\ changes = 0 =>
              Wanted(seek.q) = ToSet(seek.hits) \/ seek.n >= Max({seek.q.limit, seek.q.topK})

(* An answer holds the nearest of what its window saw, in order: with i8   *)
(* in the order of the exact vectors, whatever the codes say.              *)
NearestFirst ==
    seek.pc = "done" /\ changes = 0 =>
        LET better(x, y) == IF seek.q.quantised THEN Exact[x] < Exact[y] ELSE x < y
        IN \A k \in DOMAIN seek.hits :
              /\ \A j \in DOMAIN seek.hits : j < k => better(seek.hits[j], seek.hits[k])
              /\ \A x \in Wanted(seek.q) \cap (1..seek.n) : better(x, seek.hits[k]) => x \in ToSet(seek.hits)

(* A start that trusts a snapshot serves the durable vectors, a manifest   *)
(* names only files that are written, and a search returns the nearest     *)
(* admitted vectors or says why it is short.                               *)
HnswSound ==
    /\ StartsWithDurable
    /\ ManifestLast
    /\ ShortIsExplained
    /\ NearestFirst
=============================================================================
