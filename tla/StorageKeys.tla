----------------------------- MODULE StorageKeys -----------------------------
(***************************************************************************)
(* The rows of the memory ledger and of the id mapping share one ordered   *)
(* store (storage/src/backend.rs): the keys they are written under         *)
(* (storage/src/memory.rs, id_mapping.rs), the scans that read them back   *)
(* by prefix, and what is left of the batches after a power cut.           *)
(*                                                                         *)
(* Bytes are small numbers; a length and a sequence number are written in  *)
(* the same bytes as the names.                                            *)
(***************************************************************************)
EXTENDS Naturals, Sequences, FiniteSets, SequencesExt, FiniteSetsExt

CONSTANTS
    KindBytes,     \* kind -> the bytes of its name
    UsedKinds,     \* the kinds of rows written
    Workspaces,    \* byte sequences: workspace names, and collection names
    LocalNames,    \* byte sequences: ids, principals, projection keys
    LastSequenceNo,\* bound: sequence numbers
    MaxBatchWrites \* bound: batches

VARIABLES
    log,      \* the write-ahead log of the store: <<rows put, rows deleted>>
    synced    \* the batches the disk certainly holds

keyVars == <<log, synced>>

(* The kinds of the ledger's rows and what their keys are made of after    *)
(* the workspace: names and big-endian numbers.                            *)
RecordKinds ==
    [meta |-> <<>>, assertion |-> <<"name">>, version |-> <<"name">>, evidence |-> <<"name">>,
     observation |-> <<"name">>, observation_by_evidence |-> <<"name">>]
JobKinds ==
    [compiler_job |-> <<"name">>, compiler_job_status |-> <<"name">>,
     compiler_job_failure |-> <<"name", "number">>]
LinkKinds ==
    [derivation |-> <<"name">>, relation |-> <<"name">>, relation_by_version |-> <<"name", "name">>,
     reinforcement |-> <<"name", "name">>, policy_decision |-> <<"name">>]
StateKinds ==
    [head |-> <<"name">>, lifecycle_current |-> <<"name">>, lifecycle_history |-> <<"name", "number">>,
     mutation_sequence |-> <<"number">>, mutation_id |-> <<"name">>]
LogKinds == [idempotency |-> <<"name", "name", "name">>, outbox |-> <<"number">>]
DeletionKinds ==
    [recall_snapshot |-> <<"name">>, deletion_plan |-> <<"name">>, deletion_execution |-> <<"name">>,
     deletion_tombstone |-> <<"name", "name">>]
ProjectionKinds ==
    [projection_checkpoint |-> <<"name">>, projection_data |-> <<"name", "raw">>,
     active_projection_set |-> <<>>]
LedgerKinds ==
    RecordKinds @@ JobKinds @@ LinkKinds @@ StateKinds @@ LogKinds @@ DeletionKinds @@ ProjectionKinds

(* The three rows of a vector, and the one kind without a workspace.       *)
VectorKinds == {"id", "vec", "txt"}
GlobalKinds == [projection_set |-> <<"name", "number">>]

-----------------------------------------------------------------------------
(* to_be_bytes, two bytes wide.                                            *)
BigEndian(n) == <<n \div 2, n % 2>>

NumberBytes(n) == BigEndian(n)

(* push_component.                                                         *)
Component(component) == <<Len(component)>> \o component

Namespace == <<8>>
Joined(parts) == FlattenSeq([n \in DOMAIN parts |-> Component(parts[n])])

(* scoped_key, global_key and, with the raw end of a projection's key,     *)
(* projection_data_key.                                                    *)
ScopedKey(kind, ws, parts) ==
    Namespace \o Component(KindBytes[kind]) \o Component(ws) \o
    IF kind = "projection_data" /\ Len(parts) = 2
    THEN Component(parts[1]) \o parts[2] ELSE Joined(parts)

GlobalKey(kind, parts) == Namespace \o Component(KindBytes[kind]) \o Joined(parts)

(* make_key_with_prefix and make_collection_prefix: the length of the      *)
(* collection's name, a colon, the name and the id.                        *)
Colon == <<9>>

(* A plausible bug: no length before the collection's name.                *)
NamePrefix(kind, coll) == KindBytes[kind] \o Colon \o coll
CollectionPrefix(kind, coll) == KindBytes[kind] \o <<Len(coll)>> \o Colon \o coll
VectorKey(kind, coll, id) == CollectionPrefix(kind, coll) \o id

(* A row, with the key it is written under.                                *)
StoredUnder(kind, ws, parts) ==
    CASE kind \in DOMAIN LedgerKinds -> ScopedKey(kind, ws, parts)
      [] kind \in DOMAIN GlobalKinds -> GlobalKey(kind, parts)
      [] kind \in VectorKinds -> VectorKey(kind, ws, parts[1])
Row3(kind, ws, parts) ==
    [kind |-> kind, ws |-> ws, parts |-> parts, key |-> StoredUnder(kind, ws, parts)]

Numbers == {NumberBytes(n) : n \in 0 .. LastSequenceNo}
PartsOf(shape) ==
    {p \in [DOMAIN shape -> LocalNames \cup Numbers] :
        \A n \in DOMAIN shape : p[n] \in (IF shape[n] = "number" THEN Numbers ELSE LocalNames)}
RowsOf(kind) ==
    CASE kind \in DOMAIN LedgerKinds ->
            {Row3(kind, ws, p) : ws \in Workspaces, p \in PartsOf(LedgerKinds[kind])}
      [] kind \in DOMAIN GlobalKinds -> {Row3(kind, <<>>, p) : p \in PartsOf(GlobalKinds[kind])}
      [] kind \in VectorKinds -> {Row3(kind, ws, <<p>>) : ws \in Workspaces, p \in LocalNames}
AllRows == UNION {RowsOf(kind) : kind \in UsedKinds}

-----------------------------------------------------------------------------
(* The store as the log gives it: the last batch that names a key decides. *)
LastBatch(k) ==
    LET named == {n \in DOMAIN log : k \in {r.key : r \in log[n].put \cup log[n].del}}
    IN IF named = {} THEN 0 ELSE Max(named)
Held == {r \in UNION {log[n].put : n \in DOMAIN log} :
            /\ LastBatch(r.key) > 0 /\ r \in log[LastBatch(r.key)].put}

KeysInit == log = <<>> /\ synced = 0

Batch(put, del, sync) == [put |-> put, del |-> del, sync |-> sync]

SyncedAfter(sync) == IF sync THEN Len(log) + 1 ELSE synced

(* write_batch and write_batch_sync: all of a batch or nothing; a synced   *)
(* one brings everything before it to the disk.                            *)
PutBatch(put, del, sync) ==
    /\ Len(log) < MaxBatchWrites
    /\ log' = Append(log, Batch(put, del, sync))
    /\ synced' = SyncedAfter(sync)

(* flush, which a checkpoint starts with.                                  *)
FlushStore == synced < Len(log) /\ synced' = Len(log) /\ UNCHANGED log

(* A power cut keeps the synced batches and perhaps some of those after.   *)
PowerCut ==
    /\ \E n \in synced .. Len(log) : n < Len(log) /\ log' = SubSeq(log, 1, n) /\ synced' = n

KeysNext ==
    \/ \E sync \in BOOLEAN :
          \/ \E r \in AllRows : PutBatch({r}, {}, sync)
          \/ \E r \in Held : PutBatch({}, {r}, sync)
    \/ FlushStore \/ PowerCut

-----------------------------------------------------------------------------
(* Byte order of keys.                                                     *)
Before(k, l) ==
    \/ Len(k) < Len(l) /\ IsPrefix(k, l)
    \/ \E n \in 1 .. Min({Len(k), Len(l)}) : k[n] < l[n] /\ SubSeq(k, 1, n - 1) = SubSeq(l, 1, n - 1)

(* scan_prefix_limited without a limit, and count_prefix.                  *)
ScanPrefix(prefix) == {r \in Held : IsPrefix(prefix, r.key)}

(* scan_prefix_from_limited: after a key, in order, at most limit.         *)
ScanFrom(prefix, start, limit) ==
    LET after == {r \in ScanPrefix(prefix) : Before(start, r.key)}
    IN {r \in after : Cardinality({s \in after : Before(s.key, r.key)}) < limit}

(* Two rows that are held never share a key: a write of one row neither    *)
(* replaces nor deletes another (scoped_key, global_key,                   *)
(* make_key_with_prefix).                                                  *)
RowsKeepApart ==
    \A m, n \in DOMAIN log : \A r \in log[m].put, s \in log[n].put \cup log[n].del :
        r.key = s.key => r = s

(* A scan by kind and workspace, or by the first of several components,    *)
(* gives the rows of that kind, workspace and component and no others; a   *)
(* count by prefix counts them.                                            *)
ScansExact ==
    /\ \A kind \in UsedKinds \cap DOMAIN LedgerKinds, ws \in Workspaces :
          /\ ScanPrefix(ScopedKey(kind, ws, <<>>)) = {r \in Held : r.kind = kind /\ r.ws = ws}
          /\ Len(LedgerKinds[kind]) = 2 =>
                \A p \in LocalNames : ScanPrefix(ScopedKey(kind, ws, <<p>>)) =
                    {r \in Held : r.kind = kind /\ r.ws = ws /\ r.parts[1] = p}
    /\ \A kind \in UsedKinds \cap VectorKinds, ws \in Workspaces :
          ScanPrefix(CollectionPrefix(kind, ws)) = {r \in Held : r.kind = kind /\ r.ws = ws}

(* The outbox is read in the order of its sequence numbers: what follows a *)
(* number, cut at a limit, are the lowest numbers above it, so a follower  *)
(* that reads in steps misses none (outbox_entries).                       *)
SequenceOf(r) == CHOOSE n \in 0 .. LastSequenceNo : NumberBytes(n) = r.parts[1]
OutboxInOrder ==
    "outbox" \in UsedKinds =>
    \A ws \in Workspaces, n \in 0 .. LastSequenceNo :
        LET all == {r \in Held : r.kind = "outbox" /\ r.ws = ws /\ SequenceOf(r) > n}
            got == ScanFrom(ScopedKey("outbox", ws, <<>>), ScopedKey("outbox", ws, <<NumberBytes(n)>>), 1)
        IN /\ got \subseteq all /\ (all # {} => Cardinality(got) = 1)
           /\ \A r \in got, s \in all : SequenceOf(r) <= SequenceOf(s)

(* Keys of different rows differ, a prefix scan finds the rows of its      *)
(* collection and no other, and the outbox is scanned in the order it was  *)
(* written.                                                                *)
KeysApart ==
    /\ RowsKeepApart
    /\ ScansExact
    /\ OutboxInOrder
=============================================================================
