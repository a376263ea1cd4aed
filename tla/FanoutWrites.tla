---------------------------- MODULE FanoutWrites ----------------------------
(***************************************************************************)
(* Writes through the coordinator: insert, update, delete, insert_batch    *)
(* and get of CoordinatorService (coordinator/src/server.rs) over          *)
(* FanoutExecutor's broadcasts (fanout.rs) and ConsistencyTracker          *)
(* (consistency.rs).                                                       *)
(*                                                                         *)
(* A shard is a map in which a deleted id stays dead (VectorShard).  A     *)
(* request reaches its shard or not, and its answer may be lost; one whose *)
(* answer was lost may still be applied later (stray).  Copies of an id on *)
(* other shards than its own are there from the start, as an older ring    *)
(* left them.  settled is history: what a call that ran alone on its id    *)
(* promised.                                                               *)
(***************************************************************************)
EXTENDS Naturals, FiniteSets

CONSTANTS
    WShards, WIds,
    Home,          \* the shard an id is routed to
    Clients,
    MaxCalls,      \* bound: calls ever made
    WriteTtl,      \* write_ttl, in ticks
    Nobody

ASSUME WritesAssumption ==
    /\ Home \in [WIds -> WShards] /\ IsFiniteSet(WShards) /\ IsFiniteSet(WIds)
    /\ MaxCalls \in Nat /\ WriteTtl \in Nat

VARIABLES
    rows,          \* the row of each id on each shard
    tracked,       \* ConsistencyTracker.writes: shard and age
    call,          \* the call each client makes
    calls,         \* calls made, which numbers the values written
    stray,         \* requests that were given up and may still arrive
    settled

writesVars == <<rows, tracked, call, calls, stray, settled>>

Row(st, val) == [st |-> st, val |-> val]
Live(row) == row.st = "live"
Dead(row) == row.st = "dead"
NoCalls == [op |-> "none"]
CallsOn(id) == {c \in Clients : call[c].op # "none" /\ id \in call[c].ids}
Others(id) == WShards \ {Home[id]}

-----------------------------------------------------------------------------
WritesInit ==
    /\ rows \in [WShards -> [WIds -> {Row("none", 0), Row("live", 0)}]]
    /\ tracked = [id \in WIds |-> Nobody]
    /\ call = [c \in Clients |-> NoCalls]
    /\ calls = 0 /\ stray = {}
    /\ settled = [id \in WIds |-> Nobody]

(* A call begins; it and the calls it overlaps promise nothing.            *)
Begin(c, op, ids, asks) ==
    /\ call[c].op = "none" /\ calls < MaxCalls
    /\ calls' = calls + 1
    /\ LET crowd == UNION {CallsOn(id) : id \in ids}
           alone == crowd = {} /\ \A r \in stray : r.id \notin ids IN
       call' = [d \in Clients |->
          IF d = c THEN [op |-> op, ids |-> ids, val |-> calls + 1, asks |-> asks,
                         failed |-> {}, alone |-> alone]
          ELSE IF d \in crowd THEN [call[d] EXCEPT !.alone = FALSE] ELSE call[d]]
    /\ settled' = [id \in WIds |-> IF id \in ids THEN Nobody ELSE settled[id]]
    /\ UNCHANGED <<rows, tracked, stray>>

Ask(k, i, s) == [kind |-> k, id |-> i, shard |-> s]

BeginInsert(c, id) == Begin(c, "insert", {id}, {Ask("put", id, Home[id])})
BeginUpdate(c, id) == Begin(c, "update", {id}, {Ask("put", id, Home[id])})
BeginDelete(c, id) == Begin(c, "delete", {id}, {Ask("del", id, s) : s \in WShards})
(* insert_batch groups by shard; a shard's failures are per id.            *)
BeginBatch(c) == Begin(c, "batch", WIds, {Ask("put", id, Home[id]) : id \in WIds})

(* The shard's side.                                                       *)
Refuses(r) == r.kind = "put" /\ Dead(rows[r.shard][r.id])
Applied(r, val) ==
    [rows EXCEPT ![r.shard][r.id] =
        IF r.kind = "put" THEN (IF Dead(@) THEN @ ELSE Row("live", val))
        ELSE IF Live(@) THEN Row("dead", 0) ELSE @]

Answered(c, r, ok) ==
    call' = [call EXCEPT ![c].asks = @ \ {r}, ![c].failed = IF ok THEN @ ELSE @ \cup {r.id}]

ShardReplies(c, r) ==
    /\ call[c].op # "none" /\ r \in call[c].asks
    /\ rows' = Applied(r, call[c].val)
    /\ Answered(c, r, ~Refuses(r))
    /\ UNCHANGED <<tracked, calls, stray, settled>>

(* The connection fails, or the answer does not come in time: the shard    *)
(* applied the request, never will, or will yet.                           *)
ShardSilent(c, r) ==
    /\ call[c].op # "none" /\ r \in call[c].asks
    /\ Answered(c, r, FALSE)
    /\ \/ rows' = Applied(r, call[c].val) /\ UNCHANGED stray
       \/ UNCHANGED <<rows, stray>>
       \/ stray' = stray \cup {[kind |-> r.kind, id |-> r.id, shard |-> r.shard,
                                val |-> call[c].val]}
          /\ UNCHANGED rows
    /\ UNCHANGED <<tracked, calls, settled>>

StrayArrives(r) ==
    /\ rows' = Applied(r, r.val)
    /\ stray' = stray \ {r}
    /\ UNCHANGED <<tracked, call, calls, settled>>

(* A plausible bug: an update leaves the copies of other shards alone.     *)
CleanupNowhere(id) == {Ask("del", id, s) : s \in {}}

(* broadcast_update: once the shard of the id has the new vector, the      *)
(* others delete their copies.                                             *)
CleanupAsks(id) == {Ask("del", id, s) : s \in Others(id)}

UpdateCleanup(c) ==
    /\ call[c].op = "update" /\ call[c].asks = {} /\ call[c].failed = {}
    /\ call' = [call EXCEPT ![c].op = "cleanup",
                            ![c].asks = UNION {CleanupAsks(id) : id \in call[c].ids}]
    /\ UNCHANGED <<rows, tracked, calls, stray, settled>>

(* record_write and confirm_write, record_delete: of a failed update too,  *)
(* not of a failed insert, and never of a batch.                           *)
Recorded(c) ==
    [id \in WIds |->
        IF id \notin call[c].ids \/ call[c].op = "batch" THEN tracked[id]
        ELSE IF call[c].op = "delete" THEN Nobody
        ELSE IF call[c].op = "insert" /\ call[c].failed # {} THEN tracked[id]
        ELSE [shard |-> Home[id], age |-> 0]]

Promise(c, id) ==
    IF ~call[c].alone \/ id \in call[c].failed \/ (call[c].op # "batch" /\ call[c].failed # {})
    THEN Nobody
    ELSE CASE call[c].op = "delete" -> [op |-> "delete", val |-> 0]
           [] call[c].op = "cleanup" -> [op |-> "update", val |-> call[c].val]
           [] OTHER -> [op |-> "insert", val |-> call[c].val]

Return(c) ==
    /\ call[c].op # "none" /\ call[c].asks = {}
    /\ call[c].op = "update" => call[c].failed # {}
    /\ tracked' = Recorded(c)
    /\ settled' = [id \in WIds |->
                      IF id \in call[c].ids /\ (\A r \in stray : r.id # id) THEN Promise(c, id)
                      ELSE settled[id]]
    /\ call' = [call EXCEPT ![c] = NoCalls]
    /\ UNCHANGED <<rows, calls, stray>>

(* Entries age; record_write's maybe_cleanup drops the expired ones, which *)
(* get_recent_write passes over anyway.                                    *)
WritesTick ==
    /\ \E id \in WIds : tracked[id] # Nobody
    /\ tracked' = [id \in WIds |->
          IF tracked[id] = Nobody \/ tracked[id].age >= WriteTtl THEN Nobody
          ELSE [tracked[id] EXCEPT !.age = @ + 1]]
    /\ UNCHANGED <<rows, call, calls, stray, settled>>

(* get: from the shard that took the last write, or the one of the ring.   *)
Lookup(id) == rows[IF tracked[id] # Nobody THEN tracked[id].shard ELSE Home[id]][id]

-----------------------------------------------------------------------------
WritesNext ==
    \/ \E c \in Clients, id \in WIds : BeginInsert(c, id) \/ BeginUpdate(c, id) \/ BeginDelete(c, id)
    \/ \E c \in Clients : BeginBatch(c) \/ UpdateCleanup(c) \/ Return(c)
    \/ \E c \in Clients, k \in {"put", "del"}, id \in WIds, s \in WShards :
          ShardReplies(c, Ask(k, id, s)) \/ ShardSilent(c, Ask(k, id, s))
    \/ \E r \in stray : StrayArrives(r)
    \/ WritesTick

WritesSpec == WritesInit /\ [][WritesNext]_writesVars

-----------------------------------------------------------------------------
(* What a call that ran alone promised is what a get finds: an insert or   *)
(* an update that was acknowledged is read, also when the rest of its      *)
(* batch failed, and a deletion that was is not undone by a copy on        *)
(* another shard.                                                          *)
GetSeesSettled ==
    \A id \in WIds : settled[id] # Nobody =>
        IF settled[id].op = "delete" THEN ~Live(Lookup(id))
        ELSE Lookup(id) = Row("live", settled[id].val)

(* An acknowledged update leaves the only copy of its id, and an           *)
(* acknowledged delete none, on any shard a search fans out to; a shard    *)
(* that was not reached is never taken for one that has nothing.           *)
NoCopiesLeft ==
    \A id \in WIds : settled[id] # Nobody =>
        /\ settled[id].op = "update" => \A s \in Others(id) : ~Live(rows[s][id])
        /\ settled[id].op = "delete" => \A s \in WShards : ~Live(rows[s][id])

(* Writes fanned out over the shards settle on one copy of an id where it  *)
(* belongs, and a read between them sees it.                               *)
WritesSettle ==
    /\ GetSeesSettled
    /\ NoCopiesLeft
=============================================================================
