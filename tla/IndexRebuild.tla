---------------------------- MODULE IndexRebuild ----------------------------
(***************************************************************************)
(* Rebuilding an index while it serves: the two indices and the swap, the  *)
(* persisted record of a rebuild, and the typed machine that guards it.    *)
(***************************************************************************)
EXTENDS Naturals, Sequences, FiniteSets, Functions, SequencesExt

(***************************************************************************)
(* RebuildManager of faiss-wrapper/src/rebuild/manager.rs: searches and    *)
(* writes go to the primary index while an orchestrator outside the crate  *)
(* fills a shadow index, and swap_indices puts the shadow in its place.    *)
(*                                                                         *)
(* Every index lives in heap under a number, because a writer keeps the    *)
(* Arc of the index it captured across a swap.  An index has its slots     *)
(* (the InternalId of an id is its place) and the version each id shows, 0 *)
(* for absent or tombstoned.  A write is two steps, one per index, and the *)
(* orchestrator's calls fall between them.  acked, lost and stale are      *)
(* history: what the caller was last told, and the ids the code gives up   *)
(* on in the primary and in the shadow.                                    *)
(***************************************************************************)

CONSTANTS
    RIds,        \* vector ids
    Writers,
    MaxWrites,   \* bound: writes in a behaviour
    MaxIndices   \* bound: index instances ever built

ASSUME RebuildAssumption ==
    /\ MaxWrites \in Nat /\ MaxIndices \in Nat \ {0}
    /\ IsFiniteSet(RIds) /\ IsFiniteSet(Writers)

VARIABLES
    heap,        \* the index instances
    primary, shadow,  \* numbers of instances; no shadow is 0
    rebuilding,  \* the flag start_rebuild swaps
    rebuildState,
    writer,      \* the call each writer is in the middle of
    writes,      \* how many writes were started
    walTail,     \* ids with WAL entries past wal_start_lsn
    acked,       \* what the last call on an id left, as its caller knows it
    lost, stale

rebuildVars == <<heap, primary, shadow, rebuilding, rebuildState, writer, writes,
                 walTail, acked, lost, stale>>

Idle == [op |-> "none"]

(* The index trait: insert overwrites in place or takes the next slot.     *)
EmptyIndex == [slot |-> <<>>, ver |-> [i \in RIds |-> 0]]

IndexInsert(ix, i, v) ==
    [slot |-> IF i \in Range(ix.slot) THEN ix.slot ELSE Append(ix.slot, i),
     ver  |-> [ix.ver EXCEPT ![i] = v]]

SlotOf(ix, i) == CHOOSE n \in DOMAIN ix.slot : ix.slot[n] = i

(* delete tombstones a slot, whoever holds it.                             *)
IndexDelete(ix, n) ==
    IF n \in DOMAIN ix.slot THEN [ix EXCEPT !.ver[ix.slot[n]] = 0] ELSE ix

(* What the orchestrator builds from the primary: the live ids, numbered   *)
(* afresh, in an order of its own.                                         *)
Compacted(ix) ==
    [slot |-> SetToSeq({i \in Range(ix.slot) : ix.ver[i] # 0}), ver |-> ix.ver]

InFlight(i) == \E w \in Writers : writer[w].op # "none" /\ writer[w].id = i
InFlightIds == {writer[w].id : w \in {x \in Writers : writer[x].op # "none"}}

-----------------------------------------------------------------------------
RebuildInit ==
    /\ heap = [n \in 1..MaxIndices |-> EmptyIndex]
    /\ primary = 1 /\ shadow = 0
    /\ rebuilding = FALSE /\ rebuildState = "Idle"
    /\ writer = [w \in Writers |-> Idle]
    /\ writes = 0
    /\ walTail = {} /\ lost = {} /\ stale = {}
    /\ acked = [i \in RIds |-> 0]

(* The number the next index instance gets.                                *)
built == Cardinality({n \in 1..MaxIndices : heap[n] # EmptyIndex \/ n = primary \/ n = shadow})

-----------------------------------------------------------------------------
(* Writers.  The shard service's lock per id keeps two calls on one id     *)
(* apart.                                                                  *)

(* insert, up to the write of the captured primary.                        *)
InsertPrimary(w, i) ==
    /\ writer[w] = Idle /\ ~InFlight(i) /\ writes < MaxWrites
    /\ writes' = writes + 1
    /\ writer' = [writer EXCEPT ![w] =
                    [op |-> "insert", id |-> i, ver |-> writes', at |-> primary,
                     pre |-> heap[primary].ver[i] # 0]]
    /\ heap' = [heap EXCEPT ![primary] = IndexInsert(@, i, writes')]
    /\ lost' = lost \ {i}
    /\ UNCHANGED <<primary, shadow, rebuilding, rebuildState, walTail, acked, stale>>

(* The call returns: the id's history is what the caller may rely on.      *)
Acknowledge(w, v, missed, given) ==
    LET i == writer[w].id IN
    /\ acked' = [acked EXCEPT ![i] = v]
    /\ lost' = given \cup (IF writer[w].at # primary THEN {i} ELSE {})
    /\ stale' = IF missed THEN stale \cup {i} ELSE stale \ {i}
    /\ walTail' = IF rebuilding THEN walTail \cup {i} ELSE walTail
    /\ writer' = [writer EXCEPT ![w] = Idle]
    /\ UNCHANGED <<primary, shadow, rebuilding, rebuildState, writes>>

(* No shadow, or the shadow takes the vector.                              *)
InsertShadow(w) ==
    /\ writer[w].op = "insert"
    /\ heap' = IF shadow = 0 THEN heap
               ELSE [heap EXCEPT ![shadow] = IndexInsert(@, writer[w].id, writer[w].ver)]
    /\ Acknowledge(w, writer[w].ver, FALSE, lost)

(* A plausible bug: the rollback does not ask whether the vector was       *)
(* there before the call.                                                  *)
KeepsNoUpsert(w) == writer[w].op = "none"

(* The shadow refuses it, or panics: an upsert stays on the primary, a new *)
(* vector is deleted from the index that took it, if that succeeds.        *)
KeepsUpsert(w) == writer[w].pre

ShadowFails(w) ==
    /\ writer[w].op = "insert" /\ shadow # 0
    /\ \E deleted \in BOOLEAN :
         LET c == writer[w]
             undo == ~KeepsUpsert(w) /\ deleted IN
         /\ KeepsUpsert(w) => deleted
         /\ heap' = IF undo
                    THEN [heap EXCEPT ![c.at] = IndexDelete(@, SlotOf(@, c.id))]
                    ELSE heap
         /\ Acknowledge(w, IF c.pre THEN c.ver ELSE 0, TRUE,
                        IF c.pre \/ deleted THEN lost ELSE lost \cup {c.id})

(* delete(InternalId), on the shadow first: the number is the primary's.   *)
DeleteShadow(w, i) ==
    /\ writer[w] = Idle /\ ~InFlight(i) /\ writes < MaxWrites
    /\ i \in Range(heap[primary].slot) /\ heap[primary].ver[i] # 0
    /\ LET n == SlotOf(heap[primary], i)
           hit == IF shadow # 0 /\ n \in DOMAIN heap[shadow].slot
                  THEN {heap[shadow].slot[n]} ELSE {} IN
       /\ heap' = IF shadow = 0 THEN heap ELSE [heap EXCEPT ![shadow] = IndexDelete(@, n)]
       /\ writer' = [writer EXCEPT ![w] =
                       [op |-> "delete", id |-> i, slot |-> n, at |-> primary,
                        missed |-> shadow # 0 /\ hit # {i}]]
       /\ stale' = stale \cup hit
       /\ lost' = IF shadow = primary THEN lost \cup hit ELSE lost
    /\ writes' = writes + 1
    /\ UNCHANGED <<primary, shadow, rebuilding, rebuildState, walTail, acked>>

(* The shadow answers an error: nothing is deleted.                        *)
DeleteRefused(w, i) ==
    /\ writer[w] = Idle /\ shadow # 0 /\ writes < MaxWrites
    /\ i \in Range(heap[primary].slot)
    /\ writes' = writes + 1
    /\ UNCHANGED <<heap, primary, shadow, rebuilding, rebuildState, writer, walTail,
                   acked, lost, stale>>

(* Then on the primary of that moment.                                     *)
DeletePrimary(w) ==
    LET c == writer[w] IN
    /\ c.op = "delete"
    /\ heap' = [heap EXCEPT ![primary] = IndexDelete(@, c.slot)]
    /\ Acknowledge(w, 0, c.missed,
         (lost \cup {heap[primary].slot[n] : n \in {c.slot} \cap DOMAIN heap[primary].slot})
           \ {c.id})

(* The primary fails: the caller is told so, and the shadow keeps the      *)
(* tombstone.                                                              *)
DeletePrimaryFails(w) ==
    LET c == writer[w] IN
    /\ c.op = "delete"
    /\ Acknowledge(w, acked[c.id], TRUE, lost)
    /\ UNCHANGED heap

-----------------------------------------------------------------------------
(* The orchestrator.                                                       *)

StartRebuild ==
    /\ ~rebuilding
    /\ rebuilding' = TRUE
    /\ rebuildState' = "Preparing"
    /\ walTail' = {}
    /\ UNCHANGED <<heap, primary, shadow, writer, writes, acked, lost, stale>>

(* A delete past its shadow step will reach the primary only.              *)
SetShadow ==
    /\ rebuildState = "Preparing" /\ built < MaxIndices
    /\ LET n == CHOOSE k \in 1..MaxIndices : k # primary /\ heap[k] = EmptyIndex IN
       /\ shadow' = n
       /\ heap' = [heap EXCEPT ![n] = Compacted(heap[primary])]
    /\ rebuildState' = "Building"
    /\ stale' = lost
    /\ writer' = [w \in Writers |->
                    IF writer[w].op = "delete" THEN [writer[w] EXCEPT !.missed = TRUE]
                    ELSE writer[w]]
    /\ UNCHANGED <<primary, rebuilding, writes, walTail, acked, lost>>

StartWalReplay ==
    /\ rebuildState = "Building"
    /\ rebuildState' = "Replaying"
    /\ UNCHANGED <<heap, primary, shadow, rebuilding, writer, writes, walTail, acked, lost, stale>>

(* The orchestrator applies the log's last word on an id to the shadow.    *)
ReplayEntry(i) ==
    /\ rebuildState = "Replaying" /\ shadow # 0
    /\ i \in walTail /\ ~InFlight(i) /\ i \notin lost
    /\ walTail' = walTail \ {i}
    /\ heap' = [heap EXCEPT ![shadow] =
                  IF acked[i] = 0 THEN [@ EXCEPT !.ver[i] = 0]
                  ELSE IndexInsert(@, i, acked[i])]
    /\ stale' = stale \ {i}
    /\ UNCHANGED <<primary, shadow, rebuilding, rebuildState, writer, writes, acked, lost>>

(* swap_indices up to the replacement of the primary: a write that         *)
(* captured the old one is not carried over.                               *)
SwapPrimary ==
    /\ shadow # 0 /\ shadow # primary
    /\ rebuildState \in {"Building", "Replaying"}
    /\ primary' = shadow
    /\ rebuildState' = "Swapping"
    /\ lost' = stale
    /\ UNCHANGED <<heap, shadow, rebuilding, writer, writes, walTail, acked, stale>>

(* and its last lock region.                                               *)
ClearShadow ==
    /\ rebuildState = "Swapping" /\ shadow # 0
    /\ shadow' = 0
    /\ stale' = {}
    /\ UNCHANGED <<heap, primary, rebuilding, rebuildState, writer, writes, walTail, acked, lost>>

CompleteRebuild ==
    /\ rebuildState = "Swapping" /\ shadow = 0
    /\ rebuildState' = "Idle" /\ rebuilding' = FALSE
    /\ UNCHANGED <<heap, primary, shadow, writer, writes, walTail, acked, lost, stale>>

AbortRebuild ==
    /\ rebuildState \in {"Preparing", "Building", "Replaying"}
    /\ shadow' = 0 /\ stale' = {}
    /\ rebuildState' = "Idle" /\ rebuilding' = FALSE
    /\ UNCHANGED <<heap, primary, writer, writes, walTail, acked, lost>>

-----------------------------------------------------------------------------
RebuildNext ==
    \/ \E w \in Writers, i \in RIds :
         InsertPrimary(w, i) \/ DeleteShadow(w, i) \/ DeleteRefused(w, i)
    \/ \E w \in Writers :
         InsertShadow(w) \/ ShadowFails(w) \/ DeletePrimary(w) \/ DeletePrimaryFails(w)
    \/ \E i \in RIds : ReplayEntry(i)
    \/ StartRebuild \/ SetShadow \/ StartWalReplay
    \/ SwapPrimary \/ ClearShadow \/ CompleteRebuild \/ AbortRebuild

RebuildSpec == RebuildInit /\ [][RebuildNext]_rebuildVars

-----------------------------------------------------------------------------
(* What searches read, the primary, shows for every id what its last       *)
(* caller was told, before, during and after a rebuild, but for the ids    *)
(* the manager gives up on: those whose write straddled the swap, and      *)
(* those already wrong in the shadow that was swapped in.  In particular a *)
(* failed upsert never removes the vector it found.                        *)
PrimaryServesAcked ==
    \A i \in RIds \ (InFlightIds \cup lost) : heap[primary].ver[i] = acked[i]

(* The shadow follows every write, so that the swap loses none, but for    *)
(* the ids of failed writes and the slots a delete hit in its stead.       *)
ShadowFollows ==
    shadow # 0 =>
        \A i \in RIds \ (InFlightIds \cup stale \cup lost) : heap[shadow].ver[i] = acked[i]

-----------------------------------------------------------------------------
(***************************************************************************)
(* The persisted record of an index rebuild:                               *)
(* PersistentRebuildStateMachine (rebuild/persistent_state.rs) and the     *)
(* exported vectors of CheckpointManager (rebuild/checkpoint.rs).          *)
(*                                                                         *)
(* An orchestrator outside the crate holds the record in memory and calls  *)
(* the machine in the order of the phases; a crash loses the memory, and   *)
(* recovery starts from what was saved.  All rebuilds are of one shard.    *)
(* updates and started_at are seconds: rebuilds started within one second  *)
(* are in no order.                                                        *)
(***************************************************************************)

CONSTANTS
    Ops,         \* operation ids
    Total,       \* vectors to scan, build, replay and sample
    Interval,    \* config.checkpoint_interval, and the replay's fixed interval
    MaxRetries,
    MaxSecond,   \* bound: the last second
    NoRebuild

ASSUME RecordAssumption ==
    /\ Total \in Nat /\ Interval \in Nat \ {0}
    /\ MaxRetries \in Nat /\ MaxSecond \in Nat
    /\ IsFiniteSet(Ops)

VARIABLES
    live,        \* the records the orchestrator holds
    saved,       \* the persisted ones
    exported,    \* vectors in the .vectors file of an operation, NoRebuild if none
    second       \* current_timestamp

recordVars == <<live, saved, exported, second>>

Phases == <<"preparing", "scanning", "building", "replaying", "validating",
            "swapping", "cleaning", "completed">>
Counted == {"scanning", "building", "replaying", "validating"}

PhaseNo(p) == CHOOSE n \in DOMAIN Phases : Phases[n] = p

(* is_in_progress, is_resumable.                                           *)
InProgress(r) == r.phase \notin {"completed", "failed"}
Resumable(r) == r.phase \in {"scanning", "building", "replaying", "failed"}

(* should_retry.                                                           *)
ShouldRetry(r) == r.phase = "failed" /\ r.retries < MaxRetries

(* save_state.                                                             *)
Save(op, r) ==
    /\ live' = [live EXCEPT ![op] = r]
    /\ saved' = [saved EXCEPT ![op] = r]

-----------------------------------------------------------------------------
RecordInit ==
    /\ live = [op \in Ops |-> NoRebuild]
    /\ saved = [op \in Ops |-> NoRebuild]
    /\ exported = [op \in Ops |-> NoRebuild]
    /\ second = 0

Kept == {op \in Ops : saved[op] # NoRebuild}

(* load_by_shard: a newest record, in the order of started_at.             *)
Newest == {op \in Kept : \A q \in Kept : saved[q].started <= saved[op].started}

(* start_operation.                                                        *)
StartOperation(op) ==
    /\ op \notin Kept
    /\ Kept # {} => \E q \in Newest : ~InProgress(saved[q])
    /\ Save(op, [phase |-> "preparing", done |-> 0, ck |-> 0, retries |-> 0,
                 at |-> "preparing", started |-> second, updated |-> second])
    /\ UNCHANGED <<exported, second>>

(* transition_to_scanning .. transition_to_swapping, transition_to_cleaning *)
(* and complete_operation: the last two drop the checkpoint.                *)
NextPhase(p) == Phases[PhaseNo(p) + 1]

Transition(op) ==
    LET r == live[op] IN
    /\ r # NoRebuild /\ InProgress(r)
    /\ r.phase \in Counted => r.done = Total
    /\ LET p == NextPhase(r.phase) IN
       Save(op, [r EXCEPT !.phase = p, !.at = p, !.done = 0, !.updated = second,
                          !.ck = IF p \in {"cleaning", "completed"} THEN 0 ELSE r.ck])
    /\ UNCHANGED <<exported, second>>

(* save_vector_checkpoint: to a temporary file, then renamed.              *)
ExportVectors(op) ==
    /\ live[op] # NoRebuild /\ live[op].phase \in {"scanning", "building"}
    /\ live[op].done > 0 /\ live[op].done % Interval = 0   \* should_checkpoint
    /\ exported' = [exported EXCEPT ![op] = live[op].done]
    /\ UNCHANGED <<live, saved, second>>

(* update_scanning_progress and update_building_progress are given the     *)
(* checkpoint create_checkpoint made of the exported file.                *)
CheckpointOf(op, r) == IF exported[op] = NoRebuild THEN 0 ELSE exported[op]

SavesAt(n) == n % Interval = 0

Advance(op, q) ==
    /\ live' = [live EXCEPT ![op] = q]
    /\ saved' = IF SavesAt(q.done) THEN [saved EXCEPT ![op] = q] ELSE saved
    /\ UNCHANGED <<exported, second>>

Progress(op) ==
    LET r == live[op] IN
    /\ r # NoRebuild /\ r.phase \in {"scanning", "building"} /\ r.done < Total
    /\ Advance(op, [r EXCEPT !.done = r.done + 1, !.ck = CheckpointOf(op, r),
                             !.updated = second])

(* update_replay_progress and update_validation_progress.                  *)
PlainProgress(op) ==
    LET r == live[op] IN
    /\ r # NoRebuild /\ r.phase \in {"replaying", "validating"} /\ r.done < Total
    /\ Advance(op, [r EXCEPT !.done = r.done + 1, !.updated = second])

(* fail_operation: a record that failed before counts up, any other starts *)
(* at no retries.                                                          *)
FailOperation(op) ==
    LET r == live[op] IN
    /\ r # NoRebuild /\ r.phase # "completed"
    /\ r.phase = "failed" => r.retries < MaxRetries
    /\ Save(op, [r EXCEPT !.phase = "failed", !.updated = second,
                          !.retries = IF r.phase = "failed" THEN r.retries + 1 ELSE 0])
    /\ UNCHANGED <<exported, second>>

(* reset_for_retry, after should_retry.                                    *)
ResetForRetry(op) ==
    /\ live[op] # NoRebuild /\ ShouldRetry(live[op])
    /\ Save(op, [live[op] EXCEPT !.phase = live[op].at, !.updated = second])
    /\ UNCHANGED <<exported, second>>

Crash ==
    /\ \E op \in Ops : live[op] # NoRebuild
    /\ live' = [op \in Ops |-> NoRebuild]
    /\ UNCHANGED <<saved, exported, second>>

(* recover_operations.                                                     *)
Recoverable(op) ==
    /\ saved[op] # NoRebuild
    /\ InProgress(saved[op]) \/ (Resumable(saved[op]) /\ ShouldRetry(saved[op]))

Recover ==
    /\ \A op \in Ops : live[op] = NoRebuild
    /\ \E op \in Ops : Recoverable(op)
    /\ live' = [op \in Ops |-> IF Recoverable(op) THEN saved[op] ELSE NoRebuild]
    /\ UNCHANGED <<saved, exported, second>>

(* cleanup_old_records, with max_age_secs of 0; nobody works on a record   *)
(* that came to its end.                                                   *)
Cleanable(op) ==
    /\ saved[op] # NoRebuild /\ saved[op].updated < second
    /\ \/ saved[op].phase = "completed"
       \/ saved[op].phase = "failed" /\ saved[op].retries >= MaxRetries

CleanupRecords ==
    /\ \E op \in Ops : Cleanable(op)
    /\ saved' = [op \in Ops |-> IF Cleanable(op) THEN NoRebuild ELSE saved[op]]
    /\ live' = [op \in Ops |-> IF Cleanable(op) THEN NoRebuild ELSE live[op]]
    /\ UNCHANGED <<exported, second>>

(* cleanup_checkpoint of a finished operation, and cleanup_old_checkpoints, *)
(* which goes by the age of the file alone.                                 *)
CleanupCheckpoint(op) ==
    /\ exported[op] # NoRebuild
    /\ exported' = [exported EXCEPT ![op] = NoRebuild]
    /\ UNCHANGED <<live, saved, second>>

Tick ==
    /\ second < MaxSecond
    /\ second' = second + 1
    /\ UNCHANGED <<live, saved, exported>>

-----------------------------------------------------------------------------
RecordNext ==
    \/ \E op \in Ops :
         \/ StartOperation(op) \/ Transition(op)
         \/ Progress(op) \/ PlainProgress(op)
         \/ ExportVectors(op) \/ CleanupCheckpoint(op)
         \/ FailOperation(op) \/ ResetForRetry(op)
    \/ Crash \/ Recover \/ CleanupRecords \/ Tick

RecordSpec == RecordInit /\ [][RecordNext]_recordVars

-----------------------------------------------------------------------------
(* The saved record is in the phase the orchestrator is in, and behind it  *)
(* by less than a checkpoint interval: a crash costs at most that much     *)
(* work, wherever it falls.                                                *)
SavedKeepsUp ==
    \A op \in Ops : live[op] # NoRebuild =>
        /\ saved[op] # NoRebuild
        /\ saved[op].phase = live[op].phase
        /\ saved[op].done <= live[op].done /\ live[op].done - saved[op].done < Interval

-----------------------------------------------------------------------------
(***************************************************************************)
(* The typed rebuild machine (faiss-wrapper/src/rebuild/typestate.rs):     *)
(* which steps a rebuild may take, what its guard on the swap accepts      *)
(* while the indices it compares are still written to, and the state gauge *)
(* it exports.  A RebuildFsm is consumed by every transition.              *)
(***************************************************************************)

CONSTANTS
    Vectors,       \* vector ids
    MaxGuardWrites \* bound: writes to the indices

VARIABLES
    fsm,      \* the state, "dropped" after a refused swap
    serving,  \* the primary: [live, tomb], sets of ids
    other,    \* the shadow
    counted,  \* old_active_vectors and old_tombstones, read at validation
    atCheck,  \* the live ids of the primary at that moment
    gauges,   \* states whose gauge is 1
    guardWrites

guardVars == <<fsm, serving, other, counted, atCheck, gauges, guardWrites>>

-----------------------------------------------------------------------------
EmptyShadow == [live |-> {}, tomb |-> {}]
(* stats: active_vectors are those without a tombstone.                    *)
ActiveCount(x) == Cardinality(x.live)
TombCount(x) == Cardinality(x.tomb)

GuardInit ==
    /\ serving \in [live : SUBSET Vectors, tomb : SUBSET Vectors]
    /\ serving.live \cap serving.tomb = {}
    /\ fsm = "idle" /\ gauges = {"idle"} /\ other = EmptyShadow
    /\ counted = [active |-> 0, tomb |-> 0] /\ atCheck = {} /\ guardWrites = 0

Gauge(from, to) == gauges' = (gauges \ {from}) \cup {to}
Enter(from, to) == fsm = from /\ fsm' = to /\ Gauge(from, to)

BeginRebuild == Enter("idle", "preparing") /\ UNCHANGED <<serving, other, counted, atCheck, guardWrites>>
(* set_shadow: whatever the caller built so far.                           *)
GiveShadow(s) ==
    /\ Enter("preparing", "building") /\ other' = s
    /\ UNCHANGED <<serving, counted, atCheck, guardWrites>>
(* complete_build: that the shadow has vectors is asserted in debug builds *)
(* only.                                                                   *)
CompleteBuild == Enter("building", "replaying") /\ UNCHANGED <<serving, other, counted, atCheck, guardWrites>>
CompleteReplay == Enter("replaying", "validating") /\ UNCHANGED <<serving, other, counted, atCheck, guardWrites>>
(* complete_validation: the primary is counted here, not at the swap.      *)
CompleteValidation ==
    /\ Enter("validating", "swapping")
    /\ counted' = [active |-> ActiveCount(serving), tomb |-> TombCount(serving)]
    /\ atCheck' = serving.live
    /\ UNCHANGED <<serving, other, guardWrites>>

(* G4, in saturating arithmetic.                                           *)
NoLoss(new) == ActiveCount(new) + counted.tomb >= counted.active
Swap ==
    /\ fsm = "swapping"
    /\ IF NoLoss(other)
       THEN fsm' = "cleaning" /\ Gauge("swapping", "cleaning") /\ serving' = other
       ELSE fsm' = "dropped" /\ Gauge("swapping", "idle") /\ UNCHANGED serving
    /\ UNCHANGED <<other, counted, atCheck, guardWrites>>
CompleteCleaning == Enter("cleaning", "idle") /\ UNCHANGED <<serving, other, counted, atCheck, guardWrites>>
Abort ==
    /\ fsm \in {"preparing", "building", "replaying", "validating", "swapping"}
    /\ fsm' = "idle" /\ Gauge(fsm, "idle")
    /\ UNCHANGED <<serving, other, counted, atCheck, guardWrites>>

(* Writes by holders of the Arcs: both indices, while there is a shadow.   *)
Both(F(_)) ==
    /\ serving' = F(serving)
    /\ other' = IF fsm \in {"building", "replaying", "validating", "swapping"} THEN F(other) ELSE other
Insert(i) ==
    /\ guardWrites < MaxGuardWrites
    /\ LET f(x) == [live |-> x.live \cup {i}, tomb |-> x.tomb \ {i}] IN Both(f)
    /\ guardWrites' = guardWrites + 1
    /\ UNCHANGED <<fsm, counted, atCheck, gauges>>
Delete(i) ==
    /\ guardWrites < MaxGuardWrites
    /\ LET f(x) == [live |-> x.live \ {i}, tomb |-> IF i \in x.live THEN x.tomb \cup {i} ELSE x.tomb] IN Both(f)
    /\ guardWrites' = guardWrites + 1
    /\ UNCHANGED <<fsm, counted, atCheck, gauges>>

GuardNext ==
    \/ BeginRebuild \/ CompleteBuild \/ CompleteReplay \/ CompleteValidation \/ Swap \/ CompleteCleaning \/ Abort
    \/ \E s \in SUBSET Vectors : GiveShadow([live |-> s, tomb |-> {}])
    \/ \E i \in Vectors : Insert(i) \/ Delete(i)

GuardSpec == GuardInit /\ [][GuardNext]_guardVars

-----------------------------------------------------------------------------

(* set_rebuild_state: through every transition, abort and refused swap     *)
(* exactly one state is exported, and it is the machine's.                 *)
OneGauge == gauges = {IF fsm = "dropped" THEN "idle" ELSE fsm}

(* Writes acknowledged during a rebuild are served after the swap, the     *)
(* persisted record is never further behind than its interval, and the     *)
(* gauge shows one state.                                                  *)
RebuildSafe ==
    /\ PrimaryServesAcked
    /\ ShadowFollows
    /\ SavedKeepsUp
    /\ OneGauge
=============================================================================
