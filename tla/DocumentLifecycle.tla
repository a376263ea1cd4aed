-------------------------- MODULE DocumentLifecycle --------------------------
(***************************************************************************)
(* The manifest of ingested objects (common/src/types/lifecycle.rs,        *)
(* ingestion-orchestrator/src/manifest.rs) and those who write it: the     *)
(* sync runs that compare it with the bucket (scheduler.rs), the           *)
(* lifecycle manager that confirms, schedules and makes hard deletes       *)
(* (lifecycle.rs), and the reindexer (reindex.rs).                         *)
(*                                                                         *)
(* Increments and mark_seen are read and written under write_lock; the     *)
(* others get a copy and upsert it later, over whatever was written since. *)
(***************************************************************************)
EXTENDS Naturals, FiniteSets, FiniteSetsExt

CONSTANTS
    Keys,
    Runners,           \* the scheduler's loop and manual triggers
    DeletionThreshold,
    Volatile,          \* bound: objects that come and go, and are recovered
    MaxEtag,           \* bound: versions of an object in the bucket
    MaxEpoch,          \* bound
    MaxVersion         \* bound: reindex versions

ASSUME LifecycleAssumption ==
    {DeletionThreshold, MaxEtag, MaxEpoch, MaxVersion} \subseteq Nat \ {0}

VARIABLES
    bucket,      \* the etag of an object, 0 when it is not there
    manifest,    \* ObjectManifest of a key
    epoch,       \* EPOCH_KEY
    sync,        \* a runner's sync run
    manager,     \* the lifecycle manager's call: a key and its copy
    doomed,      \* candidates of process_hard_deletes still to be deleted
    reindex,     \* the plan but for hard deletes, documents left, the copy to be upserted
    vecs,        \* the versions of a document in the vector index
    misses,      \* history: listings without the key since a run saw it
    stale        \* history: keys whose entry was overwritten with an older copy,
                 \* or taken back from its schedule by handle_missing

lifecycleVars == <<bucket, manifest, epoch, sync, manager, doomed, reindex, vecs, misses, stale>>

Entry(tag, n, st, v) == [etag |-> tag, count |-> n, state |-> st, version |-> v]
NoEntry == Entry(0, 0, "absent", 0)
Held(k) == manifest[k].state # "absent"
IdleRun == [at |-> "idle"]
NoCall == [at |-> "idle"]

LifecycleInit ==
    /\ bucket = [k \in Keys |-> 1]
    /\ manifest = [k \in Keys |-> Entry(1, 0, "active", 0)]
    /\ epoch = 0 /\ sync = [r \in Runners |-> IdleRun]
    /\ manager = NoCall /\ doomed = {} /\ reindex = NoCall
    /\ vecs = [k \in Keys |-> {0}] /\ misses = [k \in Keys |-> 0] /\ stale = {}

Uploaded(k, tag) ==
    /\ k \in Volatile /\ bucket[k] # tag /\ bucket' = [bucket EXCEPT ![k] = tag]
    /\ UNCHANGED <<manifest, epoch, sync, manager, doomed, reindex, vecs, misses, stale>>

-----------------------------------------------------------------------------
(* ObjectManifest::increment_missing_with_threshold.                       *)
IncrementMissing(m) ==
    IF m.state \notin {"active", "marked"} THEN m
    ELSE [m EXCEPT !.count = @ + 1,
                   !.state = IF m.count + 1 >= DeletionThreshold THEN "confirmed" ELSE "marked"]

MarkSeen(m) == [m EXCEPT !.count = 0, !.state = IF @ = "marked" THEN "active" ELSE @]

-----------------------------------------------------------------------------
(* A plausible bug: the run lock is not taken.                             *)
LockAlways(r) == TRUE

(* run_lock.try_lock of execute_sync.                                      *)
TryLock(r) == \A o \in Runners : sync[o].at = "idle"

(* execute_sync and detect_changes up to its snapshot of the manifest.     *)
StartSync(r) ==
    /\ sync[r].at = "idle" /\ TryLock(r) /\ epoch < MaxEpoch
    /\ sync' = [sync EXCEPT ![r] = [at |-> "run", tentative |-> epoch + 1, listed |-> bucket,
                                    known |-> [k \in Keys |-> manifest[k].state], todo |-> Keys]]
    /\ misses' = [k \in Keys |-> IF bucket[k] = 0 THEN Min({misses[k] + 1, DeletionThreshold})
                                 ELSE misses[k]]
    /\ UNCHANGED <<bucket, manifest, epoch, manager, doomed, reindex, vecs, stale>>

Ticked(r, k) == sync' = [sync EXCEPT ![r].todo = @ \ {k}]

(* A listed object: seen, or new.  The sync closure ingests a new object   *)
(* or a changed one, under the version its entry has.                      *)
SeeKey(r, k) ==
    /\ sync[r].at = "run" /\ k \in sync[r].todo /\ sync[r].listed[k] # 0
    /\ LET ingested == Entry(sync[r].listed[k], 0, "active", 0)
           seen == MarkSeen(manifest[k]) IN
       /\ manifest' = [manifest EXCEPT ![k] =
              IF sync[r].known[k] = "absent" THEN ingested
              ELSE IF ~Held(k) THEN @
              ELSE [seen EXCEPT !.etag = sync[r].listed[k]]]
       /\ vecs' = [vecs EXCEPT ![k] = IF sync[r].known[k] = "absent" THEN @ \cup {0} ELSE @]
    /\ Ticked(r, k) /\ misses' = [misses EXCEPT ![k] = 0]
    /\ UNCHANGED <<bucket, epoch, manager, doomed, reindex, stale>>

(* A key the listing lacks, after the listed ones.                         *)
MissKey(r, k) ==
    /\ sync[r].at = "run" /\ k \in sync[r].todo /\ sync[r].listed[k] = 0
    /\ \A o \in sync[r].todo : sync[r].listed[o] = 0
    /\ LET counts == sync[r].known[k] \in {"active", "marked"} IN
       /\ counts => Held(k)
       /\ manifest' = IF counts THEN [manifest EXCEPT ![k] = IncrementMissing(@)] ELSE manifest
    /\ Ticked(r, k)
    /\ UNCHANGED <<bucket, epoch, manager, doomed, reindex, vecs, misses, stale>>

(* The epoch is committed when the run succeeds.                           *)
FinishSync(r, ok) ==
    /\ sync[r].at = "run" /\ (ok => sync[r].todo = {})
    /\ epoch' = IF ok THEN epoch + 1 ELSE epoch
    /\ sync' = [sync EXCEPT ![r] = IdleRun]
    /\ UNCHANGED <<bucket, manifest, manager, doomed, reindex, vecs, misses, stale>>

-----------------------------------------------------------------------------
(* The lifecycle manager's calls read a copy first.                        *)
Writing(k, old, copy) == [at |-> "write", key |-> k, read |-> old, new |-> copy]

(* handle_missing: the increment, and at the threshold a copy that will be *)
(* written as confirmed, whatever state it is in.                          *)
HandleMissing(k) ==
    /\ manager.at = "idle" /\ Held(k) /\ bucket[k] = 0
    /\ LET counted == IncrementMissing(manifest[k]) IN
       /\ manifest' = [manifest EXCEPT ![k] = counted]
       /\ manager' = IF counted.count >= DeletionThreshold
                     THEN Writing(k, counted, [counted EXCEPT !.state = "confirmed"])
                     ELSE manager
    /\ misses' = [misses EXCEPT ![k] = Min({@ + 1, DeletionThreshold})]
    /\ UNCHANGED <<bucket, epoch, sync, doomed, reindex, vecs, stale>>

ScheduleHardDelete(k) ==
    /\ manager.at = "idle" /\ manifest[k].state = "confirmed"
    /\ manager' = Writing(k, manifest[k], [manifest[k] EXCEPT !.state = "scheduled"])
    /\ UNCHANGED <<bucket, manifest, epoch, sync, doomed, reindex, vecs, misses, stale>>

(* recover_document, for an object that is back in the bucket.             *)
RecoverDocument(k) ==
    /\ manager.at = "idle" /\ k \in Volatile /\ bucket[k] # 0
    /\ manifest[k].state \in {"active", "marked", "confirmed"}
    /\ manager' = Writing(k, manifest[k], [MarkSeen(manifest[k]) EXCEPT !.etag = bucket[k]])
    /\ UNCHANGED <<bucket, manifest, epoch, sync, doomed, reindex, vecs, misses, stale>>

(* upsert: the copy is written over what is there.                         *)
Upsert(k, read, new) ==
    /\ manifest' = [manifest EXCEPT ![k] = new]
    /\ stale' = IF manifest[k] = read /\ ~(read.state \in {"scheduled", "ready"}
                                           /\ new.state = "confirmed")
                THEN stale ELSE stale \cup {k}

ManagerWrites ==
    /\ manager.at = "write" /\ Upsert(manager.key, manager.read, manager.new)
    /\ manager' = NoCall
    /\ UNCHANGED <<bucket, epoch, sync, doomed, reindex, vecs, misses>>

(* The delay of a scheduled hard delete passes.                            *)
Ripen(k) ==
    /\ manifest[k].state = "scheduled"
    /\ manifest' = [manifest EXCEPT ![k].state = "ready"]
    /\ UNCHANGED <<bucket, epoch, sync, manager, doomed, reindex, vecs, misses, stale>>

IsReadyForHardDelete(m) == m.state = "ready"

(* process_hard_deletes lists the candidates, then deletes one by one: the *)
(* vectors, which may fail, and the entry.                                 *)
ListHardDeletes ==
    /\ doomed = {} /\ \E k \in Keys : IsReadyForHardDelete(manifest[k])
    /\ doomed' = {k \in Keys : IsReadyForHardDelete(manifest[k])}
    /\ UNCHANGED <<bucket, manifest, epoch, sync, manager, reindex, vecs, misses, stale>>

HardDelete(k, ok) ==
    /\ k \in doomed /\ doomed' = doomed \ {k}
    /\ vecs' = IF ok THEN [vecs EXCEPT ![k] = {}] ELSE vecs
    /\ manifest' = IF ok THEN [manifest EXCEPT ![k] = NoEntry] ELSE manifest
    /\ reindex' = IF ok /\ reindex.at # "idle" THEN [reindex EXCEPT !.plan = @ \ {k}] ELSE reindex
    /\ UNCHANGED <<bucket, epoch, sync, manager, misses, stale>>

-----------------------------------------------------------------------------
Planned == {k \in Keys : manifest[k].state = "active"}

(* plan_reindex_category: one above the newest version of the active ones. *)
PlanReindex ==
    /\ reindex.at = "idle" /\ Planned # {}
    /\ LET newest == Max({manifest[k].version : k \in Planned}) IN
       /\ newest < MaxVersion
       /\ reindex' = [at |-> "process", plan |-> Planned, left |-> Planned,
                      old |-> newest, new |-> newest + 1, read |-> NoEntry]
    /\ UNCHANGED <<bucket, manifest, epoch, sync, manager, doomed, vecs, misses, stale>>

NextDoc == CHOOSE k \in reindex.left : TRUE

(* process_document puts vectors of the new version in, then the entry is  *)
(* read, to be written with the new version.                               *)
ProcessDocument ==
    /\ reindex.at = "process" /\ reindex.left # {} /\ Held(NextDoc)
    /\ vecs' = [vecs EXCEPT ![NextDoc] = @ \cup {reindex.new}]
    /\ reindex' = [reindex EXCEPT !.at = "update", !.read = manifest[NextDoc]]
    /\ UNCHANGED <<bucket, manifest, epoch, sync, manager, doomed, misses, stale>>

UpdateManifestVersion ==
    /\ reindex.at = "update"
    /\ Upsert(NextDoc, reindex.read, [reindex.read EXCEPT !.version = reindex.new])
    /\ reindex' = [reindex EXCEPT !.at = "process", !.left = @ \ {NextDoc}, !.read = NoEntry]
    /\ UNCHANGED <<bucket, epoch, sync, manager, doomed, vecs, misses>>

(* execute_reindex ends at the first document it cannot process, without   *)
(* success.                                                                *)
Succeeded == reindex.left = {}

(* tombstone_old_version follows a success.                                *)
EndReindex(ok) ==
    /\ reindex.at = "process" /\ (ok => Succeeded)
    /\ vecs' = IF ok THEN [k \in Keys |-> vecs[k] \ {reindex.old}] ELSE vecs
    /\ reindex' = IF ok THEN [reindex EXCEPT !.at = "done", !.left = {}] ELSE NoCall
    /\ UNCHANGED <<bucket, manifest, epoch, sync, manager, doomed, misses, stale>>

LifecycleNext ==
    \/ \E k \in Keys :
          \/ \E tag \in 0 .. MaxEtag : Uploaded(k, tag)
          \/ \E r \in Runners : SeeKey(r, k) \/ MissKey(r, k)
          \/ HandleMissing(k) \/ ScheduleHardDelete(k) \/ RecoverDocument(k) \/ Ripen(k)
          \/ \E ok \in BOOLEAN : HardDelete(k, ok)
    \/ \E r \in Runners : StartSync(r) \/ \E ok \in BOOLEAN : FinishSync(r, ok)
    \/ ManagerWrites \/ ListHardDeletes
    \/ PlanReindex \/ ProcessDocument \/ UpdateManifestVersion
    \/ \E ok \in BOOLEAN : EndReindex(ok)

LifecycleSpec == LifecycleInit /\ [][LifecycleNext]_lifecycleVars

-----------------------------------------------------------------------------
(* A document's count never exceeds the listings that missed it since a    *)
(* run last saw it, so none is confirmed missing sooner than the           *)
(* threshold says: through failed runs that are repeated, documents that   *)
(* come and go, and the manager beside the runs.  Keys whose entry was     *)
(* overwritten with an older copy are excepted.                            *)
CountsMisses == \A k \in Keys : manifest[k].count <= misses[k] \/ k \in stale

(* The epoch a run commits is the one it stamped documents with, as the    *)
(* scheduler asserts after it.                                             *)
EpochsInStep == \A r \in Runners : sync[r].at = "run" => sync[r].tentative = epoch + 1

(* Once a reindex has tombstoned the old version, every document of its    *)
(* plan that is still there has vectors of the version its entry names.    *)
PlannedIsSearchable ==
    reindex.at = "done" =>
        \A k \in reindex.plan \ stale : Held(k) => manifest[k].version \in vecs[k]

(* The manifest counts the scans that missed a document, reindexing keeps  *)
(* its epochs in step, and what a plan calls done is searchable.           *)
LifecycleSound ==
    /\ CountsMisses
    /\ EpochsInStep
    /\ PlannedIsSearchable
=============================================================================
