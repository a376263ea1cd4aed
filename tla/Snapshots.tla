----------------------------- MODULE Snapshots ------------------------------
(***************************************************************************)
(* Snapshots: as sets of objects, and the resumable upload of one.         *)
(***************************************************************************)
EXTENDS Naturals, Sequences, FiniteSets, FiniteSetsExt, Functions, SequencesExt

(***************************************************************************)
(* Snapshots as sets of objects: SnapshotManager over LocalSnapshotBackend *)
(* and S3SnapshotBackend (storage/src/snapshot/backend.rs).                *)
(*                                                                         *)
(* A snapshot is its metadata object and its files; save writes the        *)
(* metadata first, and deletes on S3 remove object after object behind a   *)
(* marker.  Makers run at once, fail or crash between any two requests.    *)
(* created_at is in seconds, so snapshots made in one second have no       *)
(* order.  promised and doomed are history.                                *)
(***************************************************************************)

CONSTANTS
    SnapIds,      \* the ids of snapshots, in the order they are drawn
    FileSize,     \* the files of a snapshot and their sizes
    MarkerSize,   \* the size of the .deleting object
    Makers,       \* tasks that call create_snapshot or delete_snapshot
    MaxSnapshots, \* max_snapshots
    LastSecond,   \* bound: the last second
    NoCall

ASSUME StoreAssumption ==
    /\ MaxSnapshots \in Nat \ {0} /\ LastSecond \in Nat /\ MarkerSize \in Nat
    /\ \A f \in DOMAIN FileSize : FileSize[f] \in Nat \ {0}
    /\ NoCall \notin Nat
    /\ NoCall \notin [op : {"save"}, id : SnapIds, left : SUBSET DOMAIN FileSize]
    /\ NoCall \notin [op : {"evict"}, id : SnapIds \cup {NoCall}, left : SUBSET SnapIds]

VARIABLES
    backendKind,  \* "local" or "s3"
    stored,       \* the objects of each snapshot
    createdAt,    \* created_at of its metadata, NoCall for an id not yet drawn
    makerCall,    \* the call of each maker
    wallClock,
    promised,     \* snapshots whose save returned
    doomed        \* snapshots somebody set out to delete

storeVars == <<backendKind, stored, createdAt, makerCall, wallClock, promised, doomed>>

Files == DOMAIN FileSize
SizeOf(objs) ==
    FoldSet(LAMBDA f, acc : acc + (IF f = "marker" THEN MarkerSize ELSE FileSize[f]), 0, objs)

(* size_bytes of the metadata.                                             *)
MetaSize == SizeOf(Files)

Listed == {s \in SnapIds : "meta" \in stored[s]}

-----------------------------------------------------------------------------
StoreInit ==
    /\ backendKind \in {"local", "s3"}
    /\ stored = [s \in SnapIds |-> {}]
    /\ createdAt = [s \in SnapIds |-> NoCall]
    /\ makerCall = [t \in Makers |-> NoCall]
    /\ wallClock = 0
    /\ promised = {} /\ doomed = {}

(* create_snapshot: save writes metadata.json ...                          *)
SaveMetadata(t, s) ==
    /\ makerCall[t] = NoCall
    /\ createdAt[s] = NoCall /\ \A r \in SnapIds : r < s => createdAt[r] # NoCall
    /\ stored' = [stored EXCEPT ![s] = {"meta"}]
    /\ createdAt' = [createdAt EXCEPT ![s] = wallClock]
    /\ makerCall' = [makerCall EXCEPT ![t] = [op |-> "save", id |-> s, left |-> Files]]
    /\ UNCHANGED <<wallClock, promised, doomed>>

(* ... then every file.                                                    *)
SaveFile(t) ==
    /\ makerCall[t] # NoCall /\ makerCall[t].op = "save" /\ makerCall[t].left # {}
    /\ LET c == makerCall[t]
           f == CHOOSE x \in c.left : TRUE IN
       /\ stored' = [stored EXCEPT ![c.id] = @ \cup {f}]
       /\ makerCall' = [makerCall EXCEPT ![t].left = @ \ {f}]
    /\ UNCHANGED <<createdAt, wallClock, promised, doomed>>

(* cleanup_old_snapshots: what lies past the newest max_snapshots of a     *)
(* listing sorted by created_at.                                           *)
NewestOf(n, keep) ==
    /\ keep \subseteq Listed
    /\ Cardinality(keep) = (IF Cardinality(Listed) < n THEN Cardinality(Listed) ELSE n)
    /\ \A s \in keep, r \in Listed \ keep : createdAt[r] <= createdAt[s]

SaveDone(t) ==
    /\ makerCall[t] # NoCall /\ makerCall[t].op = "save" /\ makerCall[t].left = {}
    /\ \E keep \in SUBSET Listed :
         /\ NewestOf(MaxSnapshots, keep)
         /\ makerCall' = [makerCall EXCEPT ![t] =
                            [op |-> "evict", id |-> makerCall[t].id, left |-> Listed \ keep]]
         /\ doomed' = doomed \cup (Listed \ keep)
    /\ promised' = promised \cup {makerCall[t].id}
    /\ UNCHANGED <<stored, createdAt, wallClock>>

(* delete_snapshot, by an operator.                                        *)
DeleteSnapshot(t, s) ==
    /\ makerCall[t] = NoCall /\ s \in Listed
    /\ makerCall' = [makerCall EXCEPT ![t] = [op |-> "evict", id |-> NoCall, left |-> {s}]]
    /\ doomed' = doomed \cup {s}
    /\ UNCHANGED <<stored, createdAt, wallClock, promised>>

Evicting(t) == makerCall[t] # NoCall /\ makerCall[t].op = "evict"

(* LocalSnapshotBackend::delete removes the directory.                     *)
RemoveDirectory(t, s) ==
    /\ Evicting(t) /\ s \in makerCall[t].left /\ backendKind = "local"
    /\ stored' = [stored EXCEPT ![s] = {}]
    /\ makerCall' = [makerCall EXCEPT ![t].left = @ \ {s}]
    /\ UNCHANGED <<createdAt, wallClock, promised, doomed>>

(* S3SnapshotBackend::delete puts the marker, deletes what a listing       *)
(* shows, and deletes the marker unless one of those failed.               *)
PutMarker(t, s) ==
    /\ Evicting(t) /\ s \in makerCall[t].left /\ backendKind = "s3"
    /\ "marker" \notin stored[s]
    /\ stored' = [stored EXCEPT ![s] = @ \cup {"marker"}]
    /\ UNCHANGED <<createdAt, makerCall, wallClock, promised, doomed>>

DeleteObject(t, s, o) ==
    /\ Evicting(t) /\ s \in makerCall[t].left
    /\ "marker" \in stored[s] /\ o \in stored[s] \ {"marker"}
    /\ stored' = [stored EXCEPT ![s] = @ \ {o}]
    /\ UNCHANGED <<createdAt, makerCall, wallClock, promised, doomed>>

DeleteMarker(t, s) ==
    /\ Evicting(t) /\ s \in makerCall[t].left /\ stored[s] = {"marker"}
    /\ stored' = [stored EXCEPT ![s] = {}]
    /\ makerCall' = [makerCall EXCEPT ![t].left = @ \ {s}]
    /\ UNCHANGED <<createdAt, wallClock, promised, doomed>>

CallDone(t) ==
    /\ Evicting(t) /\ makerCall[t].left = {}
    /\ makerCall' = [makerCall EXCEPT ![t] = NoCall]
    /\ UNCHANGED <<stored, createdAt, wallClock, promised, doomed>>

(* A request fails, or the process dies: what was written stays.           *)
CallFails(t) ==
    /\ makerCall[t] # NoCall /\ makerCall[t].left # {}
    /\ makerCall' = [makerCall EXCEPT ![t] = NoCall]
    /\ UNCHANGED <<stored, createdAt, wallClock, promised, doomed>>

-----------------------------------------------------------------------------
(* restore_snapshot: load, where S3 skips the files it cannot fetch, then  *)
(* verify_for_restore: what a call may return now, changing nothing.       *)
Loadable(s, files) ==
    /\ s \in Listed
    /\ IF backendKind = "s3" THEN files \subseteq stored[s] \ {"meta"}
       ELSE files = stored[s] \ {"meta"}

VerifyForRestore(files) == MetaSize > 0 /\ SizeOf(files) > 0 => MetaSize = SizeOf(files)

RestoreSnapshot(s) ==
    {files \in SUBSET (Files \cup {"marker"}) : Loadable(s, files) /\ VerifyForRestore(files)}

WallTick ==
    /\ wallClock < LastSecond
    /\ wallClock' = wallClock + 1
    /\ UNCHANGED <<stored, createdAt, makerCall, promised, doomed>>

StoreNext ==
    /\ UNCHANGED backendKind
    /\ \/ \E t \in Makers : SaveFile(t) \/ SaveDone(t) \/ CallDone(t) \/ CallFails(t)
       \/ \E t \in Makers, s \in SnapIds :
            \/ SaveMetadata(t, s) \/ DeleteSnapshot(t, s)
            \/ RemoveDirectory(t, s) \/ PutMarker(t, s) \/ DeleteMarker(t, s)
            \/ \E o \in Files \cup {"meta"} : DeleteObject(t, s, o)
       \/ WallTick

StoreSpec == StoreInit /\ [][StoreNext]_storeVars

-----------------------------------------------------------------------------
(* A restore that succeeds returns every file of the snapshot, or none of  *)
(* them, never some: not of a save cut short, not of a delete half done,   *)
(* not when the store fails to hand out a file.                            *)
RestoredWhole == \A s \in SnapIds : RestoreSnapshot(s) \subseteq {{}, Files}

(* A snapshot whose save returned keeps all its objects as long as it is   *)
(* not among the oldest past the retention count and nobody deletes it,    *)
(* whatever other makers do meanwhile.                                     *)
PromisedIsStored == \A s \in promised \ doomed : Files \cup {"meta"} \subseteq stored[s]

-----------------------------------------------------------------------------
(***************************************************************************)
(* The upload of a snapshot to an object store: SnapshotUploadExecutor and *)
(* ResumableUploader (storage/src/snapshot/resumable_upload.rs) over the   *)
(* record SnapshotStateMachine keeps (state_machine.rs), with the sweep of *)
(* orphaned uploads (cleanup.rs).                                          *)
(*                                                                         *)
(* The store is outside: it applies a request or not, and the answer may   *)
(* be lost either way.  The file is the sequence of its blocks 1..Blocks,  *)
(* a chunk is ChunkSize of them, and a read returns one block or more.     *)
(* shortRead and resumedAt are history, for what the property excuses.     *)
(***************************************************************************)

CONSTANTS
    Blocks,       \* the file's length
    ChunkSize,    \* config.chunk_size, in blocks
    UploadRetries,  \* max_retries
    MaxUploads,   \* bound: multipart uploads ever initiated
    NoUpload

ASSUME UploadAssumption ==
    /\ Blocks \in Nat \ {0} /\ ChunkSize \in Nat \ {0}
    /\ UploadRetries \in Nat /\ MaxUploads \in Nat \ {0}
    /\ LET checkpoints == [id : Nat, parts : SUBSET Nat, next : Nat, bytes : Nat]
           states == {"idle", "compressing", "uploading", "verifying", "completing", "completed", "failed"}
       IN  /\ NoUpload \notin checkpoints
           /\ NoUpload \notin [state : states, orig : states, retries : Nat, ck : checkpoints \cup {NoUpload}]

VARIABLES
    snapLive,     \* the record in memory, NoUpload when nobody works on it
    snapSaved,    \* the record in the storage backend
    uploads,      \* the store's uploads: their parts, and whether they are open
    object,       \* the completed object, NoUpload before there is one
    executor,     \* where upload_file_with_checkpoint is
    shortRead, resumedAt

uploadVars == <<snapLive, snapSaved, uploads, object, executor, shortRead, resumedAt>>

FileBlocks == [n \in 1..Blocks |-> n]
Off == [at |-> "off"]

NewRecord == [state |-> "idle", orig |-> "idle", retries |-> 0, ck |-> NoUpload]

(* is_in_progress and is_resumable.                                        *)
SnapInProgress(r) == r.state \in {"compressing", "uploading", "verifying", "completing"}
SnapResumable(r) == r.state \in {"uploading", "failed"}

(* save_state.                                                             *)
SaveSnap(r) == snapLive' = r /\ snapSaved' = r

(* The upload checkpoint: the parts by number, the next one, the bytes.    *)
Checkpoint(id, parts, next, bytes) ==
    [id |-> id, parts |-> parts, next |-> next, bytes |-> bytes]

-----------------------------------------------------------------------------
UploadInit ==
    /\ snapLive = NoUpload /\ snapSaved = NoUpload
    /\ uploads = <<>> /\ object = NoUpload
    /\ executor = Off
    /\ shortRead = FALSE /\ resumedAt = FALSE

(* start_operation, then transition_to_compressing by the snapshot's maker. *)
StartSnapshot ==
    /\ snapLive = NoUpload /\ snapSaved = NoUpload
    /\ SaveSnap(NewRecord)
    /\ UNCHANGED <<uploads, object, executor, shortRead, resumedAt>>

Compress ==
    /\ snapLive # NoUpload /\ snapLive.state = "idle"
    /\ SaveSnap([snapLive EXCEPT !.state = "compressing"])
    /\ UNCHANGED <<uploads, object, executor, shortRead, resumedAt>>

(* execute of a compressed snapshot, or resume of one with a checkpoint:   *)
(* reset_for_retry goes back to the state it failed in.                    *)
Execute ==
    /\ snapLive # NoUpload /\ executor = Off
    /\ snapLive.state = "compressing"
    /\ executor' = [at |-> "begin"]
    /\ UNCHANGED <<snapLive, snapSaved, uploads, object, shortRead, resumedAt>>

(* should_retry, with the back-off behind it.                              *)
RetryDue(r) == r.state = "failed" /\ r.retries < UploadRetries

Resume ==
    /\ snapLive # NoUpload /\ executor = Off
    /\ SnapResumable(snapLive)
    /\ snapLive.state = "failed" => RetryDue(snapLive)
    /\ SaveSnap(IF snapLive.state = "failed" THEN [snapLive EXCEPT !.state = snapLive.orig]
                ELSE snapLive)
    /\ executor' = IF snapLive.ck = NoUpload THEN Off ELSE [at |-> "begin"]
    /\ UNCHANGED <<uploads, object, shortRead, resumedAt>>

(* fail_operation: the count goes up only from a record already failed.    *)
Failed(r) ==
    IF r.state = "failed" THEN [r EXCEPT !.retries = @ + 1]
    ELSE [r EXCEPT !.state = "failed", !.orig = r.state, !.retries = 0]

ExecuteFails ==
    /\ executor.at \in {"begin", "loop", "complete"}
    /\ SaveSnap(Failed(snapLive))
    /\ executor' = Off
    /\ UNCHANGED <<uploads, object, shortRead, resumedAt>>

-----------------------------------------------------------------------------

(* upload_file_with_checkpoint: go on with the checkpoint's upload, seeking *)
(* to the start of its next part, or initiate one.                          *)
Offset(part) == (part - 1) * ChunkSize

Continue ==
    /\ executor.at = "begin" /\ snapLive.ck # NoUpload
    /\ SaveSnap([snapLive EXCEPT !.state = "uploading"])
    /\ executor' = [at |-> "loop", pos |-> Offset(snapLive.ck.next)]
    /\ resumedAt' = TRUE
    /\ UNCHANGED <<uploads, object, shortRead>>

Initiate ==
    /\ executor.at = "begin" /\ snapLive.ck = NoUpload /\ Len(uploads) < MaxUploads
    /\ uploads' = Append(uploads, [open |-> TRUE, parts |-> <<>>])
    /\ SaveSnap([snapLive EXCEPT !.state = "uploading",
                    !.ck = Checkpoint(Len(uploads) + 1, {}, 1, 0)])
    /\ executor' = [at |-> "loop", pos |-> 0]
    /\ UNCHANGED <<object, shortRead, resumedAt>>

(* The store initiates, the answer is lost: an orphan.                     *)
InitiateLost ==
    /\ executor.at = "begin" /\ snapLive.ck = NoUpload /\ Len(uploads) < MaxUploads
    /\ uploads' = Append(uploads, [open |-> TRUE, parts |-> <<>>])
    /\ SaveSnap(Failed(snapLive))
    /\ executor' = Off
    /\ UNCHANGED <<object, shortRead, resumedAt>>

PutPart(id, n, data) ==
    [uploads EXCEPT ![id].parts =
        [k \in DOMAIN @ \cup {n} |-> IF k = n THEN data ELSE @[k]]]

(* read, upload_part, then update_upload_progress.                         *)
Reads(n) == n \in 1..ChunkSize /\ executor.pos + n <= Blocks

ProgressOf(n) ==
    [snapLive EXCEPT !.ck = Checkpoint(@.id, @.parts \cup {@.next}, @.next + 1, @.bytes + n)]

UploadPart(n) ==
    /\ executor.at = "loop" /\ Reads(n)
    /\ uploads[snapLive.ck.id].open
    /\ uploads' = PutPart(snapLive.ck.id, snapLive.ck.next,
                          SubSeq(FileBlocks, executor.pos + 1, executor.pos + n))
    /\ SaveSnap(ProgressOf(n))
    /\ executor' = [executor EXCEPT !.pos = @ + n]
    /\ shortRead' = (shortRead \/ (n < ChunkSize /\ executor.pos + n < Blocks))
    /\ UNCHANGED <<object, resumedAt>>

(* Every attempt fails for the uploader, one of them reached the store.    *)
UploadPartLost(n) ==
    /\ executor.at = "loop" /\ Reads(n)
    /\ uploads[snapLive.ck.id].open
    /\ uploads' = PutPart(snapLive.ck.id, snapLive.ck.next,
                          SubSeq(FileBlocks, executor.pos + 1, executor.pos + n))
    /\ SaveSnap(Failed(snapLive))
    /\ executor' = Off
    /\ UNCHANGED <<object, shortRead, resumedAt>>

EndOfFile ==
    /\ executor.at = "loop" /\ executor.pos >= Blocks
    /\ executor' = [at |-> "complete"]
    /\ UNCHANGED <<snapLive, snapSaved, uploads, object, shortRead, resumedAt>>

(* complete_upload: the parts listed, in their order.                      *)
Assembled(id, listed) ==
    FoldSeq(LAMBDA n, acc : uploads[id].parts[n] \o acc, <<>>,
            SetToSortSeq(listed, <))

StoreCompletes ==
    /\ executor.at = "complete"
    /\ LET ck == snapLive.ck IN
       /\ uploads[ck.id].open /\ ck.parts \subseteq DOMAIN uploads[ck.id].parts /\ ck.parts # {}
       /\ object' = Assembled(ck.id, ck.parts)
       /\ uploads' = [uploads EXCEPT ![ck.id].open = FALSE]
    /\ UNCHANGED <<shortRead, resumedAt>>

(* A plausible bug: the upload counts as complete once its parts are sent. *)
CompleteUnasked ==
    /\ executor.at = "complete"
    /\ SaveSnap([snapLive EXCEPT !.state = "verifying"])
    /\ executor' = [at |-> "finish"]
    /\ UNCHANGED <<uploads, object, shortRead, resumedAt>>

CompleteUpload ==
    /\ StoreCompletes
    /\ SaveSnap([snapLive EXCEPT !.state = "verifying"])
    /\ executor' = [at |-> "finish"]

(* The store completes, the answer is lost.                                *)
CompleteLost ==
    /\ StoreCompletes
    /\ SaveSnap(Failed(snapLive))
    /\ executor' = Off

(* transition_to_completing and complete_operation, each saved.            *)
Finish ==
    /\ executor.at = "finish"
    /\ IF snapLive.state = "verifying"
       THEN /\ SaveSnap([snapLive EXCEPT !.state = "completing"])
            /\ UNCHANGED executor
       ELSE /\ SaveSnap([snapLive EXCEPT !.state = "completed", !.ck = NoUpload])
            /\ executor' = Off
    /\ UNCHANGED <<uploads, object, shortRead, resumedAt>>

-----------------------------------------------------------------------------
(* cleanup_orphaned_uploads goes by age: any upload still open.            *)
AbortOrphan(id) ==
    /\ id \in DOMAIN uploads /\ uploads[id].open
    /\ uploads' = [uploads EXCEPT ![id] = [open |-> FALSE, parts |-> <<>>]]
    /\ UNCHANGED <<snapLive, snapSaved, object, executor, shortRead, resumedAt>>

SnapCrash ==
    /\ snapLive # NoUpload
    /\ snapLive' = NoUpload /\ executor' = Off
    /\ UNCHANGED <<snapSaved, uploads, object, shortRead, resumedAt>>

(* recover_operations.                                                     *)
RecoverSnapshot ==
    /\ snapLive = NoUpload /\ snapSaved # NoUpload
    /\ SnapInProgress(snapSaved) \/ RetryDue(snapSaved)
    /\ snapLive' = snapSaved
    /\ UNCHANGED <<snapSaved, uploads, object, executor, shortRead, resumedAt>>

-----------------------------------------------------------------------------
UploadNext ==
    \/ StartSnapshot \/ Compress \/ Execute \/ Resume \/ ExecuteFails
    \/ Continue \/ Initiate \/ InitiateLost
    \/ \E n \in 1..ChunkSize : UploadPart(n) \/ UploadPartLost(n)
    \/ EndOfFile \/ CompleteUpload \/ CompleteLost \/ Finish
    \/ \E id \in 1..MaxUploads : AbortOrphan(id)
    \/ SnapCrash \/ RecoverSnapshot

UploadSpec == UploadInit /\ [][UploadNext]_uploadVars

-----------------------------------------------------------------------------
(* A completed object is the file, block for block, whatever was retried,  *)
(* lost or resumed; excused is only a resumption after a read came short,  *)
(* because the resume offset counts whole chunks.                          *)
ObjectIsFile ==
    object # NoUpload /\ ~(shortRead /\ resumedAt) => object = FileBlocks

(* A record says completed only when the object is in the store.           *)
CompletedIsStored ==
    snapSaved # NoUpload /\ snapSaved.state = "completed" => object # NoUpload

(* A saved checkpoint never lists a part the store does not hold, while    *)
(* the store has the upload open: a resumed upload leaves no hole.         *)
CheckpointPartsHeld ==
    snapSaved # NoUpload /\ snapSaved.ck # NoUpload /\ uploads[snapSaved.ck.id].open =>
        snapSaved.ck.parts \subseteq DOMAIN uploads[snapSaved.ck.id].parts

(* A completed upload is the file, through lost answers, retries and       *)
(* resumes; a snapshot that was promised is stored, and one that is        *)
(* restored is whole.                                                      *)
SnapshotsWhole ==
    /\ ObjectIsFile
    /\ CompletedIsStored
    /\ CheckpointPartsHeld
    /\ RestoredWhole
    /\ PromisedIsStored
=============================================================================
