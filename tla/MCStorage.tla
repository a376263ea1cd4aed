------------------------------ MODULE MCStorage ------------------------------
(***************************************************************************)
(* The storage layer's components on small instances, one at a time:       *)
(* focus picks the component that moves, the others keep an initial state. *)
(* They share no variable, so their interleavings would add nothing.       *)
(***************************************************************************)
EXTENDS IndexRebuild, WriteAheadLog, Snapshots, CompilerJobs, StorageKeys

VARIABLE focus

storageVars ==
    <<focus, rebuildVars, recordVars, guardVars, walVars, uploadVars, storeVars, jobVars, keyVars>>

Attempts == [j \in Jobs |-> j]
Sizes == [f1 |-> 1, f2 |-> 2]

(* Kinds of rows and names that begin like one another.                    *)
BytesOf == [compiler_job |-> <<1>>, compiler_job_failure |-> <<1, 2>>, lifecycle_history |-> <<2>>, outbox |-> <<2, 1>>, reinforcement |-> <<1, 1>>,
   idempotency |-> <<0>>, meta |-> <<3>>, projection_data |-> <<2,2>>, projection_set |-> <<2, 0>>, id |-> <<3>>, vec |-> <<4>>, txt |-> <<5>>]
NameSet == {<<1>>, <<1, 1>>}
Spaces == {<<1>>, <<1, 1>>}

MCInit ==
    /\ focus \in {"rebuild", "record", "guards", "wal", "upload", "store", "jobs", "keys"}
    /\ RebuildInit /\ RecordInit /\ GuardInit /\ WalInit /\ UploadInit /\ StoreInit /\ JobsInit
    /\ KeysInit
    /\ focus # "guards" => serving = EmptyShadow
    /\ focus # "wal" => syncMode = "Sync"
    /\ focus # "store" => backendKind = "local"

MCNext ==
    /\ UNCHANGED focus
    /\ focus # "rebuild" => UNCHANGED rebuildVars
    /\ focus # "record" => UNCHANGED recordVars
    /\ focus # "guards" => UNCHANGED guardVars
    /\ focus # "wal" => UNCHANGED walVars
    /\ focus # "upload" => UNCHANGED uploadVars
    /\ focus # "store" => UNCHANGED storeVars
    /\ focus # "jobs" => UNCHANGED jobVars
    /\ focus # "keys" => UNCHANGED keyVars
    /\ \/ focus = "rebuild" /\ RebuildNext
       \/ focus = "record" /\ RecordNext
       \/ focus = "guards" /\ GuardNext
       \/ focus = "wal" /\ WalNext
       \/ focus = "upload" /\ UploadNext
       \/ focus = "store" /\ StoreNext
       \/ focus = "jobs" /\ JobsNext
       \/ focus = "keys" /\ KeysNext

MCSpec == MCInit /\ [][MCNext]_storageVars /\ (focus = "jobs" => JobsFairness)
=============================================================================
