--------------------------- MODULE GenerationFiles ---------------------------
(***************************************************************************)
(* The directories of one generation as storage/src/generation_layout.rs   *)
(* writes them: its shadow, its sealed directory, its revisions, the       *)
(* pointer cache and the owner file of the volume.                         *)
(*                                                                         *)
(* A call holds transition_lock; what it reads is fixed by then, so it is  *)
(* the list of file-system operations it goes on to make ("script"), one   *)
(* step each.  The process may die between two of them, and the machine    *)
(* may lose power: "now" is what programs see, "disk" what is synced, and  *)
(* a cut leaves any mixture of the two.                                    *)
(***************************************************************************)
EXTENDS Naturals, Sequences, FiniteSets

CONSTANTS
    Contents,   \* contents presented for the generation: [name, bundle]
    Summaries,   \* node count and decoded bytes a build counts
    RevisionSeqs, \* revision sequences above the manifest's target
    Inputs,      \* digests of mutation tails
    Builders,    \* callers that build revisions
    Replicas,
    Nothing,
    MaxCuts,     \* bound: power cuts
    MaxDeaths    \* bound: process deaths

(* Nothing is none of the values that are stored.                          *)
ASSUME FilesAssumption ==
    /\ {MaxCuts, MaxDeaths} \subseteq Nat
    /\ Nothing \notin Contents /\ Nothing \notin Replicas
    /\ Nothing \notin [of : Contents, phase : {"staged", "bundle_verified", "materializing",
                                               "verified", "ready", "failed"}]
    /\ Nothing \notin [of : Contents, sum : Summaries]
    /\ Nothing \notin [rev : RevisionSeqs, input : Inputs, synced : BOOLEAN, rows : {"whole", "torn"}]

VARIABLES
    now,      \* what a program finds: [name, dir, revs, pointers, owner]
    disk,     \* what is synced
    script,   \* file-system operations the lock's holder has still to make
    handle,   \* PreparedGeneration: the manifest it was prepared from
    filled,   \* this process has built the rows since it prepared
    shadows,  \* builder -> the PreparedGenerationRevision it holds
    claimer,  \* the replica that created the owner file and has not written it
    told,     \* what answers have promised
    cuts, deaths

fileVars == <<now, disk, script, handle, filled, shadows, claimer, told, cuts, deaths>>

DirFiles == {"manifest", "digest", "journal", "bundle", "evidence", "marker", "rocks"}
BareDir == [f \in DirFiles |-> Nothing]
NoRevisions == [r \in RevisionSeqs |-> Nothing]

FilesInit ==
    /\ now = [name |-> "absent", dir |-> BareDir, revs |-> NoRevisions,
              pointers |-> Nothing, owner |-> Nothing]
    /\ disk = now
    /\ script = <<>> /\ handle = Nothing /\ filled = FALSE /\ claimer = Nothing
    /\ shadows = [b \in Builders |-> Nothing]
    /\ told = [ready |-> Nothing, revs |-> NoRevisions,
               inputs |-> [r \in RevisionSeqs |-> {}], claimed |-> {}]
    /\ cuts = 0 /\ deaths = 0

-----------------------------------------------------------------------------
(* The operations a script is made of.                                     *)
Op(do, file, what) == [do |-> do, file |-> file, what |-> what]
Plain(do) == Op(do, Nothing, Nothing)

(* atomic_write: a synced temporary, renamed, and its directory synced.    *)
AtomicWrite(file, what) == <<Op("write", file, what), Plain("sync_dir")>>
WriteJournal(m, phase) == AtomicWrite("journal", [of |-> m, phase |-> phase])

Phase == now.dir["journal"].phase

(* The readers and validators.                                             *)
ValidJournal(d, m) == d["journal"] # Nothing /\ d["journal"].of = m
ValidEvidence(d, m) == d["evidence"] # Nothing /\ d["evidence"].of = m
ValidMarker(d, m) == d["marker"] # Nothing /\ d["marker"].of = m
MarkerOfEvidence(d) == d["marker"].sum = d["evidence"].sum
VerifiedBundle(d, m) == d["bundle"] = m.bundle

BuildingIdentity(d, m) ==
    /\ d["manifest"] = m
    /\ d["digest"] = m
    /\ ValidJournal(d, m)

(* load_ready_at.                                                          *)
Loads(d) ==
    /\ d["manifest"] # Nothing /\ d["digest"] = d["manifest"]
    /\ ValidMarker(d, d["manifest"])
    /\ VerifiedBundle(d, d["manifest"])
    /\ ValidEvidence(d, d["manifest"])
    /\ MarkerOfEvidence(d)
    /\ ValidJournal(d, d["manifest"])
    /\ d["journal"].phase = "ready"

Ready == now.name = "ready" /\ Loads(now.dir)
Free == script = <<>> /\ claimer = Nothing

Building == Free /\ handle # Nothing /\ now.name = "building"

-----------------------------------------------------------------------------
(* prepare: answers for a sealed directory of the same content, resumes a  *)
(* shadow of the same content, or lays a new shadow out.                   *)
CreateShadow(m) ==
    /\ now.name = "absent"
    /\ script' = <<Plain("create")>>
                 \o AtomicWrite("manifest", m) \o AtomicWrite("digest", m)
                 \o WriteJournal(m, "staged")
                 \o <<Plain("sync_dir"), Plain("sync_parent")>>

PrepareFiles(m) ==
    /\ Free
    /\ \/ CreateShadow(m)
       \/ now.name = "building" /\ BuildingIdentity(now.dir, m) /\ UNCHANGED script
       \/ Ready /\ now.dir["manifest"] = m /\ UNCHANGED script
    /\ handle' = m /\ filled' = FALSE
    /\ UNCHANGED <<now, disk, shadows, claimer, told, cuts, deaths>>

(* A call with the handle that makes these operations.                     *)
Make(ops) ==
    /\ script' = ops
    /\ UNCHANGED <<now, disk, handle, filled, shadows, claimer, told, cuts, deaths>>

(* install_bundle: the stream is verified before it is renamed into place; *)
(* one that breaks the reference is removed.                               *)
InstallFiles ==
    /\ Building /\ ValidJournal(now.dir, handle)
    /\ \/ /\ now.dir["bundle"] = Nothing /\ Phase \in {"staged", "bundle_verified"}
          /\ Make(<<Op("write", "bundle", handle.bundle), Plain("sync_dir")>>
                  \o WriteJournal(handle, "bundle_verified"))
       \/ /\ VerifiedBundle(now.dir, handle) /\ Phase = "staged"
          /\ Make(WriteJournal(handle, "bundle_verified"))

MarkFiles ==
    /\ Building /\ VerifiedBundle(now.dir, handle)
    /\ Phase = "bundle_verified"
    /\ Make(WriteJournal(handle, "materializing"))

(* A plausible bug: RocksDB is not flushed before the evidence is recorded. *)
FillUnflushed ==
    /\ Building /\ Phase = "materializing" /\ ~filled
    /\ script' = <<Op("write", "rocks", handle.name)>>
    /\ filled' = TRUE
    /\ UNCHANGED <<now, disk, handle, shadows, claimer, told, cuts, deaths>>

(* The materializer fills RocksDB and flushes it, which syncs its files.   *)
FillRocks ==
    /\ Building /\ Phase = "materializing" /\ ~filled
    /\ script' = <<Op("write", "rocks", handle.name), Plain("flush")>>
    /\ filled' = TRUE
    /\ UNCHANGED <<now, disk, handle, shadows, claimer, told, cuts, deaths>>

(* record_materialization.                                                 *)
RecordFiles(sum) ==
    /\ Building
    /\ Phase = "materializing" /\ filled
    /\ Make(AtomicWrite("evidence", [of |-> handle, sum |-> sum])
            \o WriteJournal(handle, "verified"))

(* finalize_ready.                                                         *)
SealMarker ==
    IF Phase = "verified"
    THEN AtomicWrite("marker", [of |-> handle, sum |-> now.dir["evidence"].sum])
         \o WriteJournal(handle, "ready")
    ELSE <<>>
PublishReady == <<Plain("sync_tree"), Plain("publish"), Plain("sync_parent"), Plain("loaded")>>

FinalizeFiles ==
    /\ Building /\ Phase \in {"verified", "ready"}
    /\ VerifiedBundle(now.dir, handle)
    /\ ValidEvidence(now.dir, handle)
    /\ Phase = "ready" => ValidMarker(now.dir, handle) /\ MarkerOfEvidence(now.dir)
    /\ Make(SealMarker \o PublishReady)

FailFiles ==
    /\ Building /\ now.dir["journal"] # Nothing
    /\ Make(WriteJournal(handle, "failed"))

-----------------------------------------------------------------------------
(* Revisions.  prepare_revision answers for a sealed revision built from   *)
(* the same tail, and otherwise gives the caller a shadow of its own.      *)
RevisionIs(r, input) == now.revs[r] # Nothing /\ now.revs[r].input = input

PrepareRevision(b, r, input) ==
    /\ Free /\ Ready /\ shadows[b] = Nothing
    /\ \/ /\ RevisionIs(r, input)
          /\ told' = [told EXCEPT !.inputs[r] = @ \cup {input}]
          /\ UNCHANGED shadows
       \/ /\ now.revs[r] = Nothing
          /\ shadows' = [shadows EXCEPT ![b] = [rev |-> r, input |-> input, synced |-> FALSE, rows |-> "whole"]]
          /\ UNCHANGED told
    /\ UNCHANGED <<now, disk, script, handle, filled, claimer, cuts, deaths>>

(* finalize_revision syncs the shadow; a revision published meanwhile wins *)
(* if it was built from the same tail, and otherwise the call fails and    *)
(* leaves its shadow behind.                                               *)
PublishRevision(b) == <<Op("tree", b, Nothing), Op("revise", b, Nothing),
                        Plain("sync_revisions"), Op("revised", b, Nothing)>>

FinalizeRevision(b) ==
    /\ Free /\ shadows[b] # Nothing
    /\ LET s == shadows[b] IN
       IF now.revs[s.rev] = Nothing
       THEN script' = PublishRevision(b) /\ UNCHANGED <<shadows, told>>
       ELSE /\ shadows' = [shadows EXCEPT ![b] = Nothing]
            /\ told' = IF Ready /\ RevisionIs(s.rev, s.input)
                       THEN [told EXCEPT !.inputs[s.rev] = @ \cup {s.input}]
                       ELSE told
            /\ UNCHANGED script
    /\ UNCHANGED <<now, disk, handle, filled, claimer, cuts, deaths>>

-----------------------------------------------------------------------------
(* The pointer cache names a checkpoint of this generation: 0 is its base. *)
PointerFor(p) == Ready /\ (p # 0 => now.revs[p] # Nothing)
PointerTarget(p) == Ready /\ (p # 0 => now.revs[p] # Nothing)

ReconcilePointers(p) ==
    /\ Free /\ PointerFor(p) /\ now.pointers # p
    /\ script' = <<Op("point", Nothing, p), Plain("sync_scope")>>
    /\ UNCHANGED <<now, disk, handle, filled, shadows, claimer, told, cuts, deaths>>

PointersLoad == now.pointers = Nothing \/ PointerTarget(now.pointers)

-----------------------------------------------------------------------------
(* claim_replica_volume: create_new, write and sync the file, then sync    *)
(* the root.  A file that cannot be written is removed again.              *)
CreateOwner(rep) ==
    /\ Free /\ now.owner = Nothing
    /\ now' = [now EXCEPT !.owner = "empty"]
    /\ claimer' = rep
    /\ UNCHANGED <<disk, script, handle, filled, shadows, told, cuts, deaths>>

WriteOwner ==
    /\ claimer # Nothing
    /\ now' = [now EXCEPT !.owner = claimer]
    /\ script' = <<Plain("sync_root"), Op("claimed", claimer, Nothing)>>
    /\ claimer' = Nothing
    /\ UNCHANGED <<disk, handle, filled, shadows, told, cuts, deaths>>

RemoveOwner ==
    /\ claimer # Nothing
    /\ now' = [now EXCEPT !.owner = Nothing]
    /\ claimer' = Nothing
    /\ UNCHANGED <<disk, script, handle, filled, shadows, told, cuts, deaths>>

-----------------------------------------------------------------------------
(* One operation of the script.                                            *)
NowAfter(op) ==
    CASE op.do = "create" -> [now EXCEPT !.name = "building", !.dir = BareDir]
      [] op.do = "write" -> [now EXCEPT !.dir[op.file] = op.what]
      [] op.do = "publish" -> [now EXCEPT !.name = "ready"]
      [] op.do = "revise" -> [now EXCEPT !.revs[shadows[op.file].rev] = shadows[op.file]]
      [] op.do = "point" -> [now EXCEPT !.pointers = op.what]
      [] OTHER -> now

(* sync_dir makes the names in a directory last; sync_tree also syncs the  *)
(* files below it.                                                         *)
DiskAfter(op) ==
    CASE op.do = "create" -> [disk EXCEPT !.dir = BareDir]
      [] op.do = "sync_dir" -> [disk EXCEPT !.dir = [now.dir EXCEPT !["rocks"] = disk.dir["rocks"]]]
      [] op.do = "flush" -> [disk EXCEPT !.dir["rocks"] = now.dir["rocks"]]
      [] op.do = "sync_tree" -> [disk EXCEPT !.dir = now.dir]
      [] op.do = "sync_parent" -> [disk EXCEPT !.name = now.name]
      [] op.do = "sync_revisions" -> [disk EXCEPT !.revs = now.revs]
      [] op.do = "sync_scope" -> [disk EXCEPT !.pointers = now.pointers]
      [] op.do = "sync_root" -> [disk EXCEPT !.owner = now.owner]
      [] OTHER -> disk

ToldAfter(op) ==
    CASE op.do = "loaded" /\ Ready -> [told EXCEPT !.ready = now.dir]
      [] op.do = "revised" /\ Ready ->
            LET s == shadows[op.file] IN
            [told EXCEPT !.revs[s.rev] = s, !.inputs[s.rev] = @ \cup {s.input}]
      [] op.do = "claimed" -> [told EXCEPT !.claimed = @ \cup {op.file}]
      [] OTHER -> told

ShadowAfter(op) ==
    CASE op.do = "tree" -> [shadows EXCEPT ![op.file].synced = TRUE]
      [] op.do = "revised" -> [shadows EXCEPT ![op.file] = Nothing]
      [] OTHER -> shadows

DoOperation ==
    /\ script # <<>>
    /\ now' = NowAfter(Head(script))
    /\ disk' = DiskAfter(Head(script))
    /\ told' = ToldAfter(Head(script))
    /\ shadows' = ShadowAfter(Head(script))
    /\ script' = Tail(script)
    /\ UNCHANGED <<handle, filled, claimer, cuts, deaths>>

-----------------------------------------------------------------------------
(* The process dies: what it holds is gone, what programs see stays.       *)
Forget ==
    /\ script' = <<>> /\ handle' = Nothing /\ filled' = FALSE /\ claimer' = Nothing
    /\ shadows' = [b \in Builders |-> Nothing]
    /\ UNCHANGED told

ProcessDies ==
    /\ deaths < MaxDeaths /\ deaths' = deaths + 1
    /\ Forget
    /\ UNCHANGED <<now, disk, cuts>>

(* The machine loses power: every name and every file is as it was seen    *)
(* or as it was synced, and an unsynced RocksDB may be torn.               *)
Unsynced == {f \in DirFiles : now.dir[f] # disk.dir[f]}
Left(kept, torn) ==
    [f \in DirFiles |-> IF f = "rocks" /\ f \in Unsynced /\ torn THEN "torn"
                     ELSE IF f \in kept THEN now.dir[f] ELSE disk.dir[f]]
LeftRevision(r, kept) ==
    IF r \notin kept THEN disk.revs[r]
    ELSE IF now.revs[r] # Nothing /\ ~now.revs[r].synced
         THEN [now.revs[r] EXCEPT !.rows = "torn"] ELSE now.revs[r]

CutPower ==
    /\ cuts < MaxCuts /\ cuts' = cuts + 1
    /\ Forget /\ UNCHANGED deaths
    /\ \E n \in {now.name, disk.name}, p \in {now.pointers, disk.pointers},
          o \in {now.owner, disk.owner}, kept \in SUBSET Unsynced, torn \in BOOLEAN,
          revised \in SUBSET {r \in RevisionSeqs : now.revs[r] # disk.revs[r]} :
       now' = [name |-> n,
               dir |-> IF n = "absent" THEN BareDir ELSE Left(kept, torn),
               revs |-> [r \in RevisionSeqs |-> LeftRevision(r, revised)],
               pointers |-> p, owner |-> o]
    /\ disk' = now'

FilesNext ==
    \/ \E m \in Contents : PrepareFiles(m)
    \/ InstallFiles
    \/ MarkFiles
    \/ FillRocks
    \/ \E s \in Summaries : RecordFiles(s)
    \/ FinalizeFiles
    \/ FailFiles
    \/ \E b \in Builders, r \in RevisionSeqs, i \in Inputs : PrepareRevision(b, r, i)
    \/ \E b \in Builders : FinalizeRevision(b)
    \/ \E p \in RevisionSeqs \cup {0} : ReconcilePointers(p)
    \/ \E rep \in Replicas : CreateOwner(rep)
    \/ WriteOwner
    \/ RemoveOwner
    \/ DoOperation
    \/ ProcessDies
    \/ CutPower

FilesSpec == FilesInit /\ [][FilesNext]_fileVars

-----------------------------------------------------------------------------
(* Whatever the process and the machine go through, a directory under its  *)
(* ready name holds everything load_ready_at reads and the whole RocksDB   *)
(* of the manifest it names, and so does a published revision: a build     *)
(* restarted from its journal must not seal rows that a cut tore.          *)
PublishedIsWhole ==
    /\ now.name = "ready" =>
          Loads(now.dir) /\ now.dir["rocks"] = now.dir["manifest"].name
    /\ \A r \in RevisionSeqs : now.revs[r] # Nothing => now.revs[r].rows = "whole"

(* What finalize_ready and finalize_revision have answered for survives    *)
(* every later power cut, unchanged.                                       *)
AnswersSurvive ==
    /\ told.ready # Nothing => disk.name = "ready" /\ disk.dir = told.ready
    /\ \A r \in RevisionSeqs : told.revs[r] # Nothing => disk.revs[r] = told.revs[r]

(* A volume one replica was told it has claimed names that replica ever    *)
(* after, so no other is told so.                                          *)
ClaimIsForGood ==
    \A rep \in told.claimed : told.claimed = {rep} /\ now.owner = rep /\ disk.owner = rep

(* While the machine keeps power, all callers told that a checkpoint is    *)
(* materialised built it from one mutation tail, in whatever order two     *)
(* builders and a restarted process come to it.                            *)
OneTailPerCheckpoint ==
    cuts = 0 => \A r \in RevisionSeqs : Cardinality(told.inputs[r]) <= 1

(* While the machine keeps power, the pointer cache can be read back.      *)
CacheLoads == cuts = 0 => PointersLoad

(* What the generation layout published is complete and survives a power   *)
(* cut, a claimed directory keeps its owner, and the cache points at       *)
(* something that loads.                                                   *)
FilesWhole ==
    /\ PublishedIsWhole
    /\ AnswersSurvive
    /\ ClaimIsForGood
    /\ OneTailPerCheckpoint
    /\ CacheLoads
=============================================================================
