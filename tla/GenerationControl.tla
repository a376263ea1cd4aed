------------------------- MODULE GenerationControl -------------------------
(***************************************************************************)
(* One replica publishing, activating, revising and collecting immutable   *)
(* generations of one scope: GenerationController, GenerationMaterializer  *)
(* and GenerationStore (generation_control.rs and generation.rs in         *)
(* grpc-server, generation_layout.rs in storage) over the durable record   *)
(* of ServingState.                                                        *)
(*                                                                         *)
(* Three things must agree and are written at different moments: the       *)
(* directories on disk, the durable record, and the runtimes held open in  *)
(* memory.  Controller calls are serialised by the transition lock, so     *)
(* what interleaves with the steps of a call is the failure of each file   *)
(* operation and the death of the process.                                 *)
(***************************************************************************)
EXTENDS ServingState

VARIABLES
    sealed,   \* the manifest of each READY directory, None without one
    torn,     \* READY directories whose deletion was cut short
    shadow,   \* the .building directory of each generation
    revs,     \* sealed revisions: the input digest, by generation and sequence
    revDirs,  \* generations that have a .revisions directory
    rt,       \* ScopeRuntimeSet: the runtimes held open, by role
    job,      \* the call that holds the transition lock, and its progress
    reply     \* how the last call ended

disk == <<sealed, torn, shadow, revs, revDirs>>
gcvars == <<vars, disk, rt, job, reply>>

-----------------------------------------------------------------------------
(* Data.                                                                   *)

BuildPhases == {"Staged", "BundleVerified", "Materializing", "Verified", "Ready", "Failed"}

(* A shadow is "partial" from create_dir until its journal is written.     *)
ShadowOf(shape, m) == [shape |-> shape, manifest |-> m, phase |-> "Staged", bundle |-> FALSE]
NoShadow == ShadowOf("none", None)
PartialShadow == ShadowOf("partial", None)
Shadows == [shape : {"none", "partial", "whole"}, manifest : Manifests \cup {None},
            phase : BuildPhases, bundle : BOOLEAN]

Runtimes == [manifest : Manifests, applied : 0..MaxSeq]
NoRuntimes == [active |-> None, previous |-> None, staged |-> None]

(* The digest that names a revision's input covers the checkpoint it was   *)
(* built from and the mutations applied on top of it.                      *)
InputDigest(source, tail) == <<source, tail>>
Suffix(c, source) == SubSeq(c.tail, source - (c.target - Len(c.tail)) + 1, Len(c.tail))

(* No digest is mistaken for a missing directory.                          *)
ASSUME DigestAssumption ==
    \A n \in 0..MaxSeq, c \in Commits : InputDigest(n, Suffix(c, n)) # None

Idle == [pc |-> "idle"]
Publishing(pc, m, outcome) == [pc |-> pc, m |-> m, outcome |-> outcome, cause |-> "none"]

Goto(pc) == job' = [job EXCEPT !.pc = pc]
Finish(r) == job' = Idle /\ reply' = r
Fail(cause) == job' = [job EXCEPT !.pc = "failing", !.cause = cause]

-----------------------------------------------------------------------------
(* The runtime cache: ensure_runtime_cache and runtime_for_state.          *)

RtCached(r) == \E c \in {rt.active, rt.previous, rt.staged} \ {None} :
                  c.manifest.id = r.manifest.id /\ c.applied = r.applied

(* load_ready_at and load_revision_at: every file is read and checked.     *)
BaseReadable(g) == sealed[g] # None /\ g \notin torn
RevisionReadable(g, n) == revs[g][n] # None

(* load_materialized: the bundle checkpoint or a sealed revision.          *)
Loadable(r) ==
    LET g == r.manifest.id IN
    /\ BaseReadable(g)
    /\ \/ r.applied = sealed[g].target
       \/ r.applied > sealed[g].target /\ RevisionReadable(g, r.applied)

(* open_ready_generation: storage, graph and index of a loaded directory.  *)
Opened(g, n) == [manifest |-> sealed[g], applied |-> n]

(* The roles that hold a runtime: a staged generation only once Ready.     *)
RuntimeRoles(a, p, s) == ({a, p} \cup {r \in {s} : r # None /\ r.state = "Ready"}) \ {None}

Restorable == \A r \in RuntimeRoles(active, previous, staged) : RtCached(r) \/ Loadable(r)

RuntimeFor(r) ==
    IF RtCached(r)
    THEN CHOOSE c \in {rt.active, rt.previous, rt.staged} \ {None} :
            c.manifest.id = r.manifest.id /\ c.applied = r.applied
    ELSE Opened(r.manifest.id, r.applied)

EnsuredCache ==
    [active   |-> IF active = None THEN None ELSE RuntimeFor(active),
     previous |-> IF previous = None THEN None ELSE RuntimeFor(previous),
     staged   |-> IF staged = None \/ (staged # None /\ staged.state # "Ready")
                  THEN None ELSE RuntimeFor(staged)]

(* ensure_runtime_cache replaces the whole set or, when a role cannot be   *)
(* opened, fails and leaves it alone.                                      *)
EnsureCache ==
    \/ Restorable /\ rt' = EnsuredCache /\ Finish("ok")
    \/ UNCHANGED rt /\ Finish("error")

-----------------------------------------------------------------------------
(* publish_from_reader, step by step.                                      *)

(* materializer.prepare and store.prepare: preconditions and disk          *)
(* admission, then an existing READY directory, then an existing shadow,   *)
(* then a new one.                                                         *)
Publish(m) ==
    /\ job = Idle
    /\ LET g == m.id IN
       \/ Finish("error") /\ UNCHANGED disk
       \/ /\ m.base = m.target /\ sealed[g] = m
          /\ job' = Publishing("record", m, "AlreadyReady")
          /\ UNCHANGED <<disk, reply>>
       \/ /\ m.base = m.target /\ sealed[g] = None
          /\ shadow[g].manifest = m
          /\ job' = Publishing("record", m, "Resumed")
          /\ UNCHANGED <<disk, reply>>
       \/ /\ m.base = m.target /\ sealed[g] = None /\ shadow[g] = NoShadow
          /\ shadow' = [shadow EXCEPT ![g] = PartialShadow]
          /\ job' = Publishing("fill", m, "Started")
          /\ UNCHANGED <<sealed, torn, revs, revDirs, reply>>
    /\ UNCHANGED <<vars, rt>>

FillShadow ==
    /\ job.pc = "fill"
    /\ \/ /\ shadow' = [shadow EXCEPT ![job.m.id] = ShadowOf("whole", job.m)]
          /\ Goto("record") /\ UNCHANGED reply
       \/ Finish("error") /\ UNCHANGED shadow
    /\ UNCHANGED <<vars, sealed, torn, revs, revDirs, rt>>

(* A generation the record already holds as Ready or Serving is reloaded;  *)
(* one it holds with other content is refused; otherwise it is staged.     *)
CheckRecord ==
    /\ job.pc = "record"
    /\ LET m == job.m
           known == Retained(m.id)
           same  == known /\ GenerationById(m.id).manifest = m
           live  == known /\ GenerationById(m.id).state \in {"Ready", "Serving"}
       IN
       \/ /\ known /\ ~same
          /\ Finish("error") /\ UNCHANGED <<vars, rt>>
       \/ /\ same /\ live
          /\ EnsureCache /\ UNCHANGED vars
       \/ /\ ~known \/ (same /\ ~live)
          /\ StageGeneration(m)
          /\ IF result' \in Accepted THEN Goto("install") /\ UNCHANGED reply
             ELSE Finish("error")
          /\ UNCHANGED rt
    /\ UNCHANGED disk

SetShadow(g, phase, bundle) ==
    shadow' = [shadow EXCEPT ![g].phase = phase, ![g].bundle = bundle]

(* install_bundle: the object is renamed into place before the journal     *)
(* says so, and a retry that finds it there only completes the journal.    *)
InstallBundle ==
    /\ job.pc = "install"
    /\ LET g == job.m.id IN
       \/ /\ sealed[g] # None \/ shadow[g].bundle
          /\ IF sealed[g] = None /\ shadow[g].phase = "Staged"
             THEN SetShadow(g, "BundleVerified", TRUE) ELSE UNCHANGED shadow
          /\ Goto("materialize")
       \/ /\ sealed[g] = None /\ ~shadow[g].bundle
          /\ shadow[g].phase \in {"Staged", "BundleVerified"}
          /\ SetShadow(g, shadow[g].phase, TRUE)
          /\ Goto("journal")
       \/ Fail("bundle") /\ UNCHANGED shadow
    /\ UNCHANGED <<vars, sealed, torn, revs, revDirs, rt, reply>>

JournalBundle ==
    /\ job.pc = "journal"
    /\ \/ SetShadow(job.m.id, "BundleVerified", TRUE) /\ Goto("materialize")
       \/ Fail("io") /\ UNCHANGED shadow
    /\ UNCHANGED <<vars, sealed, torn, revs, revDirs, rt, reply>>

(* mark_materializing.                                                     *)
Materializable(phase) == phase \in {"BundleVerified", "Materializing"}

(* materialize_installed up to the build: a READY directory is reopened as *)
(* the proof that it can serve.  mark_materializing is outside the scope   *)
(* of fail_build.                                                          *)
Materialize ==
    /\ job.pc = "materialize"
    /\ LET g == job.m.id IN
       \/ /\ job.outcome = "AlreadyReady"
          /\ \/ BaseReadable(g) /\ Goto("mark")
             \/ Fail("io")
          /\ UNCHANGED shadow
       \/ /\ job.outcome # "AlreadyReady" /\ Materializable(shadow[g].phase)
          /\ SetShadow(g, "Materializing", TRUE)
          /\ Goto("build")
       \/ /\ job.outcome # "AlreadyReady" /\ ~Materializable(shadow[g].phase)
          /\ Fail("phase") /\ UNCHANGED shadow
    /\ UNCHANGED <<vars, sealed, torn, revs, revDirs, rt, reply>>

(* A step of materialize_inner fails: fail_build records it in the         *)
(* journal, or cannot and only warns.                                      *)
FailBuild(cause) ==
    /\ \/ SetShadow(job.m.id, "Failed", TRUE)
       \/ UNCHANGED shadow
    /\ Fail(cause)

(* materialize_inner: consume the bundle, verify the indexes,              *)
(* record_materialization, then finalize_ready in two steps, the READY     *)
(* marker with its journal entry and the rename.                           *)
Build ==
    /\ job.pc = "build"
    /\ \/ SetShadow(job.m.id, "Verified", TRUE) /\ Goto("seal")
       \/ FailBuild("build")
    /\ UNCHANGED <<vars, sealed, torn, revs, revDirs, rt, reply>>

Seal ==
    /\ job.pc = "seal"
    /\ \/ SetShadow(job.m.id, "Ready", TRUE) /\ Goto("rename")
       \/ FailBuild("io")
    /\ UNCHANGED <<vars, sealed, torn, revs, revDirs, rt, reply>>

(* After the rename the directory is read back; when that fails there is   *)
(* no shadow left for fail_build to mark.                                  *)
Rename ==
    /\ job.pc = "rename"
    /\ \/ /\ sealed' = [sealed EXCEPT ![job.m.id] = job.m]
          /\ shadow' = [shadow EXCEPT ![job.m.id] = NoShadow]
          /\ (Goto("mark") \/ Fail("io"))
       \/ FailBuild("io") /\ UNCHANGED sealed
    /\ UNCHANGED <<vars, torn, revs, revDirs, rt, reply>>

(* The failure text is the error's own and may be one the store refuses.   *)
RecordFailure(f) ==
    /\ job.pc = "failing"
    /\ FailStaged(job.m.id, f)
    /\ Finish("error")
    /\ UNCHANGED <<disk, rt>>

(* The record is brought up to the directory: mark_bundle_loaded, then     *)
(* mark_ready, each its own batch, resumed wherever a crash left it.       *)
MarkRecord ==
    /\ job.pc = "mark"
    /\ LET g == job.m.id IN
       \/ /\ ~(/\ Present(staged, g) /\ staged.manifest = job.m
               /\ staged.state \in {"Staged", "CatchingUp", "Ready"})
          /\ Finish("error") /\ UNCHANGED vars
       \/ /\ Present(staged, g) /\ staged.manifest = job.m
          /\ \/ /\ staged.state = "Staged"
                /\ MarkBundleLoaded(g)
                /\ IF result' = "Ok" THEN Goto("mark") /\ UNCHANGED reply ELSE Finish("error")
             \/ /\ staged.state = "CatchingUp"
                /\ MarkReady(g)
                /\ IF result' = "Ok" THEN Goto("cache") /\ UNCHANGED reply ELSE Finish("error")
             \/ /\ staged.state = "Ready"
                /\ Goto("cache") /\ UNCHANGED <<vars, reply>>
    /\ UNCHANGED <<disk, rt>>

OpenPublished ==
    /\ job.pc = "cache"
    /\ EnsureCache
    /\ UNCHANGED <<vars, disk>>

-----------------------------------------------------------------------------
(* Activation, rollback and revision.  The durable commit and the swap of  *)
(* the runtimes happen under the runtime write lock: to a reader, and to   *)
(* the process that dies in between and loses its runtimes, one step.      *)

ExpectedActive == {"any", "none"} \cup GenIds

(* ExpectedActiveGeneration::matches.                                      *)
Expected(e) == \/ e = "any"
               \/ e = "none" /\ active = None
               \/ e \in GenIds /\ Present(active, e)

SwappedInActivated(c) == [active |-> c.staged, previous |-> c.active, staged |-> None]

CanActivate(g, e) ==
    /\ ~Present(active, g) /\ Expected(e)
    /\ Present(staged, g) /\ staged.state = "Ready" /\ Restorable

ActivateStaged(g, e) ==
    /\ job = Idle
    /\ \/ /\ ~CanActivate(g, e)
          /\ IF Present(active, g) /\ Restorable
             THEN rt' = EnsuredCache /\ Finish("ok")
             ELSE UNCHANGED rt /\ Finish("error")
          /\ UNCHANGED vars
       \/ /\ CanActivate(g, e)
          /\ Activate(g)
          /\ IF result' = "Ok"
             THEN rt' = SwappedInActivated(EnsuredCache) /\ Finish("ok")
             ELSE rt' = EnsuredCache /\ Finish("error")
    /\ UNCHANGED disk

CanRollback(g, e) ==
    /\ ~Present(active, g) /\ Expected(e)
    /\ Present(previous, g) /\ Restorable

(* Mutant: the swap precedes the durable rollback and is kept when it      *)
(* fails.                                                                  *)
RollbackSwappedFirst(g, e) ==
    /\ job = Idle
    /\ CanRollback(g, e)
    /\ Rollback(g)
    /\ rt' = [EnsuredCache EXCEPT !.active = EnsuredCache.previous,
                                  !.previous = EnsuredCache.active]
    /\ Finish("ok")
    /\ UNCHANGED disk

RollbackTo(g, e) ==
    /\ job = Idle
    /\ \/ /\ ~CanRollback(g, e)
          /\ IF Present(active, g) /\ Restorable
             THEN rt' = EnsuredCache /\ Finish("ok")
             ELSE UNCHANGED rt /\ Finish("error")
          /\ UNCHANGED vars
       \/ /\ CanRollback(g, e)
          /\ Rollback(g)
          /\ IF result' = "Ok"
             THEN rt' = [EnsuredCache EXCEPT !.active = EnsuredCache.previous,
                                             !.previous = EnsuredCache.active] /\ Finish("ok")
             ELSE rt' = EnsuredCache /\ Finish("error")
    /\ UNCHANGED disk

(* materialize_revision_from_runtime, called by the replica worker outside *)
(* the transition lock: the source is the open runtime, and the sealed     *)
(* directory of an earlier attempt is reused if it has the same input.     *)
BuildRevision(c) ==
    /\ job = Idle
    /\ Retained(c.gen) /\ RtCached(GenerationById(c.gen))
    /\ LET local  == GenerationById(c.gen)
           digest == InputDigest(local.applied, Suffix(c, local.applied))
       IN
       /\ local.manifest.sha = c.sha /\ local.applied < c.target
       /\ c.target <= MaxSeq /\ c.target - Len(c.tail) = local.manifest.target
       /\ \/ /\ revs[c.gen][c.target] \in {None, digest}
             /\ revs' = [revs EXCEPT ![c.gen][c.target] = digest]
             /\ job' = [pc |-> "revise", m |-> local.manifest, c |-> c]
             /\ UNCHANGED reply
          \/ Finish("error") /\ UNCHANGED revs
    /\ revDirs' = revDirs \cup {c.gen}
    /\ UNCHANGED <<vars, sealed, torn, shadow, rt>>

WithRevised(cache, g, r) ==
    IF Present(active, g) THEN [cache EXCEPT !.active = r]
    ELSE IF Present(previous, g) THEN [cache EXCEPT !.previous = r]
    ELSE [cache EXCEPT !.staged = r]

InstallRevision ==
    /\ job.pc = "revise"
    /\ LET c == job.c
           r == [manifest |-> job.m, applied |-> c.target]
       IN
       \/ Finish("error") /\ UNCHANGED <<vars, rt>>
       \/ /\ Retained(c.gen) /\ GenerationById(c.gen).manifest = job.m
          /\ c.target > GenerationById(c.gen).applied /\ Restorable
          /\ CommitGenerationRevision(c.gen, c.sha, c.target, c.tail)
          /\ IF result' = "Applied"
             THEN rt' = WithRevised(EnsuredCache, c.gen, r) /\ Finish("ok")
             ELSE rt' = EnsuredCache /\ Finish("error")
    /\ UNCHANGED disk

-----------------------------------------------------------------------------
(* restore_scope, at boot and by a read that finds no active runtime.      *)
Restore ==
    /\ job = Idle
    /\ rt.active = None
    /\ IF NoRecord THEN rt' = NoRuntimes /\ Finish("ok") ELSE EnsureCache
    /\ UNCHANGED <<vars, disk>>

(* The process dies: its runtimes and the call it was in are gone.         *)
Crash ==
    /\ rt' = NoRuntimes /\ job' = Idle
    /\ UNCHANGED <<vars, disk, reply>>

-----------------------------------------------------------------------------

(* maybe_garbage_collect: every generation the record retains is kept, and *)
(* the authority's publication too, whose name is not known here: any of   *)
(* the others may stay.                                                    *)
GcKeeps(g) == Retained(g)

(* garbage_collect_scope reads a manifest and a journal in every entry of  *)
(* the generations directory before it deletes anything.                   *)
GcReadable == /\ revDirs = {}
              /\ \A g \in GenIds : shadow[g].shape # "partial"

(* Which unretained directories are old enough is for the clock to say.    *)
(* The process can die inside a removal, which leaves a torn directory.    *)
GarbageCollect ==
    /\ job = Idle /\ active # None
    /\ \/ /\ ~GcReadable \/ torn # {}
          /\ reply' = "gc_failed"
          /\ UNCHANGED <<sealed, torn, shadow, rt>>
       \/ /\ GcReadable
          /\ \E gone \in SUBSET {g \in GenIds : ~GcKeeps(g)} :
             \/ /\ sealed' = [g \in GenIds |-> IF g \in gone THEN None ELSE sealed[g]]
                /\ shadow' = [g \in GenIds |-> IF g \in gone THEN NoShadow ELSE shadow[g]]
                /\ torn' = torn \ gone
                /\ reply' = "ok" /\ UNCHANGED rt
             \/ /\ \E g \in gone : sealed[g] # None /\ torn' = torn \cup {g}
                /\ rt' = NoRuntimes
                /\ UNCHANGED <<sealed, shadow, reply>>
    /\ UNCHANGED <<vars, revs, revDirs, job>>

-----------------------------------------------------------------------------
GCInit ==
    /\ Init
    /\ sealed = [g \in GenIds |-> None] /\ torn = {}
    /\ shadow = [g \in GenIds |-> NoShadow]
    /\ revs = [g \in GenIds |-> [n \in 1..MaxSeq |-> None]]
    /\ revDirs = {}
    /\ rt = NoRuntimes
    /\ job = Idle
    /\ reply = "ok"

PublishStep ==
    \/ \E m \in Manifests : Publish(m)
    \/ FillShadow
    \/ CheckRecord
    \/ InstallBundle
    \/ JournalBundle
    \/ Materialize
    \/ Build
    \/ Seal
    \/ Rename
    \/ \E f \in Failures \cup {BadFailure} : RecordFailure(f)
    \/ MarkRecord
    \/ OpenPublished

GCNext ==
    \/ PublishStep
    \/ \E g \in GenIds, e \in ExpectedActive : ActivateStaged(g, e)
    \/ \E g \in GenIds, e \in ExpectedActive : RollbackTo(g, e)
    \/ \E c \in Commits : BuildRevision(c)
    \/ InstallRevision
    \/ Restore
    \/ Crash
    \/ GarbageCollect

GCSpec == GCInit /\ [][GCNext]_gcvars

-----------------------------------------------------------------------------
(* Properties.                                                             *)

Digests == [GenIds -> [1..MaxSeq -> {None} \cup
              {InputDigest(n, Suffix(c, n)) : n \in 0..MaxSeq, c \in Commits}]]

(* Type correctness of the directories, the runtimes and the running call. *)
ControlTypeOK ==
    /\ TypeOK
    /\ sealed \in [GenIds -> Manifests \cup {None}]
    /\ torn \subseteq GenIds /\ revDirs \subseteq GenIds
    /\ shadow \in [GenIds -> Shadows]
    /\ revs \in Digests
    /\ rt \in [active : Runtimes \cup {None}, previous : Runtimes \cup {None},
               staged : Runtimes \cup {None}]
    /\ reply \in {"ok", "error", "gc_failed"}

RuntimeOf(r) == [manifest |-> r.manifest, applied |-> r.applied]

(* A request gets the complete old runtime or the complete new one: each   *)
(* open runtime is exactly what the durable record holds in that role,     *)
(* through failed commits, revisions, crashes and restores.                *)
ServedMatchesRecord ==
    /\ rt.active # None => active # None /\ rt.active = RuntimeOf(active)
    /\ rt.previous # None => previous # None /\ rt.previous = RuntimeOf(previous)
    /\ rt.staged # None => staged # None /\ rt.staged = RuntimeOf(staged)

(* Whatever the record says can serve, a restarted process can open: its   *)
(* READY directory is there, whole and of the recorded manifest, and so is *)
(* the revision of its applied sequence.  No crash point between sealing,  *)
(* recording and collecting loses it.                                      *)
RetainedHasBits ==
    \A r \in RuntimeRoles(active, previous, staged) :
        /\ sealed[r.manifest.id] = r.manifest /\ r.manifest.id \notin torn
        /\ r.applied > r.manifest.target => revs[r.manifest.id][r.applied] # None

(* The generation controller keeps the router's cache in step with the     *)
(* durable record, and never collects what a retained generation is made   *)
(* of, across builds, commits, activations, rollbacks, collections and     *)
(* restarts.                                                               *)
ControlSafe ==
    /\ ControlTypeOK
    /\ ServedMatchesRecord
    /\ RetainedHasBits
=============================================================================
