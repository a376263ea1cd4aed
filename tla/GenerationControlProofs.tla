---------------------- MODULE GenerationControlProofs ----------------------
(***************************************************************************)
(* Proofs about GenerationControl for every set of generations, manifests  *)
(* and commits and every sequence bound: the controller only does what the *)
(* store of ServingState allows, and what it serves and keeps on disk      *)
(* follows the durable record through failures and crashes.  Of            *)
(* GenerationBundle: what a fetch installs is what its manifest allows.    *)
(***************************************************************************)
EXTENDS GenerationControl, GenerationBundle, DataPlane, ServingStateProofs

-----------------------------------------------------------------------------
(* The inductive invariant.                                                *)

(* The steps of a publication while its directory is being built: the      *)
(* record holds the generation as staged and does not call it Ready yet.   *)
BuildingAt == {"install", "journal", "materialize", "build", "seal", "rename", "failing"}
BeforeRename == {"fill", "record", "install", "journal", "materialize", "build", "seal", "rename"}

PublishJobs == [pc : BuildingAt \cup {"fill", "record", "mark", "cache"}, m : Manifests,
                outcome : {"AlreadyReady", "Resumed", "Started"},
                cause : {"none", "bundle", "io", "phase", "build"}]
ReviseJobs == [pc : {"revise"}, m : Manifests, c : Commits]

(* What the running call relies on until it ends.                          *)
PublishingOK ==
    /\ job.outcome = "AlreadyReady" => sealed[job.m.id] = job.m
    /\ job.outcome # "AlreadyReady" /\ job.pc \in BeforeRename => sealed[job.m.id] = None
    /\ job.pc \in {"build", "seal", "rename"} => job.outcome # "AlreadyReady"
    /\ job.pc \in BuildingAt =>
          staged # None /\ staged.manifest = job.m /\ staged.state # "Ready"
    /\ job.pc = "mark" => sealed[job.m.id] = job.m /\ job.m.id \notin torn

RevisingOK ==
    /\ job.m.id = job.c.gen /\ job.c.target \in 1..MaxSeq
    /\ revs[job.c.gen][job.c.target] # None

JobOK == \/ job = Idle
         \/ job \in PublishJobs /\ PublishingOK
         \/ job \in ReviseJobs /\ RevisingOK

(* A runtime is open for a staged generation only once it is Ready.        *)
StagedIsReady == rt.staged # None => staged # None /\ staged.state = "Ready"

(* Only a directory that was READY can be torn.                            *)
TornWasSealed == \A g \in torn : sealed[g] # None

DiskTypes ==
    /\ sealed \in [GenIds -> Manifests \cup {None}]
    /\ torn \subseteq GenIds /\ revDirs \subseteq GenIds
    /\ shadow \in [GenIds -> Shadows]
    /\ revs \in Digests
    /\ reply \in {"ok", "error", "gc_failed"}

Caches == [active : Runtimes \cup {None}, previous : Runtimes \cup {None},
           staged : Runtimes \cup {None}]

ControlInv ==
    /\ TypeOK /\ RecordNeverRefused
    /\ DiskTypes /\ TornWasSealed
    /\ ServedMatchesRecord /\ StagedIsReady
    /\ rt \in Caches
    /\ RetainedHasBits
    /\ JobOK

-----------------------------------------------------------------------------
(* The cache that ensure_runtime_cache builds.                             *)

(* The runtimes of a record: what each role that can serve holds.          *)
CacheOf(a, p, s) ==
    [active   |-> IF a = None THEN None ELSE RuntimeOf(a),
     previous |-> IF p = None THEN None ELSE RuntimeOf(p),
     staged   |-> IF s = None \/ s.state # "Ready" THEN None ELSE RuntimeOf(s)]

(* A role that is cached, or can be opened, yields the runtime the record  *)
(* describes: a cached runtime of the same generation and sequence is the  *)
(* one of that role, and an opened one has the sealed manifest.            *)
LEMMA RuntimeExact ==
    ASSUME TypeOK, RecordNeverRefused, ServedMatchesRecord, RetainedHasBits,
           NEW r \in RuntimeRoles(active, previous, staged)
    PROVE  RuntimeFor(r) = RuntimeOf(r)
<1>1. CASE RtCached(r)
  <2>1. ASSUME NEW c \in {rt.active, rt.previous, rt.staged} \ {None},
               c.manifest.id = r.manifest.id, c.applied = r.applied
        PROVE  c = RuntimeOf(r)
    <3>1. PICK q \in {active, previous, staged} \ {None} : c = RuntimeOf(q)
      BY <2>1 DEF ServedMatchesRecord
    <3>2. q.manifest.id = r.manifest.id
      BY <3>1, <2>1 DEF RuntimeOf
    <3>3. q = r
      BY <3>2 DEF RuntimeRoles, RecordNeverRefused, ValidRecord, DistinctRoles
    <3>. QED
      BY <3>1, <3>3
  <2>2. PICK c \in {rt.active, rt.previous, rt.staged} \ {None} :
           c.manifest.id = r.manifest.id /\ c.applied = r.applied
    BY <1>1 DEF RtCached
  <2>. QED
    BY <1>1, <2>1, <2>2 DEF RuntimeFor
<1>2. CASE ~RtCached(r)
  <2>1. sealed[r.manifest.id] = r.manifest
    BY DEF RetainedHasBits
  <2>. QED
    BY <1>2, <2>1 DEF RuntimeFor, Opened, RuntimeOf
<1>. QED
  BY <1>1, <1>2

LEMMA CacheExact ==
    ASSUME ControlInv PROVE EnsuredCache = CacheOf(active, previous, staged)
<1>1. active # None => RuntimeFor(active) = RuntimeOf(active)
  BY RuntimeExact DEF ControlInv, RuntimeRoles
<1>2. previous # None => RuntimeFor(previous) = RuntimeOf(previous)
  BY RuntimeExact DEF ControlInv, RuntimeRoles
<1>3. staged # None /\ staged.state = "Ready" => RuntimeFor(staged) = RuntimeOf(staged)
  BY RuntimeExact DEF ControlInv, RuntimeRoles
<1>. QED
  BY <1>1, <1>2, <1>3 DEF EnsuredCache, CacheOf

-----------------------------------------------------------------------------
(* How a step keeps the cache in step with the record.                     *)

SameRecord == active' = active /\ previous' = previous /\ staged' = staged
Serving == ServedMatchesRecord /\ StagedIsReady /\ rt \in Caches

LEMMA RuntimeType == ASSUME NEW a \in GenStates PROVE RuntimeOf(a) \in Runtimes
BY DEF GenStates, Runtimes, RuntimeOf

LEMMA RebuiltServes ==
    ASSUME TypeOK', rt' = CacheOf(active', previous', staged') PROVE Serving'
<1>1. /\ active' # None => RuntimeOf(active') \in Runtimes
      /\ previous' # None => RuntimeOf(previous') \in Runtimes
      /\ staged' # None => RuntimeOf(staged') \in Runtimes
  BY RuntimeType DEF TypeOK
<1>2. rt' \in Caches
  BY <1>1 DEF CacheOf, Caches
<1>3. ServedMatchesRecord'
  BY DEF ServedMatchesRecord, CacheOf, RuntimeOf
<1>4. StagedIsReady'
  BY DEF StagedIsReady, CacheOf
<1>. QED
  BY <1>2, <1>3, <1>4 DEF Serving, Caches, Runtimes

LEMMA SameServes ==
    ASSUME ControlInv, SameRecord, rt' = rt PROVE Serving'
BY DEF ControlInv, SameRecord, Serving, ServedMatchesRecord, StagedIsReady, RuntimeOf, Caches, Runtimes

LEMMA EmptyServes ==
    ASSUME rt' = NoRuntimes PROVE Serving'
BY DEF NoRuntimes, Serving, ServedMatchesRecord, StagedIsReady, Caches

(* The staged generation moved and no runtime was open for it.             *)
LEMMA StagedServes ==
    ASSUME ControlInv, active' = active, previous' = previous, rt' = rt, rt.staged = None
    PROVE  Serving'
BY DEF ControlInv, Serving, ServedMatchesRecord, StagedIsReady, RuntimeOf, Caches, Runtimes

(* Directories that stay keep what a retained generation is made of.       *)
LEMMA SameBits ==
    ASSUME ControlInv, SameRecord, sealed' = sealed, torn' = torn, revs' = revs
    PROVE  RetainedHasBits'
BY DEF ControlInv, SameRecord, RetainedHasBits, RuntimeRoles

LEMMA RecordStep ==
    ASSUME ControlInv, [Next]_vars PROVE TypeOK' /\ RecordNeverRefused'
BY NextType, NextRecord DEF ControlInv

LEMMA SameVars ==
    ASSUME UNCHANGED vars PROVE SameRecord /\ [Next]_vars
BY DEF vars, SameRecord

(* A step that touches neither record, sealed directories nor runtimes.    *)
LEMMA ShadowStep ==
    ASSUME ControlInv, UNCHANGED <<vars, sealed, torn, revs, revDirs, rt>>,
           shadow' \in [GenIds -> Shadows], reply' \in {"ok", "error", "gc_failed"}, JobOK'
    PROVE  ControlInv'
<1>1. TypeOK' /\ RecordNeverRefused' /\ SameRecord
  BY SameVars, RecordStep
<1>2. RetainedHasBits' /\ Serving'
  BY <1>1, SameBits, SameServes
<1>3. DiskTypes' /\ TornWasSealed'
  BY DEF ControlInv, DiskTypes, TornWasSealed, Digests
<1>. QED
  BY <1>1, <1>2, <1>3 DEF ControlInv, Serving

LEMMA SetShadowType ==
    ASSUME DiskTypes, NEW g \in GenIds, NEW step \in BuildPhases, SetShadow(g, step, TRUE)
    PROVE  shadow' \in [GenIds -> Shadows]
<1>1. shadow[g] \in Shadows /\ shadow \in [GenIds -> Shadows]
  BY DEF DiskTypes
<1>2. [shadow[g] EXCEPT !.phase = step, !.bundle = TRUE] \in Shadows
  BY <1>1 DEF Shadows
<1>3. shadow' = [shadow EXCEPT ![g] = [shadow[g] EXCEPT !.phase = step, !.bundle = TRUE]]
  BY <1>1 DEF SetShadow, Shadows
<1>. QED
  BY <1>1, <1>2, <1>3

LEMMA NewShadowType ==
    ASSUME NEW m \in Manifests
    PROVE  ShadowOf("whole", m) \in Shadows /\ NoShadow \in Shadows /\ PartialShadow \in Shadows
BY DEF ShadowOf, NoShadow, PartialShadow, Shadows, BuildPhases

-----------------------------------------------------------------------------
(* The running call.                                                       *)

PublishPcs == BuildingAt \cup {"fill", "record", "mark", "cache"}

LEMMA JobShape ==
    ASSUME JobOK
    PROVE  /\ job.pc \in PublishPcs => job \in PublishJobs /\ PublishingOK
           /\ job.pc = "revise" => job \in ReviseJobs /\ RevisingOK
BY DEF JobOK, PublishPcs, BuildingAt, PublishJobs, ReviseJobs, Idle

LEMMA JobManifest ==
    ASSUME NEW m \in Manifests PROVE m.id \in GenIds
BY ManifestAssumption

LEMMA GotoShape ==
    ASSUME job \in PublishJobs, NEW pc \in PublishPcs, Goto(pc)
    PROVE  job' \in PublishJobs /\ job'.pc = pc /\ job'.m = job.m /\ job'.outcome = job.outcome
BY DEF Goto, PublishJobs, PublishPcs

LEMMA FailShape ==
    ASSUME job \in PublishJobs, NEW cause \in {"none", "bundle", "io", "phase", "build"}, Fail(cause)
    PROVE  job' \in PublishJobs /\ job'.pc = "failing" /\ job'.m = job.m /\ job'.outcome = job.outcome
BY DEF Fail, PublishJobs, BuildingAt

-----------------------------------------------------------------------------
(* Publication, up to the rename: record and runtimes are left alone.      *)

LEMMA IdleOK == ASSUME job' = Idle PROVE JobOK'
BY DEF JobOK

LEMMA PublishKeeps ==
    ASSUME ControlInv, NEW m \in Manifests, Publish(m) PROVE ControlInv'
<1>1. m.id \in GenIds /\ DiskTypes
  BY JobManifest DEF ControlInv
<1>2. UNCHANGED <<vars, sealed, torn, revs, revDirs, rt>>
  BY DEF Publish, disk
<1>3. CASE Finish("error") /\ UNCHANGED disk
  BY <1>1, <1>2, <1>3, IdleOK, ShadowStep DEF Finish, disk, DiskTypes
<1>4. ASSUME NEW outcome \in {"AlreadyReady", "Resumed", "Started"}, NEW pc \in {"record", "fill"},
             job' = Publishing(pc, m, outcome),
             outcome = "AlreadyReady" => sealed[m.id] = m,
             outcome # "AlreadyReady" => sealed[m.id] = None
      PROVE  JobOK'
  <2>1. job' \in PublishJobs /\ job'.pc = pc /\ job'.m = m /\ job'.outcome = outcome
    BY <1>4 DEF Publishing, PublishJobs
  <2>2. PublishingOK'
    BY <1>2, <1>4, <2>1 DEF PublishingOK, BuildingAt
  <2>. QED
    BY <2>1, <2>2 DEF JobOK, PublishJobs
<1>5. CASE /\ sealed[m.id] = m /\ job' = Publishing("record", m, "AlreadyReady")
           /\ UNCHANGED <<disk, reply>>
  BY <1>1, <1>2, <1>4, <1>5, ShadowStep DEF disk, DiskTypes
<1>6. CASE /\ sealed[m.id] = None /\ job' = Publishing("record", m, "Resumed")
           /\ UNCHANGED <<disk, reply>>
  BY <1>1, <1>2, <1>4, <1>6, ShadowStep DEF disk, DiskTypes
<1>7. CASE /\ sealed[m.id] = None /\ job' = Publishing("fill", m, "Started")
           /\ shadow' = [shadow EXCEPT ![m.id] = PartialShadow] /\ UNCHANGED reply
  <2>1. shadow' \in [GenIds -> Shadows]
    BY <1>1, <1>7, NewShadowType DEF DiskTypes
  <2>. QED
    BY <1>1, <1>2, <1>4, <1>7, <2>1, ShadowStep DEF DiskTypes
<1>. QED
  BY <1>3, <1>5, <1>6, <1>7 DEF Publish

LEMMA FillShadowKeeps ==
    ASSUME ControlInv, FillShadow PROVE ControlInv'
<1>1. job \in PublishJobs /\ PublishingOK /\ DiskTypes
  BY JobShape DEF ControlInv, FillShadow, PublishPcs
<1>2. job.m \in Manifests /\ job.m.id \in GenIds
  BY <1>1, JobManifest DEF PublishJobs
<1>3. UNCHANGED <<vars, sealed, torn, revs, revDirs, rt>>
  BY DEF FillShadow
<1>4. CASE Finish("error") /\ UNCHANGED shadow
  BY <1>1, <1>3, <1>4, IdleOK, ShadowStep DEF Finish, DiskTypes
<1>5. CASE /\ shadow' = [shadow EXCEPT ![job.m.id] = ShadowOf("whole", job.m)]
           /\ Goto("record") /\ UNCHANGED reply
  <2>1. shadow' \in [GenIds -> Shadows]
    BY <1>1, <1>2, <1>5, NewShadowType DEF DiskTypes
  <2>2. job' \in PublishJobs /\ job'.pc = "record" /\ job'.m = job.m /\ job'.outcome = job.outcome
    BY <1>1, <1>5, GotoShape DEF PublishPcs
  <2>3. job.pc = "fill"
    BY DEF FillShadow
  <2>4. PublishingOK'
    BY <1>1, <1>3, <2>2, <2>3 DEF PublishingOK, BuildingAt, BeforeRename
  <2>5. JobOK'
    BY <2>2, <2>4 DEF JobOK, PublishJobs
  <2>. QED
    BY <1>1, <1>3, <1>5, <2>1, <2>5, ShadowStep DEF DiskTypes
<1>. QED
  BY <1>4, <1>5 DEF FillShadow

(* A step of the build that goes on to another one, or fails: the staged   *)
(* generation is the same and not Ready, and nothing was sealed.           *)
LEMMA BuildGoesOn ==
    ASSUME ControlInv, job.pc \in BuildingAt \ {"failing"},
           UNCHANGED <<vars, sealed, torn, revs, revDirs, rt, reply>>,
           shadow' \in [GenIds -> Shadows],
           \/ \E pc \in BuildingAt \ {"failing"} :
                 Goto(pc) /\ (pc \in {"build", "seal", "rename"} => job.outcome # "AlreadyReady")
           \/ Goto("mark") /\ sealed[job.m.id] = job.m /\ job.m.id \notin torn
           \/ \E cause \in {"none", "bundle", "io", "phase", "build"} : Fail(cause)
    PROVE  ControlInv'
<1>1. job \in PublishJobs /\ PublishingOK /\ DiskTypes
  BY JobShape DEF ControlInv, PublishPcs
<1>2. staged # None /\ staged.manifest = job.m /\ staged.state # "Ready"
  BY <1>1 DEF PublishingOK
<1>3. /\ job.outcome = "AlreadyReady" => sealed[job.m.id] = job.m
      /\ job.outcome # "AlreadyReady" => sealed[job.m.id] = None
  BY <1>1 DEF PublishingOK, BuildingAt, BeforeRename
<1>4. /\ job' \in PublishJobs /\ job'.m = job.m /\ job'.outcome = job.outcome
      /\ \/ /\ job'.pc \in BuildingAt
            /\ job'.pc \in {"build", "seal", "rename"} => job.outcome # "AlreadyReady"
         \/ job'.pc = "mark" /\ sealed[job.m.id] = job.m /\ job.m.id \notin torn
  <2>1. CASE \E pc \in BuildingAt \ {"failing"} :
                Goto(pc) /\ (pc \in {"build", "seal", "rename"} => job.outcome # "AlreadyReady")
    BY <1>1, <2>1, GotoShape DEF PublishPcs
  <2>2. CASE Goto("mark") /\ sealed[job.m.id] = job.m /\ job.m.id \notin torn
    BY <1>1, <2>2, GotoShape DEF PublishPcs
  <2>3. CASE \E cause \in {"none", "bundle", "io", "phase", "build"} : Fail(cause)
    BY <1>1, <2>3, FailShape DEF BuildingAt
  <2>. QED
    BY <2>1, <2>2, <2>3
<1>5. staged' = staged /\ sealed' = sealed /\ torn' = torn
  BY DEF vars
<1>6. PublishingOK'
  BY <1>2, <1>3, <1>4, <1>5 DEF PublishingOK, BuildingAt
<1>7. JobOK'
  BY <1>4, <1>6 DEF JobOK, PublishJobs
<1>. QED
  BY <1>1, <1>7, ShadowStep DEF DiskTypes

LEMMA BuildStepKeeps ==
    ASSUME ControlInv, InstallBundle \/ JournalBundle \/ Materialize \/ Build \/ Seal
    PROVE  ControlInv'
<1>1. job.pc \in BuildingAt \ {"failing"}
  BY DEF InstallBundle, JournalBundle, Materialize, Build, Seal, BuildingAt
<1>2. job \in PublishJobs /\ PublishingOK /\ DiskTypes
  BY <1>1, JobShape DEF ControlInv, PublishPcs
<1>3. job.m.id \in GenIds
  BY <1>2, JobManifest DEF PublishJobs
<1>4. UNCHANGED <<vars, sealed, torn, revs, revDirs, rt, reply>>
  BY DEF InstallBundle, JournalBundle, Materialize, Build, Seal
<1>5. ASSUME NEW step \in BuildPhases, SetShadow(job.m.id, step, TRUE)
      PROVE  shadow' \in [GenIds -> Shadows]
  BY <1>2, <1>3, <1>5, SetShadowType
<1>6. shadow \in [GenIds -> Shadows] /\ shadow[job.m.id].phase \in BuildPhases
  BY <1>2, <1>3 DEF DiskTypes, Shadows
<1>7. shadow' \in [GenIds -> Shadows]
  <2>1. CASE InstallBundle
    BY <1>5, <1>6, <2>1 DEF InstallBundle, BuildPhases
  <2>2. CASE JournalBundle
    BY <1>5, <1>6, <2>2 DEF JournalBundle, BuildPhases
  <2>3. CASE Materialize
    BY <1>5, <1>6, <2>3 DEF Materialize, BuildPhases
  <2>4. CASE Build
    BY <1>5, <1>6, <2>4 DEF Build, FailBuild, BuildPhases
  <2>5. CASE Seal
    BY <1>5, <1>6, <2>5 DEF Seal, FailBuild, BuildPhases
  <2>. QED
    BY <2>1, <2>2, <2>3, <2>4, <2>5
<1>8. \/ \E pc \in BuildingAt \ {"failing"} :
            Goto(pc) /\ (pc \in {"build", "seal", "rename"} => job.outcome # "AlreadyReady")
      \/ Goto("mark") /\ sealed[job.m.id] = job.m /\ job.m.id \notin torn
      \/ \E cause \in {"none", "bundle", "io", "phase", "build"} : Fail(cause)
  <2>1. CASE InstallBundle
    <3>1. Goto("materialize") \/ Goto("journal") \/ Fail("bundle")
      BY <2>1 DEF InstallBundle
    <3>. QED
      BY <3>1 DEF BuildingAt
  <2>2. CASE JournalBundle
    <3>1. Goto("materialize") \/ Fail("io")
      BY <2>2 DEF JournalBundle
    <3>. QED
      BY <3>1 DEF BuildingAt
  <2>3. CASE Materialize
    BY <1>2, <2>3 DEF Materialize, BuildingAt, BaseReadable, PublishingOK
  <2>4. CASE Build
    <3>1. job.outcome # "AlreadyReady"
      BY <1>2, <2>4 DEF Build, PublishingOK
    <3>. QED
      BY <2>4, <3>1 DEF Build, FailBuild, BuildingAt
  <2>5. CASE Seal
    <3>1. job.outcome # "AlreadyReady"
      BY <1>2, <2>5 DEF Seal, PublishingOK
    <3>. QED
      BY <2>5, <3>1 DEF Seal, FailBuild, BuildingAt
  <2>. QED
    BY <2>1, <2>2, <2>3, <2>4, <2>5
<1>. QED
  BY <1>1, <1>4, <1>7, <1>8, BuildGoesOn

-----------------------------------------------------------------------------
(* The rename: the directory appears where there was none, for a           *)
(* generation no role serves yet.                                          *)

LEMMA RenameKeeps ==
    ASSUME ControlInv, Rename PROVE ControlInv'
<1>1. job \in PublishJobs /\ PublishingOK /\ DiskTypes /\ job.pc = "rename"
  BY JobShape DEF ControlInv, Rename, PublishPcs, BuildingAt
<1>2. job.m \in Manifests /\ job.m.id \in GenIds
  BY <1>1, JobManifest DEF PublishJobs
<1>3. CASE FailBuild("io") /\ UNCHANGED sealed
  <2>1. shadow' \in [GenIds -> Shadows]
    BY <1>1, <1>2, <1>3, SetShadowType DEF FailBuild, BuildPhases, DiskTypes
  <2>. QED
    BY <1>1, <1>3, <2>1, BuildGoesOn DEF Rename, FailBuild, BuildingAt
<1>4. CASE /\ sealed' = [sealed EXCEPT ![job.m.id] = job.m]
           /\ shadow' = [shadow EXCEPT ![job.m.id] = NoShadow]
           /\ (Goto("mark") \/ Fail("io"))
  <2>1. UNCHANGED <<vars, torn, revs, revDirs, rt, reply>>
    BY DEF Rename
  <2>2. TypeOK' /\ RecordNeverRefused' /\ SameRecord /\ Serving'
    BY <2>1, SameVars, RecordStep, SameServes
  <2>3. staged # None /\ staged.manifest = job.m /\ staged.state # "Ready"
    BY <1>1 DEF PublishingOK, BuildingAt
  <2>4. \A r \in RuntimeRoles(active, previous, staged) : r.manifest.id # job.m.id
    BY <2>3 DEF ControlInv, RecordNeverRefused, ValidRecord, DistinctRoles, RuntimeRoles
  <2>5. \A r \in RuntimeRoles(active, previous, staged) : r.manifest.id \in GenIds
    BY JobManifest DEF ControlInv, TypeOK, GenStates, RuntimeRoles
  <2>6. sealed \in [GenIds -> Manifests \cup {None}]
    BY <1>1 DEF DiskTypes
  <2>7. RetainedHasBits'
    BY <1>4, <2>1, <2>2, <2>4, <2>5, <2>6 DEF ControlInv, RetainedHasBits, SameRecord, RuntimeRoles
  <2>8. DiskTypes'
    BY <1>1, <1>2, <1>4, <2>1, NewShadowType DEF DiskTypes, Digests
  <2>9. sealed'[job.m.id] = job.m /\ (job.outcome = "AlreadyReady" => sealed[job.m.id] = job.m)
    BY <1>1, <1>2, <1>4, <2>6 DEF PublishingOK
  <2>14. job.m.id \notin torn
    <3>1. job.outcome # "AlreadyReady" => sealed[job.m.id] = None
      BY <1>1 DEF PublishingOK, BeforeRename
    <3>2. job.outcome # "AlreadyReady"
      BY <1>1 DEF PublishingOK
    <3>. QED
      BY <3>1, <3>2 DEF ControlInv, TornWasSealed
  <2>10. TornWasSealed'
    BY <1>2, <1>4, <2>1, <2>6, <2>14 DEF ControlInv, TornWasSealed
  <2>11. /\ job' \in PublishJobs /\ job'.m = job.m /\ job'.outcome = job.outcome
         /\ job'.pc \in {"mark", "failing"}
    BY <1>1, <1>4, GotoShape, FailShape DEF PublishPcs
  <2>12. PublishingOK'
    BY <2>1, <2>2, <2>3, <2>9, <2>11, <2>14
       DEF PublishingOK, SameRecord, BuildingAt, BeforeRename
  <2>13. JobOK'
    BY <2>11, <2>12 DEF JobOK, PublishJobs
  <2>. QED
    BY <2>2, <2>7, <2>8, <2>10, <2>13 DEF ControlInv, Serving
<1>. QED
  BY <1>3, <1>4 DEF Rename

-----------------------------------------------------------------------------
(* Steps that also write the record.                                       *)

(* ensure_runtime_cache ends the call with the cache of the record, or     *)
(* with the one there was.                                                 *)
LEMMA EnsureKeeps ==
    ASSUME ControlInv, EnsureCache, UNCHANGED <<vars, disk>> PROVE ControlInv'
<1>1. TypeOK' /\ RecordNeverRefused' /\ SameRecord
  BY SameVars, RecordStep
<1>2. Serving'
  <2>1. CASE rt' = rt
    BY <1>1, <2>1, SameServes
  <2>2. CASE rt' = EnsuredCache
    <3>1. rt' = CacheOf(active', previous', staged')
      BY <1>1, <2>2, CacheExact DEF SameRecord
    <3>. QED
      BY <1>1, <3>1, RebuiltServes
  <2>. QED
    BY <2>1, <2>2 DEF EnsureCache
<1>3. RetainedHasBits' /\ DiskTypes' /\ TornWasSealed'
  BY <1>1, SameBits DEF disk, ControlInv, DiskTypes, TornWasSealed, Digests, EnsureCache, Finish
<1>4. JobOK'
  BY IdleOK DEF EnsureCache, Finish
<1>. QED
  BY <1>1, <1>2, <1>3, <1>4 DEF ControlInv, Serving

(* A call that ends or goes on with the directories untouched.             *)
LEMMA DiskSame ==
    ASSUME ControlInv, UNCHANGED disk, reply' \in {"ok", "error", "gc_failed"}
    PROVE  DiskTypes' /\ TornWasSealed'
BY DEF disk, ControlInv, DiskTypes, TornWasSealed, Digests

(* What stage_generation does to the record.                               *)
LEMMA StageEffect ==
    ASSUME NEW m \in Manifests, StageGeneration(m)
    PROVE  /\ active' = active /\ previous' = previous
           /\ \/ staged' = staged
              \/ staged = None /\ staged' # None /\ staged'.manifest = m /\ staged'.state = "Staged"
           /\ result' \in Accepted =>
                 /\ ~Present(active, m.id) /\ ~Present(previous, m.id)
                 /\ staged' # None /\ staged'.manifest = m
<1> DEFINE new == [manifest |-> m, applied |-> m.base, state |-> "Staged", last_error |-> None]
<1>1. new # None /\ new.manifest = m /\ new.state = "Staged"
  <2>1. new \in GenStates
    BY ManifestAssumption DEF GenStates, LocalStates
  <2>. QED
    BY <2>1, NoneAssumption
<1>2. CASE /\ ~Present(active, m.id) /\ ~Present(previous, m.id) /\ staged = None
           /\ WriteBatch(active, previous, new, ckpt, seqMark, idMark, "Staged")
  BY <1>1, <1>2 DEF WriteBatch, Return, durable, Accepted
<1>3. CASE Return("GenerationConflict")
  BY <1>3 DEF Return, durable, Accepted
<1>4. CASE /\ ~Present(active, m.id) /\ ~Present(previous, m.id) /\ staged # None
           /\ staged.manifest = m /\ Return("AlreadyStaged")
  BY <1>4 DEF Return, durable, Accepted
<1>. QED
  BY <1>2, <1>3, <1>4 DEF StageGeneration

LEMMA CheckRecordKeeps ==
    ASSUME ControlInv, CheckRecord PROVE ControlInv'
<1>1. job \in PublishJobs /\ PublishingOK /\ job.pc = "record" /\ UNCHANGED disk
  BY JobShape DEF ControlInv, CheckRecord, PublishPcs
<1>2. job.m \in Manifests /\ job.m.id \in GenIds
  BY <1>1, JobManifest DEF PublishJobs
<1>3. CASE Finish("error") /\ UNCHANGED <<vars, rt>>
  <2>1. TypeOK' /\ RecordNeverRefused' /\ SameRecord /\ Serving'
    BY <1>3, SameVars, RecordStep, SameServes
  <2>. QED
    BY <1>1, <1>3, <2>1, SameBits, DiskSame, IdleOK DEF ControlInv, Serving, Finish, disk
<1>4. CASE EnsureCache /\ UNCHANGED vars
  BY <1>1, <1>4, EnsureKeeps
<1>5. CASE /\ \/ ~Retained(job.m.id)
              \/ GenerationById(job.m.id).state \notin {"Ready", "Serving"}
           /\ StageGeneration(job.m)
           /\ IF result' \in Accepted THEN Goto("install") /\ UNCHANGED reply
              ELSE Finish("error")
           /\ UNCHANGED rt
  <2>1. [Next]_vars
    BY <1>2, <1>5 DEF Next
  <2>2. TypeOK' /\ RecordNeverRefused'
    BY <2>1, RecordStep
  <2>3. /\ active' = active /\ previous' = previous
        /\ \/ staged' = staged
           \/ staged = None /\ staged' # None /\ staged'.state = "Staged"
        /\ result' \in Accepted =>
              /\ ~Present(active, job.m.id) /\ ~Present(previous, job.m.id)
              /\ staged' # None /\ staged'.manifest = job.m
    BY <1>2, <1>5, StageEffect
  <2>4. Serving'
    BY <1>5, <2>3, SameServes, StagedServes DEF SameRecord, ControlInv, ServedMatchesRecord
  <2>5. RuntimeRoles(active', previous', staged') \subseteq RuntimeRoles(active, previous, staged)
    BY <2>3 DEF RuntimeRoles
  <2>6. RetainedHasBits'
    BY <1>1, <2>3, <2>5 DEF RetainedHasBits, ControlInv, disk
  <2>7. DiskTypes' /\ TornWasSealed'
    BY <1>1, <1>5, DiskSame DEF Finish, ControlInv, DiskTypes
  <2>8. JobOK'
    <3>1. CASE result' \notin Accepted
      BY <1>5, <3>1, IdleOK DEF Finish
    <3>2. CASE result' \in Accepted
      <4>1. job' \in PublishJobs /\ job'.pc = "install" /\ job'.m = job.m /\ job'.outcome = job.outcome
        BY <1>1, <1>5, <3>2, GotoShape DEF PublishPcs, BuildingAt
      <4>2. staged'.state # "Ready"
        BY <1>5, <2>3, <3>2 DEF Retained, GenerationById, Present
      <4>3. PublishingOK'
        BY <1>1, <2>3, <3>2, <4>1, <4>2 DEF PublishingOK, disk, BuildingAt, BeforeRename
      <4>. QED
        BY <4>1, <4>3 DEF JobOK, PublishJobs
    <3>. QED
      BY <3>1, <3>2
  <2>. QED
    BY <2>2, <2>4, <2>6, <2>7, <2>8 DEF ControlInv, Serving
<1>. QED
  BY <1>3, <1>4, <1>5 DEF CheckRecord

(* A staged generation replaced by another state of itself, or kept.       *)
LEMMA PersistEffect ==
    ASSUME NEW s, PersistStaged(s)
    PROVE  /\ active' = active /\ previous' = previous /\ staged' \in {staged, s}
           /\ result' = "Ok" => staged' = s
BY DEF PersistStaged, WriteBatch, Return, durable

LEMMA RecordFailureKeeps ==
    ASSUME ControlInv, NEW f \in Failures \cup {BadFailure}, RecordFailure(f) PROVE ControlInv'
<1>1. /\ job \in PublishJobs /\ PublishingOK /\ job.pc = "failing" /\ UNCHANGED <<disk, rt>>
      /\ Finish("error") /\ FailStaged(job.m.id, f)
  BY JobShape DEF ControlInv, RecordFailure, PublishPcs, BuildingAt
<1>2. job.m.id \in GenIds
  BY <1>1, JobManifest DEF PublishJobs
<1>3. [Next]_vars
  BY <1>1, <1>2 DEF Next
<1>4. TypeOK' /\ RecordNeverRefused'
  BY <1>3, RecordStep
<1>5. staged # None /\ staged.state # "Ready" /\ staged \in GenStates
  BY <1>1 DEF PublishingOK, BuildingAt, ControlInv, TypeOK
<1>6. /\ active' = active /\ previous' = previous
      /\ staged' = staged \/ (staged' # None => staged'.state = "Failed")
  <2>1. [staged EXCEPT !.state = "Failed", !.last_error = f].state = "Failed"
    BY <1>5 DEF GenStates
  <2>. QED
    BY <1>1, <2>1, PersistEffect DEF FailStaged, Return, durable
<1>7. Serving'
  BY <1>1, <1>5, <1>6, StagedServes DEF ControlInv, StagedIsReady
<1>8. RuntimeRoles(active', previous', staged') \subseteq RuntimeRoles(active, previous, staged)
  BY <1>6 DEF RuntimeRoles
<1>9. RetainedHasBits'
  BY <1>1, <1>8 DEF RetainedHasBits, ControlInv, disk
<1>. QED
  BY <1>1, <1>4, <1>7, <1>9, DiskSame, IdleOK DEF ControlInv, Serving, Finish

(* mark_bundle_loaded and mark_ready: the only step that makes a staged    *)
(* generation one that can serve, and its directory is there.              *)
LEMMA MarkRecordKeeps ==
    ASSUME ControlInv, MarkRecord PROVE ControlInv'
<1>1. job \in PublishJobs /\ PublishingOK /\ job.pc = "mark" /\ UNCHANGED <<disk, rt>>
  BY JobShape DEF ControlInv, MarkRecord, PublishPcs
<1>2. job.m \in Manifests /\ job.m.id \in GenIds
  BY <1>1, JobManifest DEF PublishJobs
<1>3. /\ sealed[job.m.id] = job.m /\ job.m.id \notin torn
      /\ job.outcome = "AlreadyReady" => sealed[job.m.id] = job.m
  BY <1>1 DEF PublishingOK
<1>4. ASSUME Goto("mark") \/ Goto("cache") PROVE JobOK'
  <2>1. /\ job' \in PublishJobs /\ job'.m = job.m /\ job'.outcome = job.outcome
        /\ job'.pc \in {"mark", "cache"}
    BY <1>1, <1>4, GotoShape DEF PublishPcs
  <2>2. PublishingOK'
    BY <1>1, <1>3, <2>1 DEF PublishingOK, disk, BuildingAt, BeforeRename
  <2>. QED
    BY <2>1, <2>2 DEF JobOK, PublishJobs
<1>5. /\ JobOK' /\ reply' \in {"ok", "error", "gc_failed"}
  BY <1>4, IdleOK DEF MarkRecord, Finish, ControlInv, DiskTypes
<1>6. CASE UNCHANGED vars
  <2>1. TypeOK' /\ RecordNeverRefused' /\ SameRecord /\ Serving'
    BY <1>1, <1>6, SameVars, RecordStep, SameServes
  <2>. QED
    BY <1>1, <1>5, <2>1, SameBits, DiskSame DEF ControlInv, Serving, disk
<1>7. CASE /\ Present(staged, job.m.id) /\ staged.manifest = job.m
           /\ \/ staged.state = "Staged" /\ MarkBundleLoaded(job.m.id)
              \/ staged.state = "CatchingUp" /\ MarkReady(job.m.id)
  <2>1. [Next]_vars
    BY <1>2, <1>7 DEF Next
  <2>2. TypeOK' /\ RecordNeverRefused'
    BY <2>1, RecordStep
  <2>3. staged \in GenStates /\ staged # None
    BY <1>7 DEF ControlInv, TypeOK, Present
  <2>4. /\ active' = active /\ previous' = previous
        /\ \/ staged' = staged
           \/ staged' = [staged EXCEPT !.state = "CatchingUp"]
           \/ /\ staged' = [staged EXCEPT !.state = "Ready"]
              /\ staged.applied = staged.manifest.target
    <3>1. CASE MarkBundleLoaded(job.m.id)
      BY <3>1, PersistEffect DEF MarkBundleLoaded, Return, durable
    <3>2. CASE MarkReady(job.m.id)
      BY <3>2, PersistEffect DEF MarkReady, Return, durable
    <3>. QED
      BY <1>7, <3>1, <3>2
  <2>5. Serving'
    BY <1>1, <1>7, <2>4, StagedServes DEF ControlInv, StagedIsReady
  <2>6. /\ staged' # None /\ staged'.state = "Ready" =>
              /\ staged'.manifest = job.m /\ staged'.applied = job.m.target
    BY <1>7, <2>3, <2>4 DEF GenStates
  <2>7. job.m.target \in Nat
    BY <1>2, ManifestAssumption
  <2>8. RetainedHasBits'
    <3>1. ASSUME NEW r \in RuntimeRoles(active', previous', staged')
          PROVE  \/ r \in RuntimeRoles(active, previous, staged)
                 \/ r.manifest = job.m /\ r.applied = job.m.target
      BY <2>4, <2>6 DEF RuntimeRoles
    <3>. QED
      BY <1>1, <1>3, <2>7, <3>1 DEF RetainedHasBits, ControlInv, disk
  <2>. QED
    BY <1>1, <1>5, <2>2, <2>5, <2>8, DiskSame DEF ControlInv, Serving
<1>. QED
  BY <1>6, <1>7 DEF MarkRecord

-----------------------------------------------------------------------------
(* Activation and rollback: the runtimes change roles with the record.     *)

LEMMA SwapKeeps ==
    ASSUME ControlInv, [Next]_vars, UNCHANGED disk, job' = Idle,
           reply' \in {"ok", "error", "gc_failed"},
           \/ SameRecord /\ rt' \in {rt, EnsuredCache}
           \/ /\ rt' = CacheOf(active', previous', staged')
              /\ \A r \in RuntimeRoles(active', previous', staged') :
                    \E q \in RuntimeRoles(active, previous, staged) :
                       r.manifest = q.manifest /\ r.applied = q.applied
    PROVE  ControlInv'
<1>1. TypeOK' /\ RecordNeverRefused'
  BY RecordStep
<1>2. DiskTypes' /\ TornWasSealed' /\ JobOK'
  BY DiskSame, IdleOK
<1>3. Serving'
  <2>1. CASE SameRecord /\ rt' = rt
    BY <2>1, SameServes
  <2>2. CASE SameRecord /\ rt' = EnsuredCache
    BY <1>1, <2>2, CacheExact, RebuiltServes DEF SameRecord
  <2>3. CASE rt' = CacheOf(active', previous', staged')
    BY <1>1, <2>3, RebuiltServes
  <2>. QED
    BY <2>1, <2>2, <2>3
<1>4. RetainedHasBits'
  <2>1. CASE SameRecord
    BY <2>1, SameBits DEF disk
  <2>2. CASE \A r \in RuntimeRoles(active', previous', staged') :
                \E q \in RuntimeRoles(active, previous, staged) :
                   r.manifest = q.manifest /\ r.applied = q.applied
    BY <2>2 DEF RetainedHasBits, ControlInv, disk
  <2>. QED
    BY <2>1, <2>2
<1>. QED
  BY <1>1, <1>2, <1>3, <1>4 DEF ControlInv, Serving

LEMMA AsRuntime ==
    ASSUME NEW s \in GenStates, NEW state \in LocalStates
    PROVE  /\ RuntimeOf(As(s, state)) = RuntimeOf(s) /\ As(s, state) # None
           /\ As(s, state).manifest = s.manifest /\ As(s, state).applied = s.applied
           /\ As(s, state).state = state
<1>1. /\ As(s, state) \in GenStates /\ As(s, state).state = state
      /\ As(s, state).manifest = s.manifest /\ As(s, state).applied = s.applied
  BY AsType
<1>. QED
  BY <1>1, NoneAssumption DEF RuntimeOf

LEMMA ActivateKeeps ==
    ASSUME ControlInv, NEW g \in GenIds, NEW e \in ExpectedActive, ActivateStaged(g, e)
    PROVE  ControlInv'
<1>1. UNCHANGED disk /\ job' = Idle /\ reply' \in {"ok", "error", "gc_failed"}
  BY DEF ActivateStaged, Finish
<1>2. CASE UNCHANGED vars /\ rt' \in {rt, EnsuredCache}
  BY <1>1, <1>2, SameVars, SwapKeeps
<1>3. CASE /\ CanActivate(g, e) /\ Activate(g)
           /\ IF result' = "Ok" THEN rt' = SwappedInActivated(EnsuredCache) ELSE rt' = EnsuredCache
  <2>1. [Next]_vars
    BY <1>3 DEF Next
  <2>2. ~Present(active, g) /\ staged # None /\ staged.state = "Ready" /\ Present(staged, g)
    BY <1>3 DEF CanActivate, Present
  <2>3. /\ staged \in GenStates /\ active \in GenStates \cup {None}
        /\ active = None => previous = None
        /\ active # None => active \in GenStates
    BY <2>2 DEF ControlInv, TypeOK, RecordNeverRefused, ValidRecord
  <2>4. \/ SameRecord /\ result' # "Ok"
        \/ /\ active' = As(staged, "Serving") /\ staged' = None /\ result' = "Ok"
           /\ previous' = IF active = None THEN previous ELSE As(active, "Ready")
    BY <1>3, <2>2 DEF Activate, WriteBatch, Return, durable, SameRecord
  <2>5. CASE SameRecord /\ result' # "Ok"
    BY <1>1, <1>3, <2>1, <2>5, SwapKeeps
  <2>6. CASE /\ active' = As(staged, "Serving") /\ staged' = None /\ result' = "Ok"
             /\ previous' = IF active = None THEN previous ELSE As(active, "Ready")
    <3>1. /\ active' # None /\ RuntimeOf(active') = RuntimeOf(staged)
          /\ active'.manifest = staged.manifest /\ active'.applied = staged.applied
      BY <2>3, <2>6, AsRuntime DEF LocalStates
    <3>2. active = None => previous' = None
      BY <2>3, <2>6
    <3>3. active # None =>
             /\ previous' # None /\ RuntimeOf(previous') = RuntimeOf(active)
             /\ previous'.manifest = active.manifest /\ previous'.applied = active.applied
      BY <2>3, <2>6, AsRuntime DEF LocalStates
    <3>4. rt' = SwappedInActivated(CacheOf(active, previous, staged))
      BY <1>3, <2>6, CacheExact
    <3>5. rt' = CacheOf(active', previous', staged')
      BY <2>2, <2>6, <3>1, <3>2, <3>3, <3>4 DEF CacheOf, SwappedInActivated
    <3>6. \A r \in RuntimeRoles(active', previous', staged') :
             \E q \in RuntimeRoles(active, previous, staged) :
                r.manifest = q.manifest /\ r.applied = q.applied
      BY <2>2, <2>6, <3>1, <3>2, <3>3 DEF RuntimeRoles
    <3>. QED
      BY <1>1, <2>1, <3>5, <3>6, SwapKeeps
  <2>. QED
    BY <2>4, <2>5, <2>6
<1>. QED
  BY <1>2, <1>3 DEF ActivateStaged

LEMMA RollbackKeeps ==
    ASSUME ControlInv, NEW g \in GenIds, NEW e \in ExpectedActive, RollbackTo(g, e)
    PROVE  ControlInv'
<1>1. UNCHANGED disk /\ job' = Idle /\ reply' \in {"ok", "error", "gc_failed"}
  BY DEF RollbackTo, Finish
<1>2. CASE UNCHANGED vars /\ rt' \in {rt, EnsuredCache}
  BY <1>1, <1>2, SameVars, SwapKeeps
<1>3. CASE /\ CanRollback(g, e) /\ Rollback(g)
           /\ IF result' = "Ok"
              THEN rt' = [EnsuredCache EXCEPT !.active = EnsuredCache.previous,
                                              !.previous = EnsuredCache.active]
              ELSE rt' = EnsuredCache
  <2>1. [Next]_vars
    BY <1>3 DEF Next
  <2>2. ~Present(active, g) /\ previous # None /\ Present(previous, g)
    BY <1>3 DEF CanRollback, Present
  <2>3. previous \in GenStates /\ active \in GenStates /\ active # None
    BY <2>2 DEF ControlInv, TypeOK, RecordNeverRefused, ValidRecord
  <2>4. \/ SameRecord /\ result' # "Ok"
        \/ /\ active' = As(previous, "Serving") /\ staged' = staged /\ result' = "Ok"
           /\ previous' = As(active, "Ready")
    BY <1>3, <2>2, <2>3 DEF Rollback, WriteBatch, Return, durable, SameRecord
  <2>5. CASE SameRecord /\ result' # "Ok"
    BY <1>1, <1>3, <2>1, <2>5, SwapKeeps
  <2>6. CASE /\ active' = As(previous, "Serving") /\ staged' = staged /\ result' = "Ok"
             /\ previous' = As(active, "Ready")
    <3>1. /\ active' # None /\ RuntimeOf(active') = RuntimeOf(previous)
          /\ active'.manifest = previous.manifest /\ active'.applied = previous.applied
      BY <2>3, <2>6, AsRuntime DEF LocalStates
    <3>3. /\ previous' # None /\ RuntimeOf(previous') = RuntimeOf(active)
          /\ previous'.manifest = active.manifest /\ previous'.applied = active.applied
      BY <2>3, <2>6, AsRuntime DEF LocalStates
    <3>4. rt' = [CacheOf(active, previous, staged) EXCEPT
                   !.active = CacheOf(active, previous, staged).previous,
                   !.previous = CacheOf(active, previous, staged).active]
      BY <1>3, <2>6, CacheExact
    <3>5. rt' = CacheOf(active', previous', staged')
      BY <2>2, <2>3, <2>6, <3>1, <3>3, <3>4 DEF CacheOf
    <3>6. \A r \in RuntimeRoles(active', previous', staged') :
             \E q \in RuntimeRoles(active, previous, staged) :
                r.manifest = q.manifest /\ r.applied = q.applied
      BY <2>2, <2>3, <2>6, <3>1, <3>3 DEF RuntimeRoles
    <3>. QED
      BY <1>1, <2>1, <3>5, <3>6, SwapKeeps
  <2>. QED
    BY <2>4, <2>5, <2>6
<1>. QED
  BY <1>2, <1>3 DEF RollbackTo

-----------------------------------------------------------------------------
(* Revisions.                                                              *)

LEMMA BuildRevisionKeeps ==
    ASSUME ControlInv, NEW c \in Commits, BuildRevision(c) PROVE ControlInv'
<1> DEFINE local == GenerationById(c.gen)
           digest == InputDigest(local.applied, Suffix(c, local.applied))
<1>1. /\ UNCHANGED <<vars, sealed, torn, shadow, rt>> /\ Retained(c.gen)
      /\ revDirs' = revDirs \cup {c.gen}
  BY DEF BuildRevision
<1>2. TypeOK' /\ RecordNeverRefused' /\ SameRecord /\ Serving'
  BY <1>1, SameVars, RecordStep, SameServes
<1>3. local \in GenStates /\ local.manifest.id = c.gen
  BY <1>1 DEF Retained, GenerationById, Present, ControlInv, TypeOK
<1>4. c.gen \in GenIds /\ c.target \in Nat
  BY CommitAssumption
<1>5. local.manifest \in Manifests /\ local.applied \in 0..MaxSeq
  BY <1>3 DEF GenStates
<1>6. local.applied < c.target /\ c.target <= MaxSeq
  BY DEF BuildRevision
<1>7. c.target \in 1..MaxSeq
  BY <1>4, <1>5, <1>6, MaxSeqAssumption
<1>8. digest # None
  BY <1>5, DigestAssumption
<1>9. CASE Finish("error") /\ UNCHANGED revs
  <2>1. DiskTypes' /\ TornWasSealed'
    BY <1>1, <1>4, <1>9 DEF ControlInv, DiskTypes, TornWasSealed, Digests, Finish
  <2>. QED
    BY <1>1, <1>2, <1>9, <2>1, SameBits, IdleOK DEF ControlInv, Serving, Finish
<1>10. CASE /\ revs' = [revs EXCEPT ![c.gen][c.target] = digest]
            /\ job' = [pc |-> "revise", m |-> local.manifest, c |-> c]
            /\ UNCHANGED reply
  <2> DEFINE D == {None} \cup {InputDigest(n, Suffix(d, n)) : n \in 0..MaxSeq, d \in Commits}
  <2>1. revs \in [GenIds -> [1..MaxSeq -> D]]
    BY DEF ControlInv, DiskTypes, Digests
  <2>2. digest \in D
    BY <1>5
  <2>. HIDE DEF D, digest, local
  <2>3. revs' \in [GenIds -> [1..MaxSeq -> D]]
    BY <1>4, <1>7, <1>10, <2>1, <2>2
  <2>4. revs'[c.gen][c.target] = digest
    BY <1>4, <1>7, <1>10, <2>1
  <2>5. \A g \in GenIds, n \in 1..MaxSeq : revs[g][n] # None => revs'[g][n] # None
    BY <1>4, <1>7, <1>8, <1>10, <2>1
  <2>6. revs' \in Digests
    BY <2>3 DEF D, Digests
  <2>7. DiskTypes' /\ TornWasSealed'
    BY <1>1, <1>4, <1>10, <2>6 DEF ControlInv, DiskTypes, TornWasSealed, Digests
  <2>8. RetainedHasBits'
    <3>1. \A r \in RuntimeRoles(active, previous, staged) :
             /\ r.manifest.id \in GenIds /\ r.manifest.target \in Nat
             /\ r.applied \in 0..MaxSeq
      <4>1. \A r \in RuntimeRoles(active, previous, staged) : r \in GenStates
        BY DEF ControlInv, TypeOK, RuntimeRoles
      <4>. QED
        BY <4>1, ManifestAssumption DEF GenStates
    <3>2. \A r \in RuntimeRoles(active, previous, staged) :
             r.applied > r.manifest.target => r.applied \in 1..MaxSeq
      BY <3>1, MaxSeqAssumption
    <3>. QED
      BY <1>1, <1>2, <2>5, <3>1, <3>2 DEF RetainedHasBits, ControlInv, SameRecord, RuntimeRoles
  <2>9. job' \in ReviseJobs /\ job'.m.id = c.gen /\ job'.c = c
    BY <1>3, <1>5, <1>10 DEF ReviseJobs
  <2>10. RevisingOK'
    BY <1>7, <1>8, <2>4, <2>9 DEF RevisingOK
  <2>11. JobOK'
    BY <2>9, <2>10 DEF JobOK, ReviseJobs
  <2>. QED
    BY <1>2, <2>7, <2>8, <2>11 DEF ControlInv, Serving
<1>. QED
  BY <1>9, <1>10 DEF BuildRevision

(* What an accepted revision does to the record: one generation that can   *)
(* serve moves to the new sequence in the role it has.                     *)
LEMMA RevisionEffect ==
    ASSUME TypeOK, NEW c \in Commits, Retained(c.gen),
           c.target > GenerationById(c.gen).applied,
           CommitGenerationRevision(c.gen, c.sha, c.target, c.tail)
    PROVE  \/ SameRecord /\ result' # "Applied"
           \/ LET gen == GenerationById(c.gen)
                  next == [gen EXCEPT !.applied = c.target, !.last_error = None]
              IN  /\ active' = Replace(active, next) /\ previous' = Replace(previous, next)
                  /\ staged' = Replace(staged, next) /\ result' = "Applied"
                  /\ gen.state \in {"Ready", "Serving"} /\ c.target \in 0..MaxSeq
<1> DEFINE gen == GenerationById(c.gen)
           next == [gen EXCEPT !.applied = c.target, !.last_error = None]
<1>1. CommitRefusal(gen, c.sha, c.target, c.tail) = None => gen.state \in {"Ready", "Serving"}
  BY NoneAssumption DEF CommitRefusal, Refused
<1>2. c.target \in Nat /\ gen.applied \in Nat
  <2>1. gen \in GenStates
    BY DEF Retained, GenerationById, Present, TypeOK
  <2>. QED
    BY <2>1, CommitAssumption DEF GenStates
<1>3. c.target # gen.applied
  BY <1>2
<1>4. CASE \E r \in {"NonPortableInteger", "StateNotFound", "GenerationMismatch"} : Return(r)
  BY <1>4 DEF Return, durable, SameRecord
<1>5. CASE Return(CommitRefusal(gen, c.sha, c.target, c.tail)) /\ CommitRefusal(gen, c.sha, c.target, c.tail) # None
  BY <1>5, CommitRefusalType DEF Return, durable, SameRecord, Refused
<1>6. CASE /\ c.target <= MaxSeq /\ CommitRefusal(gen, c.sha, c.target, c.tail) = None
           /\ WriteBatch(Replace(active, next), Replace(previous, next),
                         Replace(staged, next), WithCheckpoint(ckpt, next),
                         [seqMark EXCEPT ![c.gen] = SeqMarkersWith(c.gen, c.tail)],
                         [idMark EXCEPT ![c.gen] = IdMarkersWith(c.gen, c.tail)],
                         "Applied")
  <2>1. c.target \in 0..MaxSeq
    BY <1>2, <1>6, MaxSeqAssumption
  <2>. QED
    BY <1>1, <1>6, <2>1 DEF WriteBatch, Return, durable, SameRecord
<1>. QED
  BY <1>3, <1>4, <1>5, <1>6 DEF CommitGenerationRevision

LEMMA InstallRevisionKeeps ==
    ASSUME ControlInv, InstallRevision PROVE ControlInv'
<1>1. job \in ReviseJobs /\ RevisingOK /\ UNCHANGED disk
  BY JobShape DEF ControlInv, InstallRevision
<1>2. job.c \in Commits /\ job' = Idle /\ reply' \in {"ok", "error", "gc_failed"}
  BY <1>1 DEF ReviseJobs, InstallRevision, Finish
<1>3. CASE UNCHANGED <<vars, rt>>
  BY <1>1, <1>2, <1>3, SameVars, SwapKeeps
<1>4. ASSUME Retained(job.c.gen), GenerationById(job.c.gen).manifest = job.m,
             job.c.target > GenerationById(job.c.gen).applied,
             CommitGenerationRevision(job.c.gen, job.c.sha, job.c.target, job.c.tail),
             IF result' = "Applied"
             THEN rt' = WithRevised(EnsuredCache, job.c.gen,
                                    [manifest |-> job.m, applied |-> job.c.target])
             ELSE rt' = EnsuredCache
      PROVE  ControlInv'
  <2>1. PICK c \in Commits : c = job.c
    BY <1>2
  <2> DEFINE gen == GenerationById(c.gen)
             next == [gen EXCEPT !.applied = c.target, !.last_error = None]
             r == [manifest |-> job.m, applied |-> c.target]
  <2>2. [Next]_vars
    BY <1>4, <2>1 DEF Next
  <2>3. TypeOK' /\ RecordNeverRefused'
    BY <2>2, RecordStep
  <2>4. \/ SameRecord /\ result' # "Applied"
        \/ /\ active' = Replace(active, next) /\ previous' = Replace(previous, next)
           /\ staged' = Replace(staged, next) /\ result' = "Applied"
           /\ gen.state \in {"Ready", "Serving"} /\ c.target \in 0..MaxSeq
    BY <1>4, <2>1, RevisionEffect DEF ControlInv
  <2>5. CASE SameRecord /\ result' # "Applied"
    BY <1>1, <1>2, <1>4, <2>2, <2>5, SwapKeeps
  <2>6. CASE /\ active' = Replace(active, next) /\ previous' = Replace(previous, next)
             /\ staged' = Replace(staged, next) /\ result' = "Applied"
             /\ gen.state \in {"Ready", "Serving"} /\ c.target \in 0..MaxSeq
    <3>1. gen \in GenStates /\ gen \in {active, previous, staged} \ {None} /\ gen.manifest.id = c.gen
      BY <1>4, <2>1 DEF Retained, GenerationById, Present, ControlInv, TypeOK
    <3>2. next \in GenStates /\ next.state = gen.state /\ next.manifest = gen.manifest /\ next.applied = c.target
      <4>1. c.target \in 0..MaxSeq
        BY <2>6
      <4>2. next = Revised(gen, c.target)
        BY DEF Revised
      <4> HIDE DEF next, gen
      <4>. QED
        BY <3>1, <4>1, <4>2, RevisedType
    <3>3. next # None /\ RuntimeOf(next) = r /\ gen.manifest = job.m
      BY <1>4, <2>1, <3>2, NoneAssumption DEF RuntimeOf
    <3>4. gen \in RuntimeRoles(active, previous, staged)
      BY <2>6, <3>1 DEF RuntimeRoles, ControlInv, RecordNeverRefused, ValidRecord
    <3>5. rt' = WithRevised(CacheOf(active, previous, staged), c.gen, r)
      BY <1>4, <2>1, <2>6, CacheExact
    <3>6. DistinctRoles(active, previous, staged) /\ (staged # None => staged.state # "Serving")
      BY DEF ControlInv, RecordNeverRefused, ValidRecord
    <3> HIDE DEF next, gen, r
    <3>7. \/ /\ Present(active, c.gen) /\ gen = active
             /\ active' = next /\ previous' = previous /\ staged' = staged
          \/ /\ ~Present(active, c.gen) /\ Present(previous, c.gen) /\ gen = previous
             /\ active' = active /\ previous' = next /\ staged' = staged
          \/ /\ ~Present(active, c.gen) /\ ~Present(previous, c.gen) /\ gen = staged /\ staged # None
             /\ active' = active /\ previous' = previous /\ staged' = next
      BY <1>4, <2>1, <2>6, <3>1, <3>2, <3>6 DEF Replace, Present, Retained, GenerationById, DistinctRoles, gen
    <3>8. rt' = CacheOf(active', previous', staged')
      <4>1. CASE /\ Present(active, c.gen) /\ active' = next /\ previous' = previous /\ staged' = staged
        BY <3>3, <3>5, <4>1 DEF WithRevised, CacheOf
      <4>2. CASE /\ ~Present(active, c.gen) /\ Present(previous, c.gen)
                 /\ active' = active /\ previous' = next /\ staged' = staged
        BY <3>3, <3>5, <4>2 DEF WithRevised, CacheOf
      <4>3. CASE /\ ~Present(active, c.gen) /\ ~Present(previous, c.gen) /\ gen = staged /\ staged # None
                 /\ active' = active /\ previous' = previous /\ staged' = next
        <5>1. next.state = "Ready"
          BY <2>6, <3>2, <3>6, <4>3
        <5>. QED
          BY <3>3, <3>5, <4>3, <5>1 DEF WithRevised, CacheOf
      <4>. QED
        BY <3>7, <4>1, <4>2, <4>3
    <3>9. Serving'
      BY <2>3, <3>8, RebuiltServes
    <3>10. \A q \in RuntimeRoles(active', previous', staged') :
              q = next \/ q \in RuntimeRoles(active, previous, staged)
      BY <3>7 DEF RuntimeRoles
    <3>11. /\ sealed[next.manifest.id] = next.manifest /\ next.manifest.id \notin torn
           /\ revs[next.manifest.id][next.applied] # None
      BY <1>1, <2>1, <3>1, <3>2, <3>4 DEF ControlInv, RetainedHasBits, RevisingOK
    <3>12. RetainedHasBits'
      BY <1>1, <3>10, <3>11 DEF ControlInv, RetainedHasBits, disk
    <3>. QED
      BY <1>1, <1>2, <2>3, <3>9, <3>12, DiskSame, IdleOK DEF ControlInv, Serving
  <2>. QED
    BY <2>4, <2>5, <2>6
<1>. QED
  BY <1>3, <1>4 DEF InstallRevision

-----------------------------------------------------------------------------
(* Restarts, the death of the process and collection.                      *)

LEMMA RestoreKeeps ==
    ASSUME ControlInv, Restore PROVE ControlInv'
<1>1. UNCHANGED <<vars, disk>>
  BY DEF Restore
<1>2. CASE EnsureCache
  BY <1>1, <1>2, EnsureKeeps
<1>3. CASE rt' = NoRuntimes /\ Finish("ok")
  <2>1. TypeOK' /\ RecordNeverRefused' /\ SameRecord /\ Serving'
    BY <1>1, <1>3, SameVars, RecordStep, EmptyServes
  <2>. QED
    BY <1>1, <1>3, <2>1, SameBits, DiskSame, IdleOK DEF ControlInv, Serving, Finish, disk
<1>. QED
  BY <1>2, <1>3 DEF Restore

LEMMA CrashKeeps ==
    ASSUME ControlInv, Crash PROVE ControlInv'
<1>1. UNCHANGED <<vars, disk, reply>> /\ rt' = NoRuntimes /\ job' = Idle
  BY DEF Crash
<1>2. TypeOK' /\ RecordNeverRefused' /\ SameRecord /\ Serving'
  BY <1>1, SameVars, RecordStep, EmptyServes
<1>3. reply' \in {"ok", "error", "gc_failed"}
  BY <1>1 DEF ControlInv, DiskTypes
<1>. QED
  BY <1>1, <1>2, <1>3, SameBits, DiskSame, IdleOK DEF ControlInv, Serving, disk

LEMMA GarbageCollectKeeps ==
    ASSUME ControlInv, GarbageCollect PROVE ControlInv'
<1>1. UNCHANGED <<vars, revs, revDirs, job>> /\ job = Idle
  BY DEF GarbageCollect
<1>2. TypeOK' /\ RecordNeverRefused' /\ SameRecord /\ JobOK'
  BY <1>1, SameVars, RecordStep, IdleOK
<1>3. CASE reply' = "gc_failed" /\ UNCHANGED <<sealed, torn, shadow, rt>>
  <2>1. DiskTypes' /\ TornWasSealed'
    BY <1>1, <1>3, DiskSame DEF disk
  <2>. QED
    BY <1>1, <1>2, <1>3, <2>1, SameServes, SameBits DEF ControlInv, Serving
<1>4. ASSUME NEW gone \in SUBSET {g \in GenIds : ~GcKeeps(g)},
             \/ /\ sealed' = [g \in GenIds |-> IF g \in gone THEN None ELSE sealed[g]]
                /\ shadow' = [g \in GenIds |-> IF g \in gone THEN NoShadow ELSE shadow[g]]
                /\ torn' = torn \ gone
                /\ reply' = "ok" /\ UNCHANGED rt
             \/ /\ \E g \in gone : sealed[g] # None /\ torn' = torn \cup {g}
                /\ rt' = NoRuntimes
                /\ UNCHANGED <<sealed, shadow, reply>>
      PROVE  ControlInv'
  <2>1. Serving'
    BY <1>2, <1>4, SameServes, EmptyServes
  <2>2. \A r \in RuntimeRoles(active, previous, staged) :
           r.manifest.id \in GenIds /\ r.manifest.id \notin gone
    <3>1. \A r \in RuntimeRoles(active, previous, staged) : r \in GenStates
      BY DEF ControlInv, TypeOK, RuntimeRoles
    <3>2. \A r \in RuntimeRoles(active, previous, staged) : Retained(r.manifest.id)
      BY DEF RuntimeRoles, Retained, Present
    <3>3. \A r \in RuntimeRoles(active, previous, staged) : r.manifest.id \in GenIds
      BY <3>1, JobManifest DEF GenStates
    <3>. QED
      BY <3>2, <3>3 DEF GcKeeps
  <2>3. RetainedHasBits'
    BY <1>1, <1>2, <1>4, <2>2 DEF ControlInv, RetainedHasBits, SameRecord, RuntimeRoles
  <2>4. DiskTypes'
    <3>1. NoShadow \in Shadows
      BY DEF NoShadow, ShadowOf, Shadows, BuildPhases
    <3>. QED
      BY <1>1, <1>4, <3>1 DEF ControlInv, DiskTypes, Digests
  <2>5. TornWasSealed'
    BY <1>4 DEF ControlInv, TornWasSealed, DiskTypes
  <2>. QED
    BY <1>2, <2>1, <2>3, <2>4, <2>5 DEF ControlInv, Serving
<1>. QED
  BY <1>3, <1>4 DEF GarbageCollect


-----------------------------------------------------------------------------
(* The theorems.                                                           *)

LEMMA ControlInit == GCInit => ControlInv
<1> SUFFICES ASSUME GCInit PROVE ControlInv
  OBVIOUS
<1>1. Init /\ RecordNeverRefused
  BY DEF GCInit, Init, RecordNeverRefused, ValidRecord, DistinctRoles
<1>2. TypeOK
  BY <1>1, InitType
<1>3. NoShadow \in Shadows
  BY DEF NoShadow, ShadowOf, Shadows, BuildPhases
<1>4. DiskTypes /\ TornWasSealed
  BY <1>3 DEF GCInit, DiskTypes, TornWasSealed, Digests
<1>5. ServedMatchesRecord /\ StagedIsReady /\ rt \in Caches
  BY DEF GCInit, NoRuntimes, ServedMatchesRecord, StagedIsReady, Caches
<1>6. RetainedHasBits
  BY DEF GCInit, Init, RetainedHasBits, RuntimeRoles
<1>7. JobOK
  BY DEF GCInit, JobOK
<1>. QED
  BY <1>1, <1>2, <1>4, <1>5, <1>6, <1>7 DEF ControlInv

LEMMA ControlNext == ControlInv /\ [GCNext]_gcvars => ControlInv'
<1> SUFFICES ASSUME ControlInv, [GCNext]_gcvars PROVE ControlInv'
  OBVIOUS
<1>1. CASE \E m \in Manifests : Publish(m)
  BY <1>1, PublishKeeps
<1>2. CASE FillShadow
  BY <1>2, FillShadowKeeps
<1>3. CASE CheckRecord
  BY <1>3, CheckRecordKeeps
<1>4. CASE InstallBundle \/ JournalBundle \/ Materialize \/ Build \/ Seal
  BY <1>4, BuildStepKeeps
<1>5. CASE Rename
  BY <1>5, RenameKeeps
<1>6. CASE \E f \in Failures \cup {BadFailure} : RecordFailure(f)
  BY <1>6, RecordFailureKeeps
<1>7. CASE MarkRecord
  BY <1>7, MarkRecordKeeps
<1>8. CASE OpenPublished
  BY <1>8, EnsureKeeps DEF OpenPublished
<1>9. CASE \E g \in GenIds, e \in ExpectedActive : ActivateStaged(g, e)
  BY <1>9, ActivateKeeps
<1>10. CASE \E g \in GenIds, e \in ExpectedActive : RollbackTo(g, e)
  BY <1>10, RollbackKeeps
<1>11. CASE \E c \in Commits : BuildRevision(c)
  BY <1>11, BuildRevisionKeeps
<1>12. CASE InstallRevision
  BY <1>12, InstallRevisionKeeps
<1>13. CASE Restore
  BY <1>13, RestoreKeeps
<1>14. CASE Crash
  BY <1>14, CrashKeeps
<1>15. CASE GarbageCollect
  BY <1>15, GarbageCollectKeeps
<1>16. CASE UNCHANGED gcvars
  <2>1. UNCHANGED <<vars, sealed, torn, revs, revDirs, rt, shadow, reply, job>>
    BY <1>16 DEF gcvars, disk
  <2>2. JobOK'
    BY <2>1 DEF ControlInv, JobOK, PublishJobs, ReviseJobs, PublishingOK, RevisingOK, vars
  <2>. QED
    BY <2>1, <2>2, ShadowStep DEF ControlInv, DiskTypes
<1>. QED
  BY <1>1, <1>2, <1>3, <1>4, <1>5, <1>6, <1>7, <1>8, <1>9, <1>10, <1>11, <1>12,
     <1>13, <1>14, <1>15, <1>16 DEF GCNext, PublishStep

(* The generation controller is safe: through failed file operations,      *)
(* crashes, retries, activations, rollbacks, revisions and collections,    *)
(* every runtime GenerationController holds open is what the durable       *)
(* record says of that role, and everything the record says can serve is   *)
(* on disk, whole.                                                         *)
THEOREM ControlAlwaysSafe == GCSpec => []ControlSafe
<1>1. ControlInv => ControlSafe
  BY DEF ControlInv, ControlSafe, ControlTypeOK, DiskTypes, Caches
<1>. QED
  BY <1>1, ControlInit, ControlNext, PTL DEF GCSpec

(* What a step of the controller does to the record is an operation of the *)
(* store.                                                                  *)
LEMMA ControlStep == ControlInv /\ [GCNext]_gcvars => [Next]_vars
<1> SUFFICES ASSUME ControlInv, GCNext PROVE [Next]_vars
  BY DEF gcvars
<1>1. job.pc \in PublishPcs => job.m \in Manifests /\ job.m.id \in GenIds
  BY JobShape, JobManifest DEF ControlInv, PublishJobs
<1>2. CASE CheckRecord
  BY <1>1, <1>2 DEF CheckRecord, Next, PublishPcs
<1>3. CASE \E f \in Failures \cup {BadFailure} : RecordFailure(f)
  BY <1>1, <1>3 DEF RecordFailure, Next, PublishPcs, BuildingAt
<1>4. CASE MarkRecord
  BY <1>1, <1>4 DEF MarkRecord, Next, PublishPcs
<1>5. CASE \E g \in GenIds, e \in ExpectedActive : ActivateStaged(g, e)
  BY <1>5 DEF ActivateStaged, Next
<1>6. CASE \E g \in GenIds, e \in ExpectedActive : RollbackTo(g, e)
  BY <1>6 DEF RollbackTo, Next
<1>7. CASE InstallRevision
  <2>1. job.c \in Commits
    BY <1>7, JobShape DEF ControlInv, InstallRevision, ReviseJobs
  <2>. QED
    BY <1>7, <2>1 DEF InstallRevision, Next
<1>8. CASE \/ \E m \in Manifests : Publish(m)
           \/ FillShadow \/ OpenPublished \/ Restore \/ Crash \/ GarbageCollect
           \/ \E c \in Commits : BuildRevision(c)
           \/ InstallBundle \/ JournalBundle \/ Materialize \/ Build \/ Seal \/ Rename
  BY <1>8 DEF Publish, FillShadow, OpenPublished, Restore, Crash, GarbageCollect, BuildRevision,
              InstallBundle, JournalBundle, Materialize, Build, Seal, Rename
<1>. QED
  BY <1>2, <1>3, <1>4, <1>5, <1>6, <1>7, <1>8 DEF GCNext, PublishStep

(* The controller implements the store's specification: whatever           *)
(* GenerationController does, and wherever it dies, ServingStateStore only *)
(* sees a sequence of its own operations, so the theorems about the store  *)
(* hold of the replica.                                                    *)
THEOREM ControlImplementsStore == GCSpec => Spec
<1>1. GCInit => Init
  BY DEF GCInit
<1>. QED
  BY <1>1, ControlInit, ControlNext, ControlStep, PTL DEF GCSpec, Spec

-----------------------------------------------------------------------------
(* The data plane.  A cached service is the runtime its key names, so what *)
(* was built for one revision never answers for another; what is active is *)
(* known to every read in progress on its workspace; and a call works in   *)
(* the workspace its caller was authenticated for.                         *)

SlotValues == PlaneRuntimes \cup {NoGen}
ReadCalls ==
    [op : {"read"}, pc : {"runtime", "service", "answered"}, ctx : PlaneSpaces, ws : PlaneSpaces,
     evidence : SlotValues, from : SlotValues]
ManageCalls ==
    [op : {"stage", "activate", "rollback", "revise"}, pc : {"prepare", "transition", "prune"},
     ctx : PlaneSpaces, ws : PlaneSpaces, gen : Generations, expected : Generations \cup {NoGen},
     record : SlotRecords]

CallFits(k) == k = NoPlaneCall \/ (k \in ReadCalls \cup ManageCalls /\ k.ctx = k.ws)

ReadFollows(k, seen, sl) ==
    k.op = "read" =>
        /\ sl[k.ws].active \in seen
        /\ k.pc # "runtime" => k.evidence \in seen /\ k.evidence \in PlaneRuntimes
        /\ k.pc = "answered" => k.from = k.evidence

ServicesExact(cache) ==
    \A ws \in PlaneSpaces, r \in PlaneRuntimes :
        RuntimeCacheKey(ws, r) \in DOMAIN cache => cache[RuntimeCacheKey(ws, r)] = r

PlaneInv ==
    /\ slots \in [PlaneSpaces -> SlotRecords]
    /\ call = [c \in Clients |-> call[c]]
    /\ everActive \in [Clients -> SUBSET SlotValues]
    /\ \A c \in Clients : CallFits(call[c]) /\ ReadFollows(call[c], everActive[c], slots)
    /\ ServicesExact(services)
    /\ OwnWorkspaceOnly

LEMMA PlaneStart == PlaneInit => PlaneInv
<1> SUFFICES ASSUME PlaneInit PROVE PlaneInv
  OBVIOUS
<1>1. slots \in [PlaneSpaces -> SlotRecords]
  BY PlaneAssumption DEF PlaneInit
<1>2. ServicesExact(services)
  BY DEF ServicesExact, PlaneInit
<1>3. ASSUME NEW c \in Clients PROVE CallFits(call[c]) /\ ReadFollows(call[c], everActive[c], slots)
  <2>1. call[c] = NoPlaneCall
    BY DEF PlaneInit
  <2>2. call[c].op = "none"
    BY <2>1 DEF NoPlaneCall
  <2>. QED
    BY <2>1, <2>2 DEF CallFits, ReadFollows
<1>4. OwnWorkspaceOnly
  BY DEF OwnWorkspaceOnly, PlaneInit
<1>5. call = [c \in Clients |-> call[c]] /\ everActive \in [Clients -> SUBSET SlotValues]
  BY DEF PlaneInit
<1>. QED
  BY <1>1, <1>2, <1>3, <1>4, <1>5 DEF PlaneInv

LEMMA AnswersFollow == PlaneInv => AnswersExact
<1> SUFFICES ASSUME PlaneInv, NEW c \in Clients, call[c].op = "read", call[c].pc = "answered"
             PROVE  call[c].from = call[c].evidence /\ call[c].evidence \in everActive[c]
                    /\ call[c].ws = call[c].ctx
  BY DEF PlaneInv, AnswersExact, EvidenceExact, AnswersWereActive
<1>1. CallFits(call[c]) /\ ReadFollows(call[c], everActive[c], slots)
  BY DEF PlaneInv
<1>. QED
  BY <1>1 DEF CallFits, ReadFollows, NoPlaneCall

(* The cache.                                                              *)
LEMMA KeysTellRuntimes ==
    ASSUME NEW ws, NEW r \in PlaneRuntimes, NEW v, NEW q \in PlaneRuntimes,
           RuntimeCacheKey(ws, r) = RuntimeCacheKey(v, q)
    PROVE  r = q
BY DEF RuntimeCacheKey, PlaneRuntimes

LEMMA ServiceIsRuntime ==
    ASSUME ServicesExact(services), NEW ws \in PlaneSpaces, NEW r \in PlaneRuntimes
    PROVE  ServiceFor(ws, r) = r
BY DEF ServicesExact, ServiceFor

LEMMA CachedExact ==
    ASSUME ServicesExact(services), NEW ws \in PlaneSpaces, NEW r \in PlaneRuntimes
    PROVE  ServicesExact(CachedWith(ws, r))
<1> SUFFICES ASSUME NEW v \in PlaneSpaces, NEW q \in PlaneRuntimes,
                    RuntimeCacheKey(v, q) \in DOMAIN CachedWith(ws, r)
             PROVE  CachedWith(ws, r)[RuntimeCacheKey(v, q)] = q
  BY DEF ServicesExact
<1> DEFINE k == RuntimeCacheKey(ws, r)
           x == RuntimeCacheKey(v, q)
<1>1. CASE x = k
  <2>1. CachedWith(ws, r)[x] = ServiceFor(ws, r)
    BY <1>1 DEF CachedWith
  <2>. QED
    BY <1>1, <2>1, ServiceIsRuntime, KeysTellRuntimes
<1>2. CASE x # k
  <2>1. x \in DOMAIN services /\ CachedWith(ws, r)[x] = services[x]
    BY <1>2 DEF CachedWith
  <2>. QED
    BY <2>1 DEF ServicesExact
<1>. QED
  BY <1>1, <1>2

LEMMA PrunedExact ==
    ASSUME NEW cache, ServicesExact(cache), NEW ws, NEW rec
    PROVE  ServicesExact(Pruned(cache, ws, rec))
BY DEF ServicesExact, Pruned

(* A call moves on; the record of the workspace stays.                     *)
LEMMA CallMoves ==
    ASSUME PlaneInv, NEW c \in Clients, NEW k, NEW seen, seen \subseteq SlotValues,
           CallFits(k), ReadFollows(k, seen, slots), ServicesExact(services'),
           call' = [call EXCEPT ![c] = k], everActive' = [everActive EXCEPT ![c] = seen],
           slots' = slots, changed' = changed
    PROVE  PlaneInv'
<1>1. /\ call'[c] = k /\ everActive'[c] = seen
      /\ \A d \in Clients : d # c => call'[d] = call[d] /\ everActive'[d] = everActive[d]
  BY DEF PlaneInv
<1>2. \A d \in Clients : CallFits(call'[d]) /\ ReadFollows(call'[d], everActive'[d], slots')
  BY <1>1 DEF PlaneInv
<1>3. call' = [d \in Clients |-> call'[d]] /\ everActive' \in [Clients -> SUBSET SlotValues]
  BY DEF PlaneInv
<1>4. OwnWorkspaceOnly'
  BY DEF PlaneInv, OwnWorkspaceOnly
<1>. QED
  BY <1>2, <1>3, <1>4 DEF PlaneInv

(* The same, when no read starts or ends.                                  *)
LEMMA CallGoesOn ==
    ASSUME PlaneInv, NEW c \in Clients, NEW k,
           CallFits(k), ReadFollows(k, everActive[c], slots), ServicesExact(services'),
           call' = [call EXCEPT ![c] = k], everActive' = everActive,
           slots' = slots, changed' = changed
    PROVE  PlaneInv'
<1>1. everActive' = [everActive EXCEPT ![c] = everActive[c]] /\ everActive[c] \subseteq SlotValues
  BY DEF PlaneInv
<1>. QED
  BY <1>1, CallMoves

LEMMA NoCallFits ==
    ASSUME NEW seen, NEW sl PROVE CallFits(NoPlaneCall) /\ ReadFollows(NoPlaneCall, seen, sl)
BY DEF CallFits, ReadFollows, NoPlaneCall

LEMMA CallTypes ==
    ASSUME PlaneInv, NEW c \in Clients, call[c] # NoPlaneCall
    PROVE  /\ call[c].op = "read" => call[c] \in ReadCalls
           /\ call[c].op # "read" => call[c] \in ManageCalls
           /\ call[c].ctx = call[c].ws /\ call[c].ws \in PlaneSpaces
           /\ ReadFollows(call[c], everActive[c], slots)
<1>1. CallFits(call[c]) /\ ReadFollows(call[c], everActive[c], slots)
  BY DEF PlaneInv
<1>. QED
  BY <1>1 DEF CallFits, ReadCalls, ManageCalls

LEMMA ManagedReadsNothing ==
    ASSUME NEW k \in ManageCalls, NEW seen, NEW sl PROVE ReadFollows(k, seen, sl)
BY DEF ManageCalls, ReadFollows

LEMMA StartReadKeeps ==
    ASSUME PlaneInv, NEW c \in Clients, NEW ctx \in PlaneSpaces, StartRead(c, ctx) PROVE PlaneInv'
<1> DEFINE k == [op |-> "read", pc |-> "runtime", ctx |-> ctx, ws |-> ctx,
                 evidence |-> NoGen, from |-> NoGen]
           seen == {slots[ctx].active}
<1>1. /\ call' = [call EXCEPT ![c] = k] /\ everActive' = [everActive EXCEPT ![c] = seen]
      /\ slots' = slots /\ services' = services /\ changed' = changed
  BY DEF StartRead, ScopeFor
<1>2. k \in ReadCalls /\ k.ctx = k.ws
  BY DEF ReadCalls, SlotValues
<1>3. CallFits(k)
  BY <1>2 DEF CallFits
<1>4. ReadFollows(k, seen, slots)
  BY DEF ReadFollows
<1>5. seen \subseteq SlotValues
  BY DEF PlaneInv, SlotRecords, SlotValues
<1>6. ServicesExact(services')
  BY <1>1 DEF PlaneInv
<1> HIDE DEF k, seen
<1>. QED
  BY <1>1, <1>3, <1>4, <1>5, <1>6, CallMoves

LEMMA ActiveServiceKeeps ==
    ASSUME PlaneInv, NEW c \in Clients, ActiveService(c) PROVE PlaneInv'
<1> DEFINE o == call[c]
           r == slots[o.ws].active
           k == IF r = NoGen THEN NoPlaneCall ELSE [o EXCEPT !.pc = "service", !.evidence = r]
<1>1. /\ call' = [call EXCEPT ![c] = k] /\ everActive' = everActive
      /\ slots' = slots /\ services' = services /\ changed' = changed
      /\ o.op = "read"
  BY DEF ActiveService, ActiveRuntime
<1>2. o \in ReadCalls /\ o.ctx = o.ws /\ o.ws \in PlaneSpaces /\ ReadFollows(o, everActive[c], slots)
  BY <1>1, CallTypes DEF NoPlaneCall
<1>3. r \in SlotValues /\ r \in everActive[c]
  BY <1>1, <1>2 DEF PlaneInv, SlotRecords, SlotValues, ReadFollows
<1>4. CallFits(k) /\ ReadFollows(k, everActive[c], slots)
  <2>1. CASE r = NoGen
    BY <2>1, NoCallFits
  <2>2. CASE r # NoGen
    <3> DEFINE m == [o EXCEPT !.pc = "service", !.evidence = r]
    <3>1. /\ m \in ReadCalls /\ m.ctx = m.ws /\ m.op = "read" /\ m.pc = "service"
          /\ m.evidence = r /\ m.ws = o.ws
      BY <1>2, <1>3 DEF ReadCalls
    <3>2. k = m /\ r \in PlaneRuntimes
      BY <1>3, <2>2 DEF SlotValues
    <3> HIDE DEF m, k
    <3>. QED
      BY <1>3, <3>1, <3>2 DEF CallFits, ReadFollows
  <2>. QED
    BY <2>1, <2>2
<1>5. ServicesExact(services')
  BY <1>1 DEF PlaneInv
<1> HIDE DEF k
<1>. QED
  BY <1>1, <1>4, <1>5, CallGoesOn

LEMMA UseServiceKeeps ==
    ASSUME PlaneInv, NEW c \in Clients, UseService(c) PROVE PlaneInv'
<1> DEFINE o == call[c]
           r == o.evidence
           k == [o EXCEPT !.pc = "answered", !.from = ServiceFor(o.ws, r)]
<1>1. /\ call' = [call EXCEPT ![c] = k] /\ everActive' = everActive
      /\ slots' = slots /\ services' = CachedWith(o.ws, r) /\ changed' = changed
      /\ o.op = "read" /\ o.pc = "service"
  BY DEF UseService, PlaneInv
<1>2. o \in ReadCalls /\ o.ctx = o.ws /\ o.ws \in PlaneSpaces /\ ReadFollows(o, everActive[c], slots)
  BY <1>1, CallTypes DEF NoPlaneCall
<1>3. r \in PlaneRuntimes /\ r \in everActive[c] /\ slots[o.ws].active \in everActive[c]
  BY <1>1, <1>2 DEF ReadFollows
<1>4. ServicesExact(services)
  BY DEF PlaneInv
<1>5. ServiceFor(o.ws, r) = r /\ ServicesExact(services')
  BY <1>1, <1>2, <1>3, <1>4, ServiceIsRuntime, CachedExact
<1>6. /\ k \in ReadCalls /\ k.ctx = k.ws /\ k.op = "read" /\ k.pc = "answered"
      /\ k.evidence = r /\ k.from = r /\ k.ws = o.ws
  BY <1>2, <1>3, <1>5 DEF ReadCalls, SlotValues
<1> HIDE DEF k
<1>7. CallFits(k) /\ ReadFollows(k, everActive[c], slots)
  BY <1>3, <1>6 DEF CallFits, ReadFollows
<1>. QED
  BY <1>1, <1>5, <1>7, CallGoesOn

LEMMA AnsweredKeeps ==
    ASSUME PlaneInv, NEW c \in Clients, Answered(c) PROVE PlaneInv'
<1>1. PICK seen : seen = {}
  OBVIOUS
<1>2. /\ call' = [call EXCEPT ![c] = NoPlaneCall] /\ everActive' = [everActive EXCEPT ![c] = seen]
      /\ slots' = slots /\ services' = services /\ changed' = changed /\ seen \subseteq SlotValues
  BY <1>1 DEF Answered
<1>3. ServicesExact(services')
  BY <1>2 DEF PlaneInv
<1>. QED
  BY <1>2, <1>3, NoCallFits, CallMoves

LEMMA ManageKeeps ==
    ASSUME PlaneInv, NEW c \in Clients, NEW op \in {"stage", "activate", "rollback", "revise"},
           NEW ctx \in PlaneSpaces, NEW ws \in PlaneSpaces, NEW g \in Generations,
           NEW e \in Generations \cup {NoGen}, Manage(c, op, ctx, ws, g, e)
    PROVE  PlaneInv'
<1> DEFINE k == [op |-> op, pc |-> "prepare", ctx |-> ctx, ws |-> ws, gen |-> g,
                 expected |-> e, record |-> EmptySlots]
<1>1. /\ call' = [call EXCEPT ![c] = k] /\ everActive' = everActive
      /\ slots' = slots /\ services' = services /\ changed' = changed /\ ctx = ws
  BY DEF Manage, AuthorizeScope
<1>2. k \in ManageCalls /\ k.ctx = k.ws
  BY <1>1 DEF ManageCalls, EmptySlots, SlotRecords
<1>3. ServicesExact(services')
  BY <1>1 DEF PlaneInv
<1> HIDE DEF k
<1>4. CallFits(k) /\ ReadFollows(k, everActive[c], slots)
  BY <1>2, ManagedReadsNothing DEF CallFits
<1>. QED
  BY <1>1, <1>3, <1>4, CallGoesOn

LEMMA RetainedTyped ==
    ASSUME NEW s \in SlotRecords, NEW g PROVE RetainedAs(s, g) \subseteq PlaneRuntimes
BY DEF RetainedAs, InSlots, SlotRecords

LEMMA ChosenExact ==
    ASSUME PlaneInv, NEW ws \in PlaneSpaces, NEW g, RetainedAs(slots[ws], g) # {}
    PROVE  ServicesExact(CachedWith(ws, CHOOSE r \in RetainedAs(slots[ws], g) : TRUE))
<1> DEFINE found == RetainedAs(slots[ws], g)
           r == CHOOSE x \in found : TRUE
<1>1. slots[ws] \in SlotRecords /\ ServicesExact(services)
  BY DEF PlaneInv
<1>2. found \subseteq PlaneRuntimes
  BY <1>1, RetainedTyped
<1>3. r \in found
  <2> HIDE DEF found
  <2>. QED
    BY DEF found
<1>4. r \in PlaneRuntimes
  BY <1>2, <1>3
<1> HIDE DEF r
<1>5. ServicesExact(CachedWith(ws, r))
  BY <1>1, <1>4, CachedExact
<1>. QED
  BY <1>5 DEF r

LEMMA PrepareKeeps ==
    ASSUME PlaneInv, NEW c \in Clients, Prepare(c) PROVE PlaneInv'
<1> DEFINE o == call[c]
           found == RetainedAs(slots[o.ws], o.gen)
<1>1. /\ o.op \in {"activate", "rollback"} /\ everActive' = everActive /\ slots' = slots
      /\ changed' = changed
  BY DEF Prepare
<1>2. o \in ManageCalls /\ o.ctx = o.ws /\ o.ws \in PlaneSpaces
  BY <1>1, CallTypes DEF NoPlaneCall
<1>3. CASE found = {}
  <2>1. call' = [call EXCEPT ![c] = NoPlaneCall] /\ services' = services
    BY <1>3 DEF Prepare
  <2>2. ServicesExact(services')
    BY <2>1 DEF PlaneInv
  <2>. QED
    BY <1>1, <2>1, <2>2, NoCallFits, CallGoesOn
<1>4. CASE found # {}
  <2> DEFINE k == [o EXCEPT !.pc = "transition"]
  <2>1. call' = [call EXCEPT ![c] = k] /\ services' = CachedWith(o.ws, CHOOSE r \in found : TRUE)
    BY <1>4 DEF Prepare
  <2>2. ServicesExact(services')
    BY <1>2, <1>4, <2>1, ChosenExact
  <2>3. k \in ManageCalls /\ k.ctx = k.ws
    BY <1>2 DEF ManageCalls
  <2> HIDE DEF k
  <2>4. CallFits(k) /\ ReadFollows(k, everActive[c], slots)
    BY <2>3, ManagedReadsNothing DEF CallFits
  <2>. QED
    BY <1>1, <2>1, <2>2, <2>4, CallGoesOn
<1>. QED
  BY <1>3, <1>4

LEMMA PruneKeeps ==
    ASSUME PlaneInv, NEW c \in Clients, Prune(c) PROVE PlaneInv'
<1> DEFINE o == call[c]
<1>1. /\ o.op # "none" /\ o.pc = "prune" /\ everActive' = everActive /\ slots' = slots
      /\ changed' = changed /\ call' = [call EXCEPT ![c] = NoPlaneCall]
  BY DEF Prune
<1>2. o.ws \in PlaneSpaces
  BY <1>1, CallTypes DEF NoPlaneCall
<1>3. ServicesExact(PrepareNew(c))
  <2>1. PrepareNew(c) = services
        \/ /\ RetainedAs(slots[o.ws], o.gen) # {}
           /\ PrepareNew(c) = CachedWith(o.ws, CHOOSE r \in RetainedAs(slots[o.ws], o.gen) : TRUE)
    BY DEF PrepareNew
  <2>2. ServicesExact(services)
    BY DEF PlaneInv
  <2>. QED
    BY <1>2, <2>1, <2>2, ChosenExact
<1>4. ServicesExact(services')
  <2>1. services' = PrepareNew(c) \/ services' = Pruned(PrepareNew(c), o.ws, o.record)
    BY DEF Prune
  <2>2. PICK cache : cache = PrepareNew(c)
    OBVIOUS
  <2>3. ServicesExact(cache)
    BY <1>3, <2>2
  <2>4. ServicesExact(Pruned(cache, o.ws, o.record))
    BY <2>3, PrunedExact
  <2>. QED
    BY <2>1, <2>2, <2>3, <2>4
<1>. QED
  BY <1>1, <1>4, NoCallFits, CallGoesOn

(* A transition gives a record of runtimes again.                          *)
LEMMA TransitionTyped ==
    ASSUME NEW c, call[c] \in ManageCalls, NEW s \in SlotRecords, MayTransition(c, s)
    PROVE  Transitioned(c, s) \in SlotRecords
<1> DEFINE o == call[c]
           g == o.gen
<1>1. o.op \in {"stage", "activate", "rollback", "revise"} /\ g \in Generations
  BY DEF ManageCalls
<1>2. CASE o.op \in {"activate", "rollback"} /\ IsActive(s, g)
  BY <1>2 DEF Transitioned
<1>3. CASE o.op = "stage"
  <2>1. Transitioned(c, s) = [s EXCEPT !.staged = Runtime(g, 0)]
    BY <1>3 DEF Transitioned
  <2>2. Runtime(g, 0) \in PlaneRuntimes
    BY <1>1 DEF Runtime, PlaneRuntimes
  <2>. QED
    BY <2>1, <2>2 DEF SlotRecords
<1>4. CASE o.op = "activate" /\ ~IsActive(s, g)
  <2>1. Transitioned(c, s) = [active |-> s.staged, previous |-> s.active, staged |-> NoGen]
    BY <1>4 DEF Transitioned
  <2>. QED
    BY <2>1 DEF SlotRecords
<1>5. CASE o.op = "rollback" /\ ~IsActive(s, g)
  <2>1. Transitioned(c, s) = [s EXCEPT !.active = s.previous, !.previous = s.active]
    BY <1>5 DEF Transitioned
  <2>. QED
    BY <2>1 DEF SlotRecords
<1>6. CASE o.op = "revise"
  <2>1. Transitioned(c, s) = [s EXCEPT !.active.seq = @ + 1]
    BY <1>6 DEF Transitioned
  <2>2. s.active # NoGen
    BY <1>6 DEF MayTransition, IsActive
  <2>3. s.active \in PlaneRuntimes
    BY <2>2 DEF SlotRecords
  <2>4. [s.active EXCEPT !.seq = @ + 1] \in PlaneRuntimes
    BY <2>3 DEF PlaneRuntimes
  <2>. QED
    BY <2>1, <2>4 DEF SlotRecords
<1>. QED
  BY <1>1, <1>2, <1>3, <1>4, <1>5, <1>6

LEMMA TransitionKeeps ==
    ASSUME PlaneInv, NEW c \in Clients, RunTransition(c) PROVE PlaneInv'
<1> DEFINE o == call[c]
           ws == o.ws
           s == Transitioned(c, slots[ws])
<1>1. o.op \in {"stage", "activate", "rollback", "revise"} /\ services' = services
  BY DEF RunTransition
<1>2. o \in ManageCalls /\ o.ctx = ws /\ ws \in PlaneSpaces
  BY <1>1, CallTypes DEF NoPlaneCall
<1>3. slots[ws] \in SlotRecords /\ ServicesExact(services')
  BY <1>1, <1>2 DEF PlaneInv
<1>4. CASE ~MayTransition(c, slots[ws])
  <2>1. /\ call' = [call EXCEPT ![c] = NoPlaneCall] /\ slots' = slots
        /\ everActive' = everActive /\ changed' = changed
    BY <1>4 DEF RunTransition
  <2>. QED
    BY <1>3, <2>1, NoCallFits, CallGoesOn
<1>5. CASE MayTransition(c, slots[ws])
  <2> DEFINE k == [o EXCEPT !.pc = "prune", !.record = s]
  <2>1. /\ slots' = [slots EXCEPT ![ws] = s]
        /\ everActive' = [x \in Clients |->
              IF call[x].op = "read" /\ call[x].ws = ws THEN everActive[x] \cup {s.active}
              ELSE everActive[x]]
        /\ changed' = <<ws, o.ctx>>
    BY <1>5 DEF RunTransition
  <2>2. call' = [call EXCEPT ![c] = k]
    BY <1>5 DEF RunTransition, PlaneInv
  <2>3. s \in SlotRecords
    BY <1>2, <1>3, <1>5, TransitionTyped
  <2> HIDE DEF s
  <2>4. k \in ManageCalls /\ k.ctx = k.ws
    BY <1>2, <2>3 DEF ManageCalls
  <2> HIDE DEF k
  <2>5. slots' \in [PlaneSpaces -> SlotRecords] /\ call' = [x \in Clients |-> call'[x]]
        /\ call'[c] = k /\ \A x \in Clients : x # c => call'[x] = call[x]
    BY <2>1, <2>2, <2>3 DEF PlaneInv
  <2>6. everActive' \in [Clients -> SUBSET SlotValues]
    BY <2>1, <2>3 DEF PlaneInv, SlotRecords, SlotValues
  <2>7. ASSUME NEW x \in Clients
        PROVE  CallFits(call'[x]) /\ ReadFollows(call'[x], everActive'[x], slots')
    <3>1. CASE x = c
      BY <2>4, <2>5, <3>1, ManagedReadsNothing DEF CallFits
    <3>2. CASE x # c /\ call[x].op = "read"
      <4>1. /\ call'[x] = call[x] /\ call[x] \in ReadCalls /\ call[x].ctx = call[x].ws
            /\ call[x].ws \in PlaneSpaces /\ ReadFollows(call[x], everActive[x], slots)
        BY <2>5, <3>2, CallTypes DEF NoPlaneCall
      <4>2. everActive[x] \subseteq everActive'[x]
        BY <2>1
      <4>3. slots'[call[x].ws].active \in everActive'[x]
        <5>1. CASE call[x].ws = ws
          <6>1. slots'[ws] = s /\ everActive'[x] = everActive[x] \cup {s.active}
            BY <1>2, <2>1, <3>2, <5>1 DEF PlaneInv
          <6>. QED
            BY <5>1, <6>1
        <5>2. CASE call[x].ws # ws
          <6>1. slots'[call[x].ws] = slots[call[x].ws]
            BY <2>1, <4>1, <5>2 DEF PlaneInv
          <6>. QED
            BY <3>2, <4>1, <4>2, <6>1 DEF ReadFollows
        <5>. QED
          BY <5>1, <5>2
      <4>. QED
        BY <3>2, <4>1, <4>2, <4>3 DEF ReadFollows, CallFits
    <3>3. CASE x # c /\ call[x].op # "read"
      <4>1. call'[x] = call[x] /\ CallFits(call[x])
        BY <2>5, <3>3 DEF PlaneInv
      <4>. QED
        BY <3>3, <4>1 DEF ReadFollows
    <3>. QED
      BY <3>1, <3>2, <3>3
  <2>8. OwnWorkspaceOnly'
    BY <1>2, <2>1 DEF OwnWorkspaceOnly
  <2>. QED
    BY <1>3, <2>5, <2>6, <2>7, <2>8 DEF PlaneInv
<1>. QED
  BY <1>4, <1>5

LEMMA PlaneStep == ASSUME PlaneInv, [PlaneNext]_planeVars PROVE PlaneInv'
<1>1. CASE UNCHANGED planeVars
  BY <1>1 DEF planeVars, PlaneInv, OwnWorkspaceOnly, ServicesExact
<1>2. ASSUME NEW c \in Clients, NEW ctx \in PlaneSpaces, StartRead(c, ctx) PROVE PlaneInv'
  BY <1>2, StartReadKeeps
<1>3. ASSUME NEW c \in Clients, NEW ctx \in PlaneSpaces, NEW ws \in PlaneSpaces, NEW g \in Generations,
             NEW op \in {"stage", "revise"}, Manage(c, op, ctx, ws, g, NoGen)
      PROVE  PlaneInv'
  <2>1. op \in {"stage", "activate", "rollback", "revise"} /\ NoGen \in Generations \cup {NoGen}
    OBVIOUS
  <2>. QED
    BY <1>3, <2>1, ManageKeeps
<1>4. ASSUME NEW c \in Clients, NEW ctx \in PlaneSpaces, NEW ws \in PlaneSpaces, NEW g \in Generations,
             NEW op \in {"activate", "rollback"}, NEW e \in Generations \cup {NoGen},
             Manage(c, op, ctx, ws, g, e)
      PROVE  PlaneInv'
  <2>1. op \in {"stage", "activate", "rollback", "revise"}
    OBVIOUS
  <2>. QED
    BY <1>4, <2>1, ManageKeeps
<1>5. ASSUME NEW c \in Clients,
             ActiveService(c) \/ UseService(c) \/ Answered(c) \/ Prepare(c) \/ RunTransition(c) \/ Prune(c)
      PROVE  PlaneInv'
  BY <1>5, ActiveServiceKeeps, UseServiceKeeps, AnsweredKeeps, PrepareKeeps, TransitionKeeps, PruneKeeps
<1>. QED
  BY <1>1, <1>2, <1>3, <1>4, <1>5 DEF PlaneNext

(* An answer of the generation data plane is computed by the runtime its   *)
(* evidence names, that runtime was active in the caller's own workspace   *)
(* while the call ran, and no management call changes another workspace,   *)
(* whatever is staged, activated, rolled back, revised, cached or pruned   *)
(* between the steps of the call.                                          *)
THEOREM AnswersAlwaysExact == PlaneSpec => []AnswersExact
<1>1. PlaneInit => PlaneInv
  BY PlaneStart
<1>2. PlaneInv /\ [PlaneNext]_planeVars => PlaneInv'
  BY PlaneStep
<1>3. PlaneInv => AnswersExact
  BY AnswersFollow
<1>. QED
  BY <1>1, <1>2, <1>3, PTL DEF PlaneSpec

-----------------------------------------------------------------------------
(* Fetching a bundle.  FetchedIsAuthorised is not inductive: it says       *)
(* nothing of the call that runs, which was authorised when it started,    *)
(* has a file from its first block on, and owns every file that is not     *)
(* litter.                                                                 *)

Dropped == {f[1] : f \in litter}

RunningFetch ==
    /\ fetch.pc \in {"start", "get", "open", "body", "fetched"}
    /\ fetch = [pc |-> fetch.pc, kind |-> fetch.kind, ref |-> fetch.ref, src |-> fetch.src, file |-> fetch.file]
    /\ calls > 0 /\ Authorised(fetch.ref)
    /\ IF fetch.pc \in {"body", "fetched"}
       THEN fetch.file = calls /\ DOMAIN temp \subseteq Dropped \cup {fetch.file}
       ELSE fetch.file = 0 /\ DOMAIN temp \subseteq Dropped

FetchInv ==
    /\ calls \in Nat
    /\ (fetch = NoFetch /\ DOMAIN temp \subseteq Dropped) \/ RunningFetch
    /\ \A f \in litter : f[2] = "mirror"
    /\ InstalledIsAuthorised /\ HandedOverWhole

LEMMA FetchStarts == FetchInit => FetchInv
  BY DEF FetchInit, FetchInv, NoFetch, Dropped, InstalledIsAuthorised, HandedOverWhole

(* A call that ends takes its file with it, or never had one.              *)
LEMMA FetchEnds ==
    ASSUME FetchInv, RunningFetch, EndFetch, temp' = Removed(fetch.file) \/ (fetch.file = 0 /\ UNCHANGED temp),
           UNCHANGED <<calls, litter>>, UNCHANGED installed \/ InstalledIsAuthorised'
    PROVE  FetchInv'
<1>1. DOMAIN temp' \subseteq Dropped'
  <2>1. CASE temp' = Removed(fetch.file)
    BY <2>1 DEF RunningFetch, Removed, Dropped
  <2>2. CASE fetch.file = 0 /\ UNCHANGED temp
    BY <2>2 DEF RunningFetch, Dropped, FetchInv
  <2> QED BY <2>1, <2>2
<1>2. fetch' = NoFetch /\ HandedOverWhole'
  BY DEF EndFetch, HandedOverWhole, NoFetch
<1>3. InstalledIsAuthorised'
  BY DEF FetchInv, InstalledIsAuthorised
<1> QED BY <1>1, <1>2, <1>3 DEF FetchInv

(* A call that goes on, not yet to its end.                                *)
LEMMA FetchGoesOn ==
    ASSUME FetchInv, NEW p \in {"start", "get", "open"}, fetch.pc \in {"start", "get", "open"}, RunningFetch,
           fetch' = [fetch EXCEPT !.pc = p], UNCHANGED <<Rest, temp, litter>>
    PROVE  FetchInv'
<1>1. /\ fetch'.pc = p /\ fetch'.kind = fetch.kind /\ fetch'.ref = fetch.ref /\ fetch'.src = fetch.src
      /\ fetch'.file = fetch.file
      /\ fetch' = [pc |-> p, kind |-> fetch.kind, ref |-> fetch.ref, src |-> fetch.src, file |-> fetch.file]
  BY DEF RunningFetch
<1>2. RunningFetch'
  BY <1>1 DEF RunningFetch, Rest, Dropped, Authorised, ReferenceValid, Addressed
<1> QED BY <1>1, <1>2 DEF FetchInv, Rest, InstalledIsAuthorised, HandedOverWhole, Authorised, ReferenceValid, Addressed

(* The file is made when there is something to write to it.                *)
LEMMA FetchOpens ==
    ASSUME FetchInv, fetch.pc \in {"get", "open"}, RunningFetch, NEW body,
           fetch' = [fetch EXCEPT !.pc = "body", !.src = body, !.file = calls],
           temp' = [n \in DOMAIN temp \cup {calls} |-> IF n = calls THEN <<>> ELSE temp[n]],
           UNCHANGED <<Rest, litter>>
    PROVE  FetchInv'
<1>1. /\ fetch'.pc = "body" /\ fetch'.kind = fetch.kind /\ fetch'.ref = fetch.ref /\ fetch'.src = body
      /\ fetch'.file = calls
      /\ fetch' = [pc |-> "body", kind |-> fetch.kind, ref |-> fetch.ref, src |-> body, file |-> calls]
  BY DEF RunningFetch
<1>2. DOMAIN temp' \subseteq Dropped' \cup {calls}
  BY DEF RunningFetch, Dropped
<1>3. RunningFetch'
  BY <1>1, <1>2 DEF RunningFetch, Rest, Authorised, ReferenceValid, Addressed
<1> QED BY <1>1, <1>3 DEF FetchInv, Rest, InstalledIsAuthorised, HandedOverWhole, Authorised, ReferenceValid, Addressed

LEMMA FetchSteps == FetchInv /\ [FetchNext]_fetchVars => FetchInv'
<1> SUFFICES ASSUME FetchInv, [FetchNext]_fetchVars PROVE FetchInv'
  OBVIOUS
<1>0. fetch # NoFetch \/ fetch.pc # "idle" => RunningFetch
  BY DEF FetchInv, NoFetch
<1>1. ASSUME NEW c \in Contents, ReplaceObject(c) \/ ReplaceMirror(c) PROVE FetchInv'
  BY <1>1 DEF ReplaceObject, ReplaceMirror, FetchInv, RunningFetch, Dropped, InstalledIsAuthorised, HandedOverWhole,
     Written, Authorised, ReferenceValid, Addressed
<1>2. ASSUME NEW kind \in {"s3", "mirror"}, NEW ref \in References, StartFetch(kind, ref) PROVE FetchInv'
  <2>1. CASE Authorised(ref)
    <3>1. fetch' = Fetching(kind, ref)
      BY <1>2, <2>1 DEF StartFetch
    <3>2. RunningFetch'
      BY <1>2, <2>1, <3>1 DEF StartFetch, FetchInv, RunningFetch, Fetching, Dropped, NoFetch, Authorised,
         ReferenceValid, Addressed
    <3> QED BY <1>2, <3>1, <3>2 DEF StartFetch, FetchInv, Fetching, InstalledIsAuthorised, HandedOverWhole,
               Authorised, ReferenceValid, Addressed
  <2>2. CASE ~Authorised(ref)
    <3>1. fetch' = fetch
      BY <1>2, <2>2 DEF StartFetch
    <3>2. fetch = NoFetch /\ DOMAIN temp \subseteq Dropped
      BY <1>2 DEF StartFetch, FetchInv, RunningFetch, NoFetch
    <3> QED BY <1>2, <3>1, <3>2 DEF StartFetch, FetchInv, Dropped, InstalledIsAuthorised, HandedOverWhole, NoFetch,
               Authorised, ReferenceValid, Addressed
  <2> QED BY <2>1, <2>2
<1>3. CASE HeadObject \/ StatMirror
  <2>1. RunningFetch /\ fetch.file = 0
    BY <1>3, <1>0 DEF HeadObject, StatMirror, RunningFetch
  <2>2. \/ fetch' = [fetch EXCEPT !.pc = "get"] \/ fetch' = [fetch EXCEPT !.pc = "open"] \/ EndFetch
    BY <1>3 DEF HeadObject, StatMirror
  <2>3. UNCHANGED <<Rest, temp, litter>> /\ fetch.pc = "start"
    BY <1>3 DEF HeadObject, StatMirror
  <2> QED BY <2>1, <2>2, <2>3, FetchGoesOn, FetchEnds DEF Rest
<1>4. CASE GetObject \/ OpenMirror
  <2>1. RunningFetch /\ fetch.file = 0
    BY <1>4, <1>0 DEF GetObject, OpenMirror, RunningFetch
  <2>2. UNCHANGED <<Rest, litter>> /\ fetch.pc \in {"get", "open"}
    BY <1>4 DEF GetObject, OpenMirror
  <2>3. \/ \E body : /\ fetch' = [fetch EXCEPT !.pc = "body", !.src = body, !.file = calls]
                     /\ temp' = [n \in DOMAIN temp \cup {calls} |-> IF n = calls THEN <<>> ELSE temp[n]]
        \/ EndFetch /\ UNCHANGED temp
    BY <1>4 DEF GetObject, OpenMirror
  <2> QED BY <2>1, <2>2, <2>3, FetchOpens, FetchEnds DEF Rest
<1>5. CASE Block
  <2>1. RunningFetch /\ fetch.pc = "body"
    BY <1>5, <1>0 DEF Block
  <2>2. CASE temp' = Removed(fetch.file) /\ EndFetch
    BY <2>1, <2>2, <1>5, FetchEnds DEF Block, Rest
  <2>3. CASE /\ temp' = [temp EXCEPT ![fetch.file] = Append(@, fetch.src[Len(@) + 1])]
             /\ UNCHANGED fetch
    <3>1. DOMAIN temp' = DOMAIN temp
      BY <2>3
    <3>2. UNCHANGED <<calls, installed, litter>>
      BY <1>5 DEF Block, Rest
    <3>3. RunningFetch'
      BY <2>1, <2>3, <3>1, <3>2 DEF RunningFetch, Dropped, Authorised, ReferenceValid, Addressed
    <3> QED BY <2>1, <2>3, <3>2, <3>3 DEF FetchInv, InstalledIsAuthorised, HandedOverWhole, Authorised,
               ReferenceValid, Addressed
  <2> QED BY <1>5, <2>2, <2>3 DEF Block
<1>6. CASE EndOfBody
  <2>1. RunningFetch /\ fetch.pc = "body" /\ UNCHANGED <<calls, installed, litter>>
    BY <1>6, <1>0 DEF EndOfBody, Rest
  <2>2. CASE temp' = Removed(fetch.file) /\ EndFetch
    BY <2>1, <2>2, FetchEnds
  <2>3. CASE fetch' = [fetch EXCEPT !.pc = "fetched"] /\ UNCHANGED temp /\ Complete(Written, fetch.ref)
    <3>1. /\ fetch'.pc = "fetched" /\ fetch'.ref = fetch.ref /\ fetch'.file = fetch.file
          /\ fetch' = [pc |-> "fetched", kind |-> fetch'.kind, ref |-> fetch'.ref, src |-> fetch'.src,
                       file |-> fetch'.file]
      BY <2>1, <2>3 DEF RunningFetch
    <3>2. RunningFetch'
      BY <2>1, <2>3, <3>1 DEF RunningFetch, Dropped, Authorised, ReferenceValid, Addressed
    <3>3. HandedOverWhole'
      BY <2>3, <3>1 DEF HandedOverWhole, Written, Complete
    <3> QED BY <2>1, <3>2, <3>3 DEF FetchInv, InstalledIsAuthorised, Authorised, ReferenceValid, Addressed
  <2> QED BY <1>6, <2>2, <2>3 DEF EndOfBody
<1>7. CASE DropFetch
  <2>1. RunningFetch /\ EndFetch /\ UNCHANGED <<calls, installed>>
    BY <1>7, <1>0 DEF DropFetch, Rest
  <2>2. CASE LeavesFile(fetch.kind) /\ fetch.file # 0
    <3>1. litter' = litter \cup {<<fetch.file, fetch.kind>>} /\ UNCHANGED temp /\ fetch.kind = "mirror"
      BY <1>7, <2>2 DEF DropFetch, LeavesFile
    <3>2. DOMAIN temp' \subseteq Dropped'
      <4>1. fetch.file = <<fetch.file, fetch.kind>>[1]
        OBVIOUS
      <4>2. Dropped \cup {fetch.file} \subseteq Dropped'
        BY <4>1, <3>1, Zenon DEF Dropped
      <4> QED BY <4>2, <3>1, <2>1 DEF RunningFetch
    <3>3. \A f \in litter' : f[2] = "mirror"
      BY <3>1 DEF FetchInv
    <3>4. fetch' = NoFetch /\ HandedOverWhole'
      BY <2>1 DEF EndFetch, HandedOverWhole, NoFetch
    <3>5. InstalledIsAuthorised'
      BY <2>1 DEF FetchInv, InstalledIsAuthorised, Authorised, ReferenceValid, Addressed
    <3> QED BY <2>1, <3>2, <3>3, <3>4, <3>5 DEF FetchInv
  <2>3. CASE ~(LeavesFile(fetch.kind) /\ fetch.file # 0)
    BY <1>7, <2>1, <2>3, FetchEnds DEF DropFetch
  <2> QED BY <2>2, <2>3
<1>8. CASE Install
  <2>1. RunningFetch /\ EndFetch /\ UNCHANGED <<calls, litter>> /\ temp' = Removed(fetch.file)
    BY <1>8, <1>0 DEF Install
  <2>2. CASE BundleVerified(Written, fetch.ref)
    <3>1. installed' = <<fetch.ref, Written>> /\ Written = fetch.ref.sha
      BY <1>8, <2>2 DEF Install, BundleVerified
    <3>2. InstalledIsAuthorised'
      BY <3>1, <2>1 DEF InstalledIsAuthorised, RunningFetch, Authorised, ReferenceValid, Addressed
    <3> QED BY <2>1, <3>2, FetchEnds
  <2>3. CASE ~BundleVerified(Written, fetch.ref)
    BY <1>8, <2>1, <2>3, FetchEnds DEF Install
  <2> QED BY <2>2, <2>3
<1>9. CASE UNCHANGED fetchVars
  BY <1>9 DEF fetchVars, FetchInv, RunningFetch, Dropped, InstalledIsAuthorised, HandedOverWhole, Written,
     Authorised, ReferenceValid, Addressed
<1> QED BY <1>1, <1>2, <1>3, <1>4, <1>5, <1>6, <1>7, <1>8, <1>9 DEF FetchNext

LEMMA FetchInvSuffices == FetchInv => FetchedIsAuthorised
<1> SUFFICES ASSUME FetchInv PROVE FetchedIsAuthorised
  OBVIOUS
<1>1. fetch # NoFetch => RunningFetch
  BY DEF FetchInv
<1>2. NothingLeftBehind
  <2>1. DOMAIN temp \subseteq Dropped \cup (IF fetch = NoFetch THEN {} ELSE {fetch.file})
    BY <1>1 DEF FetchInv, RunningFetch, NoFetch
  <2> QED BY <2>1, Zenon DEF NothingLeftBehind, FetchInv, Dropped
<1>3. InstalledIsAuthorised /\ HandedOverWhole
  BY DEF FetchInv
<1> QED BY <1>2, <1>3 DEF FetchedIsAuthorised

(* However objects and mirror files are replaced while they are read, and  *)
(* wherever calls are dropped, what is installed is what its manifest      *)
(* authorises, a fetched file is whole, and a call leaves nothing behind   *)
(* except a mirror copy it was dropped in, for every number of calls and   *)
(* whatever the objects hold.                                              *)
THEOREM FetchAlwaysAuthorised == FetchSpec => []FetchedIsAuthorised
<1>1. FetchSpec => []FetchInv
  BY FetchStarts, FetchSteps, PTL DEF FetchSpec
<1> QED BY <1>1, FetchInvSuffices, PTL
=============================================================================
