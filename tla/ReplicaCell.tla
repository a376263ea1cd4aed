---------------------------- MODULE ReplicaCell ----------------------------
(***************************************************************************)
(* A cell of replicas that converge on the generations a control plane     *)
(* publishes: PostgresReplicaWorker in grpc-server/src/replica_worker.rs.  *)
(*                                                                         *)
(* The authority is a PostgreSQL database that an external control plane   *)
(* writes.  Each replica runs one reconcile pass after another: it reads   *)
(* its directive, reads the generation it names, builds and catches up     *)
(* locally, and reports a checkpoint in a transaction.  Between any two of *)
(* these statements the authority may move, and the worker goes on with    *)
(* what it read.  Sequences are counted from a generation's bundle target. *)
(***************************************************************************)
EXTENDS Integers, FiniteSets

CONSTANTS
    Replicas, Gens,
    MaxSeq,       \* mutations appended to one generation
    Quorum,       \* minimum_ready_replicas of the activation policy
    MaxFaults,    \* faults in a behaviour: interruptions and failed calls
    Odd,          \* replicas whose materialisation differs from their peers'
    BuildsFail,   \* a build may fail for good, and be recorded as failed
    Unreadable,   \* load_materialized may fail when a checkpoint is reported
    Rollbacks,    \* the control plane may roll the stream back
    Abandons,     \* the control plane may abandon a publication
    Drains,       \* the control plane may drain replicas
    None

ASSUME CellAssumption ==
    /\ IsFiniteSet(Replicas) /\ MaxSeq \in Nat /\ MaxFaults \in Nat
    /\ Quorum \in Nat \ {0}
    /\ Odd \subseteq Replicas
    /\ {BuildsFail, Unreadable, Rollbacks, Abandons, Drains} \subseteq BOOLEAN

VARIABLES
    act, prior,   \* the authority's active generation and its predecessor
    pub,          \* the publication pointer
    status,       \* status of each generation
    required,     \* required_sequence of each generation
    evidence,     \* materialization_digest of each generation
    drained,      \* replicas drained from request routing
    ckpt,         \* knowledge_replica_checkpoints
    loc,          \* the local serving state of each replica, by role
    work,         \* the reconcile pass of each replica
    faults

authority == <<act, prior, pub, status, required, drained>>
vars == <<act, prior, pub, status, required, evidence, drained, ckpt, loc, work, faults>>

-----------------------------------------------------------------------------
(* Data.                                                                   *)

Roles == {"active", "previous", "staged"}

(* A local generation; "Building" stands for Staged and CatchingUp.        *)
Locals == [gen : Gens, applied : 0..MaxSeq, state : {"Building", "Ready", "Serving", "Failed"}]

(* What a materialisation looks like from outside: its digest and counts.  *)
(* "zero" is the fallback a worker reports when it cannot read its own.    *)
Contents == {"good", "odd", "zero"}
Digest(n, content) == [applied |-> n, content |-> content]
Digests == [applied : 0..MaxSeq, content : Contents]

Reported == {"catching_up", "ready", "serving", "failed"}
Servable == {"ready", "serving"}
(* A checkpoint's digest is consulted only when it is servable.            *)
Checkpoints == [applied : 0..MaxSeq, state : Reported, digest : Digests \cup {None}]
Checkpoint(n, state, content) ==
    [applied |-> n, state |-> state,
     digest |-> IF state \in Servable THEN Digest(n, content) ELSE None]

(* What load_directive reads of the stream.                                *)
Directives == [act : Gens \cup {None}, target : 0..MaxSeq, pub : Gens \cup {None},
               drained : BOOLEAN]

ASSUME NoneAssumption ==
    None \notin Gens /\ None \notin Locals /\ None \notin Digests
    /\ None \notin Checkpoints /\ None \notin Directives

(* A pass reads the directive, then the row of one generation at a time.   *)
(* A pass ensures the active generation, ensures the publication, and then *)
(* walks the roles of the local record (report_local_states).              *)
Phases == <<"serve", "publish", "active", "previous", "staged">>

Idle == [pc |-> "idle", dir |-> None, phase |-> 0, gen |-> None, req |-> 0]

ContentOf(r) == IF r \in Odd THEN "odd" ELSE "good"

RoleOf(r, g) == {role \in Roles : loc[r][role] # None /\ loc[r][role].gen = g}
Holds(r, g) == RoleOf(r, g) # {}
LocalOf(r, g) == loc[r][CHOOSE role \in Roles : role \in RoleOf(r, g)]
Built(r, g) == Holds(r, g) /\ LocalOf(r, g).state \in {"Ready", "Serving"}

At(r, pc) == work[r].pc = pc
InPhase(r, phase) == Phases[work[r].phase] = phase
Goto(r, pc) == work' = [work EXCEPT ![r].pc = pc]
EndPass(r) == work' = [work EXCEPT ![r] = Idle]

SpendFault == faults < MaxFaults /\ faults' = faults + 1

-----------------------------------------------------------------------------
(* The control plane (external), one transaction at a time.                *)

Open(g) == status[g] = "staged"

Register(g) ==
    /\ status[g] = "unknown"
    /\ pub = None \/ pub = act
    /\ pub' = g
    /\ status' = [status EXCEPT ![g] = "staged"]
    /\ UNCHANGED <<act, prior, required, evidence, drained, ckpt, loc, work, faults>>

ReadyReplicas(g) == {r \in Replicas : /\ ckpt[r][g] # None
                                      /\ ckpt[r][g].state \in Servable
                                      /\ ckpt[r][g].applied = required[g]}

ActivatePublication ==
    /\ pub # None
    /\ Open(pub)
    /\ Cardinality(ReadyReplicas(pub)) >= Quorum
    /\ act' = pub /\ prior' = act
    /\ status' = [g \in Gens |-> IF g = pub THEN "active"
                                 ELSE IF g = act THEN "superseded" ELSE status[g]]
    /\ UNCHANGED <<pub, required, evidence, drained, ckpt, loc, work, faults>>

RollBackStream ==
    /\ Rollbacks /\ prior # None
    /\ act' = prior /\ prior' = None
    /\ status' = [status EXCEPT ![prior] = "active", ![act] = "superseded"]
    /\ pub' = IF pub = act THEN None ELSE pub
    /\ UNCHANGED <<required, evidence, drained, ckpt, loc, work, faults>>

Abandon ==
    /\ Abandons /\ pub # None
    /\ Open(pub)
    /\ status' = [status EXCEPT ![pub] = "abandoned"]
    /\ pub' = None
    /\ UNCHANGED <<act, prior, required, evidence, drained, ckpt, loc, work, faults>>

(* An appended mutation advances the required sequence and the stream's    *)
(* target together, and clears the evidence of the former sequence.        *)
AppendTail ==
    /\ act # None
    /\ required[act] < MaxSeq
    /\ required' = [required EXCEPT ![act] = @ + 1]
    /\ evidence' = [evidence EXCEPT ![act] = None]
    /\ UNCHANGED <<act, prior, pub, status, drained, ckpt, loc, work, faults>>

Drain(r) ==
    /\ Drains /\ r \notin drained
    /\ drained' = drained \cup {r}
    /\ UNCHANGED <<act, prior, pub, status, required, evidence, ckpt, loc, work, faults>>

-----------------------------------------------------------------------------
(* reconcile_once_outcome, statement by statement.                         *)

(* heartbeat and load_directive.  The drained flag is read and only logged.*)
Directive(r) == [act |-> act, target |-> IF act = None THEN 0 ELSE required[act],
                 pub |-> pub, drained |-> r \in drained]

(* The generation a phase is about, None when there is none, by the        *)
(* directive the pass read and the local record l.                         *)
Subject(phase, dir, l) ==
    CASE phase = "serve"   -> dir.act
      [] phase = "publish" -> IF dir.pub = dir.act THEN None ELSE dir.pub
      [] OTHER             -> IF l[phase] = None THEN None ELSE l[phase].gen

(* The phases still to come after the k-th that have a subject.  The last  *)
(* three no longer look at the directive.                                  *)
Ahead(k, dir, l) == {j \in (k + 1)..5 : Subject(Phases[j], dir, l) # None}

PassFrom(k, dir, l) ==
    IF Ahead(k, dir, l) = {} THEN Idle
    ELSE LET j == CHOOSE j \in Ahead(k, dir, l) : \A i \in Ahead(k, dir, l) : j <= i
         IN  [pc |-> "load", dir |-> IF j <= 2 THEN dir ELSE None, phase |-> j,
              gen |-> Subject(Phases[j], dir, l), req |-> 0]

Begin(r) ==
    /\ At(r, "idle")
    /\ work' = [work EXCEPT ![r] = PassFrom(0, Directive(r), loc[r])]
    /\ UNCHANGED <<authority, evidence, ckpt, loc, faults>>

(* The pass goes on, the local record being l.                             *)
Advance(r, l) ==
    work' = [work EXCEPT ![r] = PassFrom(@.phase, @.dir, l)]

(* load_generation refuses a generation the control plane gave up, and the *)
(* error ends the pass.                                                    *)
Admissible(g) == status[g] \in {"staged", "active", "superseded"}

LoadGeneration(r) ==
    /\ At(r, "load")
    /\ LET g == work[r].gen IN
       \/ ~Admissible(g) /\ EndPass(r)
       \/ Admissible(g) /\ InPhase(r, "publish") /\ ~Open(g) /\ Advance(r, loc[r])
       \/ /\ Admissible(g) /\ (InPhase(r, "publish") => Open(g))
          /\ work' = [work EXCEPT
                ![r].pc = IF InPhase(r, "serve") \/ InPhase(r, "publish")
                          THEN "build" ELSE "state",
                ![r].req = required[g]]
    /\ UNCHANGED <<authority, evidence, ckpt, loc, faults>>

(* ensure_built up to the mutation tail: a generation that failed locally  *)
(* stays failed; one that is not built is fetched and published into the   *)
(* staged slot, which another generation may occupy (GenerationConflict).  *)
Refused(r) ==
    LET g == work[r].gen IN
    IF Holds(r, g) THEN \/ LocalOf(r, g).applied > work[r].req
                        \/ LocalOf(r, g).state = "Failed"
    ELSE loc[r]["staged"] # None

Stage(r, state) ==
    loc' = [loc EXCEPT ![r]["staged"] = [gen |-> work[r].gen, applied |-> 0, state |-> state]]

Build(r) ==
    /\ At(r, "build")
    /\ \/ ~Refused(r) /\ Built(r, work[r].gen) /\ Goto(r, "tail") /\ UNCHANGED <<loc, faults>>
       \/ Refused(r) /\ Goto(r, "fail") /\ UNCHANGED <<loc, faults>>
       \/ /\ ~Refused(r) /\ ~Built(r, work[r].gen)
          /\ \/ Stage(r, "Ready") /\ Goto(r, "tail") /\ UNCHANGED faults
             \/ SpendFault /\ Goto(r, "fail") /\ UNCHANGED loc
             \/ BuildsFail /\ SpendFault /\ Stage(r, "Failed") /\ Goto(r, "fail")
    /\ UNCHANGED <<authority, evidence, ckpt>>

(* load_materialized_mutations: a row is missing or out of order, a limit  *)
(* is exceeded, or a payload cannot be fetched or fails its checks.        *)
TailFails(r, applied) == applied < work[r].req /\ SpendFault

(* The tail is read, the revision built and committed up to the required   *)
(* sequence the pass read.                                                 *)
CatchUp(r) ==
    /\ At(r, "tail")
    /\ LET role == CHOOSE role \in Roles : role \in RoleOf(r, work[r].gen) IN
       \/ /\ loc' = [loc EXCEPT ![r][role].applied = work[r].req]
          /\ Goto(r, "report") /\ UNCHANGED faults
       \/ TailFails(r, loc[r][role].applied) /\ Goto(r, "fail") /\ UNCHANGED loc
    /\ UNCHANGED <<authority, evidence, ckpt>>

-----------------------------------------------------------------------------
(* Checkpoint reports.                                                     *)

(* Mutant: progress alone decides, so that a build that was interrupted    *)
(* before any mutation was due is reported ready.                          *)
StateByProgress(l, req) ==
    CASE l.state = "Failed"   -> "failed"
      [] OTHER -> IF l.applied < req THEN "catching_up"
                  ELSE IF l.state = "Serving" THEN "serving" ELSE "ready"

(* report_generation_state: what a worker says of a local generation.      *)
StateReported(l, req) ==
    CASE l.state = "Building" -> "catching_up"
      [] l.state = "Failed"   -> "failed"
      [] OTHER -> IF l.applied < req THEN "catching_up"
                  ELSE IF l.state = "Ready" THEN "ready" ELSE "serving"

Readings == IF Unreadable THEN BOOLEAN ELSE {TRUE}

ReportOf(r, g, readable) ==
    LET l == LocalOf(r, g) IN
    Checkpoint(l.applied, StateReported(l, work[r].req),
               IF readable /\ Built(r, g) THEN ContentOf(r) ELSE "zero")

(* report_generation_failure: the base sequence unless the local           *)
(* generation can be read.                                                 *)
FailureReport(r, g, readable) ==
    Checkpoint(IF Built(r, g) /\ readable THEN LocalOf(r, g).applied ELSE 0, "failed", "zero")

(* persist_checkpoint, one transaction that holds the stream's and the     *)
(* generation's row locks: the required sequence and the evidence are read *)
(* again, the first ready replica leaves the evidence and the others must  *)
(* match it.                                                               *)
(* Mutant: the evidence of a peer is not compared.                         *)
PersistUngated(g, report) ==
    \/ report.applied > required[g]
    \/ report.state \in Servable /\ report.applied # required[g]

PersistRefused(g, report) ==
    \/ report.applied > required[g]
    \/ /\ report.state \in Servable
       /\ \/ report.applied # required[g]
          \/ evidence[g] \notin {None, report.digest}

Persist(r, g, report) ==
    /\ ckpt' = [ckpt EXCEPT ![r][g] = report]
    /\ evidence' = IF report.state \in Servable
                   THEN [evidence EXCEPT ![g] = report.digest] ELSE evidence

(* Mutant: a publication is aligned like the active generation.            *)
ReportBuiltThenAlign(r) ==
    /\ At(r, "report")
    /\ LET report == ReportOf(r, work[r].gen, TRUE) IN
       /\ ~PersistRefused(work[r].gen, report)
       /\ Persist(r, work[r].gen, report)
       /\ Goto(r, "align")
    /\ UNCHANGED <<authority, loc, faults>>

(* The report that ends ensure_built.                                      *)
ReportBuilt(r) ==
    /\ At(r, "report")
    /\ \E readable \in Readings :
       LET g == work[r].gen
           report == ReportOf(r, g, readable)
       IN
       \/ PersistRefused(g, report) /\ Goto(r, "fail") /\ UNCHANGED <<ckpt, evidence>>
       \/ /\ ~PersistRefused(g, report) /\ Persist(r, g, report)
          /\ IF InPhase(r, "serve") THEN Goto(r, "align") ELSE Advance(r, loc[r])
    /\ UNCHANGED <<authority, loc, faults>>

ReportFailure(r) ==
    /\ At(r, "fail")
    /\ \E readable \in Readings :
       LET report == FailureReport(r, work[r].gen, readable) IN
       IF PersistRefused(work[r].gen, report) THEN UNCHANGED <<ckpt, evidence>>
       ELSE Persist(r, work[r].gen, report)
    /\ EndPass(r)
    /\ UNCHANGED <<authority, loc, faults>>

(* One role of report_local_states; an error ends the pass.                *)
ReportState(r) ==
    /\ At(r, "state")
    /\ \E readable \in Readings :
       LET g == work[r].gen
           report == ReportOf(r, g, readable)
       IN
       \/ PersistRefused(g, report) /\ EndPass(r) /\ UNCHANGED <<ckpt, evidence>>
       \/ ~PersistRefused(g, report) /\ Persist(r, g, report) /\ Advance(r, loc[r])
    /\ UNCHANGED <<authority, loc, faults>>

-----------------------------------------------------------------------------
(* align_local_active: the local pointer follows the directive, by an      *)
(* activation or by a rollback of the local record.                        *)
Activated(l) == [active |-> [l.staged EXCEPT !.state = "Serving"],
                 previous |-> IF l.active = None THEN l.previous
                              ELSE [l.active EXCEPT !.state = "Ready"],
                 staged |-> None]

RolledBack(l) == [active |-> [l.previous EXCEPT !.state = "Serving"],
                  previous |-> [l.active EXCEPT !.state = "Ready"],
                  staged |-> l.staged]

(* Mutant: the pointer is only set on a replica that serves nothing yet.   *)
AlignOnce(r) ==
    /\ At(r, "align")
    /\ IF loc[r]["active"] = None
       THEN loc' = [loc EXCEPT ![r] = Activated(loc[r])] /\ Advance(r, Activated(loc[r]))
       ELSE UNCHANGED loc /\ Advance(r, loc[r])
    /\ UNCHANGED <<authority, evidence, ckpt, faults>>

Align(r) ==
    /\ At(r, "align")
    /\ LET g == work[r].gen
           is(role) == role \in RoleOf(r, g)
       IN
       \/ work[r].req # work[r].dir.target /\ EndPass(r) /\ UNCHANGED loc
       \/ /\ work[r].req = work[r].dir.target
          /\ LET l == IF is("active") THEN loc[r]
                      ELSE IF is("staged") THEN Activated(loc[r]) ELSE RolledBack(loc[r])
             IN  loc' = [loc EXCEPT ![r] = l] /\ Advance(r, l)
    /\ UNCHANGED <<authority, evidence, ckpt, faults>>

(* The connection is lost or the process dies: the pass is gone, and a     *)
(* build in progress leaves a staged generation behind.                    *)
Interrupt(r) ==
    /\ work[r] # Idle
    /\ SpendFault /\ EndPass(r)
    /\ \/ UNCHANGED loc
       \/ At(r, "build") /\ ~Refused(r) /\ ~Built(r, work[r].gen) /\ Stage(r, "Building")
    /\ UNCHANGED <<authority, evidence, ckpt>>

-----------------------------------------------------------------------------
Init ==
    /\ act = None /\ prior = None /\ pub = None
    /\ status = [g \in Gens |-> "unknown"]
    /\ required = [g \in Gens |-> 0]
    /\ evidence = [g \in Gens |-> None]
    /\ drained = {}
    /\ ckpt = [r \in Replicas |-> [g \in Gens |-> None]]
    /\ loc = [r \in Replicas |-> [role \in Roles |-> None]]
    /\ work = [r \in Replicas |-> Idle]
    /\ faults = 0

ControlPlane ==
    \/ \E g \in Gens : Register(g)
    \/ ActivatePublication
    \/ RollBackStream
    \/ Abandon
    \/ AppendTail
    \/ \E r \in Replicas : Drain(r)

Reconcile(r) ==
    \/ Begin(r)
    \/ LoadGeneration(r)
    \/ Build(r)
    \/ CatchUp(r)
    \/ ReportBuilt(r)
    \/ ReportFailure(r)
    \/ Align(r)
    \/ ReportState(r)

Next == ControlPlane \/ \E r \in Replicas : Reconcile(r) \/ Interrupt(r)

Spec == Init /\ [][Next]_vars

(* A worker polls for ever, with bounded backoff; the control plane        *)
(* promises nothing.                                                       *)
FairSpec == Spec /\ \A r \in Replicas : WF_vars(Reconcile(r))

-----------------------------------------------------------------------------
(* Properties.                                                             *)

Passes == [pc : {"idle", "load", "build", "tail", "report", "fail", "align", "state"},
           dir : Directives \cup {None},
           phase : 0..5, gen : Gens \cup {None}, req : 0..MaxSeq]

(* Type correctness of the authority's rows, the local records and passes. *)
CellTypeOK ==
    /\ act \in Gens \cup {None} /\ prior \in Gens \cup {None} /\ pub \in Gens \cup {None}
    /\ status \in [Gens -> {"unknown", "staged", "active", "superseded", "abandoned"}]
    /\ required \in [Gens -> 0..MaxSeq]
    /\ evidence \in [Gens -> Digests \cup {None}]
    /\ drained \subseteq Replicas
    /\ ckpt \in [Replicas -> [Gens -> Checkpoints \cup {None}]]
    /\ loc \in [Replicas -> [Roles -> Locals \cup {None}]]
    /\ work \in [Replicas -> Passes]
    /\ faults \in 0..MaxFaults

(* Replicas that report the required sequence of a generation as servable  *)
(* hold the same content, in whatever order they built, reported, failed   *)
(* and retried: the digest gate of persist_checkpoint admits one content   *)
(* per checkpoint.                                                         *)
ReadyPeersAgree ==
    \A g \in Gens : \A q, r \in ReadyReplicas(g) : ckpt[q][g].digest = ckpt[r][g].digest

(* A replica never serves a generation before the authority made it        *)
(* active: only registered generations that left the staged state, or were *)
(* active once, are behind a local active or previous pointer.             *)
LocalFollowsAuthority ==
    \A r \in Replicas, role \in {"active", "previous"} :
        loc[r][role] # None => status[loc[r][role].gen] \in {"active", "superseded"}

(* The generations the stream moves forward to: the one being published,   *)
(* and the active one unless a rollback made it active again.  A replica   *)
(* that missed the moves between may have dropped the target of a rollback *)
(* to keep a younger generation, and its checkpoint still calls the target *)
(* ready until its next report.                                            *)
StreamRolledBack == prior = None /\ \E g \in Gens : status[g] = "superseded"
Forward(g) == Open(g) \/ (g = act /\ ~StreamRolledBack)

(* The authority's view is never ahead of a replica: whatever a checkpoint *)
(* says was applied, the replica applied, and what it reports servable it  *)
(* really built, for every generation it serves or could fall back to, and *)
(* for the staged one on the way forward.                                  *)
CheckpointHeld ==
    \A r \in Replicas, role \in Roles :
        LET l == loc[r][role] IN
        l # None /\ ckpt[r][l.gen] # None /\ (role = "staged" => Forward(l.gen)) =>
            /\ l.applied >= ckpt[r][l.gen].applied
            /\ ckpt[r][l.gen].state \in Servable => l.state \in {"Ready", "Serving"}

(* What counts towards the quorum of an activation, and what a gateway     *)
(* routes to, is there: a generation on the way forward is built on every  *)
(* replica whose checkpoint calls it ready, through evictions, rollbacks   *)
(* missed and abandoned publications.                                      *)
ReadyIsHeld ==
    \A g \in Gens : Forward(g) => \A r \in ReadyReplicas(g) : Built(r, g)

Settled(r) ==
    /\ act # None =>
          /\ loc[r]["active"] = [gen |-> act, applied |-> required[act], state |-> "Serving"]
          /\ ckpt[r][act] # None /\ ckpt[r][act].state = "serving" /\ r \in ReadyReplicas(act)
    /\ pub # None => Built(r, pub) /\ r \in ReadyReplicas(pub)

(* Once the control plane stops moving, every replica serves the active    *)
(* generation at its required sequence, has the publication ready, and     *)
(* says so, after any finite number of interruptions.                      *)
Converges == <>[](\A r \in Replicas : Settled(r))

(* What the authority believes of a replica is true of it: a checkpoint is *)
(* never ahead of the local record, and what counts towards a quorum is    *)
(* built.                                                                  *)
CellSound ==
    /\ CellTypeOK
    /\ CheckpointHeld
    /\ ReadyIsHeld
=============================================================================
