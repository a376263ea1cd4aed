---------------------------- MODULE MemoryLedger ----------------------------
(***************************************************************************)
(* The authoritative memory ledger of one workspace: MemoryLedger in       *)
(* storage/src/memory.rs, with the records of contracts/src/memory.rs.     *)
(*                                                                         *)
(* Every mutation takes the transition lock, decides, and writes one       *)
(* synced batch, so an operation is one step.  Identifiers are drawn fresh *)
(* in the code; here a version, an observation or a reinforcement is named *)
(* by the commit sequence that created it, and a piece of evidence by its  *)
(* owner and its source.  A request is admitted only when the heads it     *)
(* expects are the heads there are, so the expected heads of an admitted   *)
(* request are not a parameter.                                            *)
(***************************************************************************)
EXTENDS Integers, Sequences, FiniteSets

CONSTANTS
    Assertions,    \* identities: entity, predicate and kind in one namespace
    Sources,       \* (plane, id) of the evidence
    Scopes,        \* access scopes of records
    SubjectOf,     \* the data subject of a scope, or None
    Proofs,        \* the scopes a caller's access proof covers, one set each
    Drafts,        \* the candidate versions callers submit
    MaxSeq,        \* bound: mutations in a behaviour
    MaxInputs,     \* bound: inputs of a derivation
    MaxPlans,      \* bound: deletion plans stored at a time
    None

Subjects == {SubjectOf[s] : s \in Scopes} \ {None}

(* decision_authority_rank orders the decision authorities.                *)
Ranks == 0..2

(* A candidate: CommitMemoryRequest without its derivation and identity.   *)
(* flagged: context_firewall_reason_codes is not empty for its content.    *)
DraftSet == [assertion : Assertions, scope : Scopes, sources : SUBSET Sources,
             rank : Ranks, flagged : BOOLEAN]

ASSUME LedgerAssumption ==
    /\ MaxSeq \in Nat /\ MaxInputs \in Nat /\ MaxPlans \in Nat
    /\ IsFiniteSet(Drafts) /\ Drafts \subseteq DraftSet
    /\ Proofs \subseteq SUBSET Scopes
    /\ None \notin Assertions

VARIABLES
    seq,         \* WorkspaceMeta.commit_sequence
    log,         \* the mutations, which are also the projection outbox
    assertions,  \* assertion rows
    heads,       \* MemoryHead.active_version_ids, where there is a head row
    versions,    \* version rows
    life,        \* lifecycle history of every version ever written
    evidence,    \* evidence rows
    observations, reinforcements,
    snapshots,   \* retained recall snapshots
    plans,       \* stored deletion plans
    deletions    \* executions with their tombstones

rows == <<assertions, heads, versions, evidence, observations, reinforcements>>
ledgerVars == <<seq, log, rows, life, snapshots, plans, deletions>>

-----------------------------------------------------------------------------
(* Records.                                                                *)

Ids == 1..MaxSeq

Operations == {"Observe", "Commit", "Propose", "Correct", "Reinforce", "Retract",
               "Forget", "RetentionDelete"}

(* MemoryMutation, with the key its idempotency record is stored under.    *)
Mutations == [op : Operations, assertion : Assertions \cup {None},
              in : SUBSET Ids, out : SUBSET Ids, key : Ids]

States == {"Proposed", "Quarantined", "Active", "Superseded", "Retracted", "Tombstoned"}
Transitions == [at : Ids, state : States]

(* MemoryVersion with its DerivationRecord: the input versions, and the    *)
(* observations whose evidence it names.                                   *)
Versions == [draft : DraftSet, parents : SUBSET Ids, inputs : SUBSET Ids, from : SUBSET Ids]

EvidenceRecords == [owner : Ids, source : Sources]
Observations == [scope : Scopes, source : Sources]
Reinforcements == [version : Ids, source : Sources]

(* What a deletion is asked for, and what its plan found.                  *)
Selectors == [kind : {"Source"}, id : Sources] \cup [kind : {"DataSubject"}, id : Subjects]
Plans == [selector : Selectors, proof : Proofs, at : 0..MaxSeq,
          versions : SUBSET Ids, evidence : SUBSET EvidenceRecords,
          observations : SUBSET Ids, reinforcements : SUBSET Ids,
          snapshots : SUBSET Nat]

(* A retained recall: what it returned, and the sequence it was asked for. *)
Snapshots == [id : Nat, results : SUBSET Ids, at : 0..MaxSeq, proof : Proofs]

Existing == DOMAIN versions
ScopeOf(v) == versions[v].draft.scope
AssertionOf(v) == versions[v].draft.assertion

(* lifecycle_current: the last transition.                                 *)
Current(v) == life[v][Len(life[v])].state

(* A plausible bug: the current state stands for the state at n.           *)
LifecycleNow(v, n) == Current(v)

(* lifecycle_at_sequence: the last transition committed by n, if any.      *)
LifecycleAt(v, n) ==
    LET past == {i \in DOMAIN life[v] : life[v][i].at <= n}
    IN  IF past = {} THEN None
        ELSE life[v][CHOOSE i \in past : \A j \in past : j <= i].state

(* list_versions_temporal for a proof p: what was active as known at n.    *)
AsOf(p, n) == {v \in Existing : /\ v <= n /\ ScopeOf(v) \in p
                                /\ LifecycleAt(v, n) = "Active"}

(* list_active_versions: through the heads.                                *)
ActiveNow(p) == {v \in UNION {heads[a] : a \in DOMAIN heads} : ScopeOf(v) \in p}

-----------------------------------------------------------------------------
(* Steps shared by the mutations.                                          *)

(* The idempotency record of a (principal, operation, key): a request that *)
(* finds one is answered from it, or refused, and writes nothing.          *)
Recorded(op, key) == \E n \in DOMAIN log : log[n].op = op /\ log[n].key = key

(* A caller sends a new key, or sends its last request again.              *)
Keys(op) == {seq + 1} \cup {log[n].key : n \in {m \in {seq} \cap DOMAIN log : log[m].op = op}}

Tombstoned(selector) == \E d \in deletions : d.selector = selector

(* ensure_not_deletion_tombstoned_unlocked.                                *)
Importable(scope, sources) ==
    /\ \A s \in sources : ~Tombstoned([kind |-> "Source", id |-> s])
    /\ SubjectOf[scope] # None => ~Tombstoned([kind |-> "DataSubject", id |-> SubjectOf[scope]])

(* The sequence, the mutation and its outbox entry, in the same batch.     *)
AppendMutation(op, a, in, out, key) ==
    /\ seq' = seq + 1
    /\ log' = Append(log, [op |-> op, assertion |-> a, in |-> in, out |-> out, key |-> key])

(* The lifecycle rows of a batch: each of vs moves to a state.             *)
Moved(history, vs, state) ==
    [v \in DOMAIN history \cup vs |->
        IF v \notin vs THEN history[v]
        ELSE LET e == [at |-> seq + 1, state |-> state]
             IN  IF v \in DOMAIN history THEN Append(history[v], e) ELSE <<e>>]

HeadsOf(a) == IF a \in DOMAIN heads THEN heads[a] ELSE {}
WithHead(a, vs) == [b \in DOMAIN heads \cup {a} |-> IF b = a THEN vs ELSE heads[b]]

(* A candidate may supersede the heads only with at least their authority. *)
Outranks(rank, a) == \A v \in HeadsOf(a) : rank >= versions[v].draft.rank

(* A candidate the context firewall objects to is quarantined or refused.  *)
PassesFirewall(d, state) == d.flagged => state = "Quarantined"

-----------------------------------------------------------------------------
(* Mutations.                                                              *)

(* The batch of observe: the observation and its evidence.                 *)
RecordObservation(scope, source) ==
    /\ observations' = [o \in DOMAIN observations \cup {seq + 1} |->
           IF o \in DOMAIN observations THEN observations[o]
           ELSE [scope |-> scope, source |-> source]]
    /\ evidence' = evidence \cup {[owner |-> seq + 1, source |-> source]}
    /\ UNCHANGED <<assertions, heads, versions, life, reinforcements, snapshots, plans, deletions>>

Observe(p, key, scope, source) ==
    /\ scope \in p
    /\ ~Recorded("Observe", key)
    /\ Importable(scope, {source})
    /\ AppendMutation("Observe", None, {}, {}, key)
    /\ RecordObservation(scope, source)

(* The derivation of a candidate: nothing, or inputs that exist ...        *)
Derivations == {f \in (SUBSET Existing) \X (SUBSET DOMAIN observations) :
                    Cardinality(f[1]) + Cardinality(f[2]) <= MaxInputs}

(* ... and that its author may read.                                       *)
MayDerive(p, f) ==
    /\ \A i \in f[1] : ScopeOf(i) \in p
    /\ \A o \in f[2] : observations[o].scope \in p

(* The rows of a candidate: its assertion, its evidence, and itself.       *)
RecordVersion(d, f) ==
    LET v == seq + 1
    IN  /\ assertions' = assertions \cup {d.assertion}
        /\ evidence' = evidence \cup [owner : {v}, source : d.sources]
        /\ versions' = [w \in Existing \cup {v} |->
               IF w # v THEN versions[w]
               ELSE [draft |-> d, parents |-> HeadsOf(d.assertion), inputs |-> f[1], from |-> f[2]]]

(* Version v becomes the head of a; the versions it replaces are           *)
(* superseded in the same batch.                                           *)
Activate(v, a) ==
    /\ heads' = WithHead(a, {v})
    /\ life' = Moved(Moved(life, {v}, "Active"), HeadsOf(a), "Superseded")

(* A proposal is stored beside the heads; the head row is written too.     *)
StoreBeside(v, a, state) ==
    /\ heads' = WithHead(a, HeadsOf(a))
    /\ life' = Moved(life, {v}, state)

(* commit_version: remember and correct activate the candidate, propose    *)
(* stores it.                                                              *)
CommitVersion(op, state, p, key, d, f) ==
    /\ d.scope \in p
    /\ ~Recorded(op, key)
    /\ Importable(d.scope, d.sources)
    /\ PassesFirewall(d, state)
    /\ state = "Active" => Outranks(d.rank, d.assertion)
    /\ MayDerive(p, f)
    /\ AppendMutation(op, d.assertion, HeadsOf(d.assertion), {seq + 1}, key)
    /\ RecordVersion(d, f)
    /\ IF state = "Active" THEN Activate(seq + 1, d.assertion)
       ELSE StoreBeside(seq + 1, d.assertion, state)
    /\ UNCHANGED <<observations, reinforcements, snapshots, plans, deletions>>

Remember(p, key, d) == \E f \in Derivations : CommitVersion("Commit", "Active", p, key, d, f)

Correct(p, key, d) == \E f \in Derivations : CommitVersion("Correct", "Active", p, key, d, f)

(* propose: quarantined on request, and whenever the firewall objects.     *)
Propose(p, key, d, quarantined) ==
    \E f \in Derivations :
        CommitVersion("Propose", IF quarantined \/ d.flagged THEN "Quarantined" ELSE "Proposed",
                      p, key, d, f)

(* A proposal is committed only against the heads it was made against.     *)
Committable(p, v) ==
    /\ v \in Existing /\ ScopeOf(v) \in p
    /\ Current(v) = "Proposed"
    /\ AssertionOf(v) \in DOMAIN heads
    /\ versions[v].parents = heads[AssertionOf(v)]
    /\ ~versions[v].draft.flagged
    /\ Outranks(versions[v].draft.rank, AssertionOf(v))

CommitProposal(p, key, v) ==
    /\ ~Recorded("Commit", key)
    /\ Committable(p, v)
    /\ AppendMutation("Commit", AssertionOf(v), HeadsOf(AssertionOf(v)), {v}, key)
    /\ Activate(v, AssertionOf(v))
    /\ UNCHANGED <<assertions, versions, evidence, observations, reinforcements,
                   snapshots, plans, deletions>>

(* The batch of reinforce: the outcome and its evidence.                   *)
RecordReinforcement(v, source) ==
    /\ reinforcements' = [r \in DOMAIN reinforcements \cup {seq + 1} |->
           IF r \in DOMAIN reinforcements THEN reinforcements[r]
           ELSE [version |-> v, source |-> source]]
    /\ evidence' = evidence \cup {[owner |-> seq + 1, source |-> source]}
    /\ UNCHANGED <<assertions, heads, versions, life, observations, snapshots, plans, deletions>>

Reinforce(p, key, v, source) ==
    /\ v \in Existing /\ ScopeOf(v) \in p
    /\ ~Recorded("Reinforce", key)
    /\ Current(v) = "Active"
    /\ Importable(ScopeOf(v), {source})
    /\ AppendMutation("Reinforce", AssertionOf(v), {v}, {}, key)
    /\ RecordReinforcement(v, source)

(* transition_inactive: one active version, or every one of an assertion.  *)
Deactivatable(p, a, targets) ==
    /\ a \in assertions /\ a \in DOMAIN heads
    /\ targets # {} /\ targets \subseteq heads[a]
    /\ targets = heads[a] \/ Cardinality(targets) = 1
    /\ \A v \in targets : v \in Existing /\ AssertionOf(v) = a /\ ScopeOf(v) \in p

TransitionInactive(op, state, p, key, a, targets) ==
    /\ ~Recorded(op, key)
    /\ Deactivatable(p, a, targets)
    /\ AppendMutation(op, a, targets, {}, key)
    /\ heads' = WithHead(a, heads[a] \ targets)
    /\ life' = Moved(life, targets, state)
    /\ UNCHANGED <<assertions, versions, evidence, observations, reinforcements,
                   snapshots, plans, deletions>>

Forget(p, key, a, targets) == TransitionInactive("Forget", "Tombstoned", p, key, a, targets)
Retract(p, key, a, targets) == TransitionInactive("Retract", "Retracted", p, key, a, targets)

-----------------------------------------------------------------------------
(* Retention deletion: a plan, and its execution.                          *)

(* deletion_selector_matches: by the source of the evidence, or by the     *)
(* data subject of the scope.                                              *)
Matches(selector, scope, sources) ==
    \/ selector.kind = "Source" /\ selector.id \in sources
    \/ selector.kind = "DataSubject" /\ selector.id = SubjectOf[scope]

ReinforcedBy(v) == {r \in DOMAIN reinforcements : reinforcements[r].version = v}
EvidenceOf(owners) == {e \in evidence : e.owner \in owners}
FromSource(selector) == {e \in evidence : selector.kind = "Source" /\ e.source = selector.id}

(* A version is affected by its own evidence, by evidence that reinforced  *)
(* it, or by its data subject.                                             *)
DirectlyAffected(selector, v) ==
    \/ selector.kind = "Source" /\ EvidenceOf({v} \cup ReinforcedBy(v)) \cap FromSource(selector) # {}
    \/ selector.kind = "DataSubject" /\ Matches(selector, ScopeOf(v), {})

AffectedObservations(selector, p) ==
    {o \in DOMAIN observations :
        /\ observations[o].scope \in p
        /\ Matches(selector, observations[o].scope, {observations[o].source})}

(* A set the propagation has nothing to add to, within what the proof      *)
(* covers: it holds what is directly affected and what derives from it.    *)
Closed(S, selector, p) ==
    \A v \in Existing :
        /\ ScopeOf(v) \in p
        /\ \/ DirectlyAffected(selector, v)
           \/ versions[v].inputs \cap S # {}
           \/ versions[v].from \cap AffectedObservations(selector, p) # {}
        => v \in S

(* Versions are added until the set is closed: the least such set.         *)
AffectedVersions(selector, p) ==
    {v \in Existing : \A S \in SUBSET Existing : Closed(S, selector, p) => v \in S}

(* The evidence of the versions that are directly affected.                *)
OwnEvidence(selector, direct) ==
    IF selector.kind = "Source" THEN EvidenceOf(direct) \cap FromSource(selector)
    ELSE EvidenceOf(direct)

PlanFor(selector, p) ==
    LET vs == AffectedVersions(selector, p)
        os == AffectedObservations(selector, p)
        direct == {v \in vs : DirectlyAffected(selector, v)}
        rs == UNION {ReinforcedBy(v) : v \in vs}
    IN  [selector |-> selector, proof |-> p, at |-> seq, versions |-> vs,
         evidence |-> OwnEvidence(selector, direct) \cup EvidenceOf(os \cup rs), observations |-> os,
         reinforcements |-> rs,
         snapshots |-> {s.id : s \in {t \in snapshots : t.results \cap vs # {}}}]

PlanDeletion(selector, p) ==
    /\ Cardinality(plans) < MaxPlans
    /\ plans' = plans \cup {PlanFor(selector, p)}
    /\ UNCHANGED <<seq, log, rows, life, snapshots, deletions>>

(* A plausible bug: the sequence of the plan is not compared.              *)
NeverStale(plan) == TRUE

(* The plan must be of this proof and of this very sequence.               *)
Fresh(plan) == plan.at = seq

(* A plausible bug: an assertion goes with the first of its versions.      *)
Touched(gone) == {a \in assertions : \E v \in Existing \cap gone : AssertionOf(v) = a}

(* An assertion goes with the last of its versions.                        *)
Emptied(gone) == {a \in assertions :
    LET vs == {v \in Existing : AssertionOf(v) = a}
    IN  vs \cap gone # {} /\ vs \subseteq gone}

Without(f, gone) == [x \in DOMAIN f \ gone |-> f[x]]

(* A plan is executed by its own proof, at its own sequence, and only when *)
(* everything it names is still there.                                     *)
Executable(p, plan) ==
    /\ plan \in plans /\ plan.proof = p
    /\ Fresh(plan)
    /\ plan.evidence \subseteq evidence
    /\ plan.snapshots \subseteq {s.id : s \in snapshots}

(* What the plan names is removed, version by version and row by row.      *)
RemoveVersions(gone) ==
    /\ assertions' = assertions \ Emptied(gone)
    /\ heads' = [a \in DOMAIN heads \ Emptied(gone) |-> heads[a] \ gone]
    /\ versions' = Without(versions, gone)
    /\ life' = Moved(life, gone, "Tombstoned")

RemoveRecords(plan) ==
    /\ evidence' = evidence \ plan.evidence
    /\ observations' = Without(observations, plan.observations)
    /\ reinforcements' = Without(reinforcements, plan.reinforcements)
    /\ snapshots' = {s \in snapshots : s.id \notin plan.snapshots}

ExecuteDeletion(p, key, plan) ==
    /\ ~Recorded("RetentionDelete", key)
    /\ Executable(p, plan)
    /\ AppendMutation("RetentionDelete", None, plan.versions, {}, key)
    /\ RemoveVersions(plan.versions)
    /\ RemoveRecords(plan)
    /\ plans' = plans \ {plan}
    /\ deletions' = deletions \cup
           {[selector |-> plan.selector, proof |-> p, at |-> seq + 1, versions |-> plan.versions]}

-----------------------------------------------------------------------------
(* Behaviours.                                                             *)

NoRows == [x \in {} |-> x]

LedgerInit ==
    /\ seq = 0 /\ log = <<>>
    /\ assertions = {} /\ heads = NoRows /\ versions = NoRows /\ life = NoRows
    /\ evidence = {} /\ observations = NoRows /\ reinforcements = NoRows
    /\ snapshots = {} /\ plans = {} /\ deletions = {}

LedgerOperation(p) ==
    \/ \E k \in Keys("Observe"), s \in p, e \in Sources : Observe(p, k, s, e)
    \/ \E k \in Keys("Commit"), d \in Drafts : Remember(p, k, d)
    \/ \E k \in Keys("Correct"), d \in Drafts : Correct(p, k, d)
    \/ \E k \in Keys("Propose"), d \in Drafts, q \in BOOLEAN : Propose(p, k, d, q)
    \/ \E k \in Keys("Commit"), v \in Existing : CommitProposal(p, k, v)
    \/ \E k \in Keys("Reinforce"), v \in Existing, e \in Sources : Reinforce(p, k, v, e)
    \/ \E k \in Keys("Forget"), a \in assertions : Forget(p, k, a, HeadsOf(a))
    \/ \E k \in Keys("Retract"), a \in assertions : Retract(p, k, a, HeadsOf(a))
    \/ \E s \in Selectors : PlanDeletion(s, p)
    \/ \E k \in Keys("RetentionDelete"), plan \in plans : ExecuteDeletion(p, k, plan)

LedgerNext == seq < MaxSeq /\ \E p \in Proofs : LedgerOperation(p)

LedgerSpec == LedgerInit /\ [][LedgerNext]_ledgerVars

-----------------------------------------------------------------------------
(* Properties.                                                             *)

IsRows(f, keys, records) == DOMAIN f \subseteq keys /\ \A x \in DOMAIN f : f[x] \in records

LedgerTypeOK ==
    /\ seq \in 0..MaxSeq
    /\ log \in Seq(Mutations) /\ Len(log) = seq
    /\ assertions \subseteq Assertions
    /\ IsRows(heads, Assertions, SUBSET Ids)
    /\ IsRows(versions, 1..seq, Versions)
    /\ \A v \in DOMAIN life : v \in 1..seq /\ life[v] \in Seq(Transitions)
    /\ evidence \subseteq EvidenceRecords
    /\ IsRows(observations, 1..seq, Observations)
    /\ IsRows(reinforcements, 1..seq, Reinforcements)
    /\ snapshots \subseteq Snapshots
    /\ plans \subseteq Plans

(* The heads are exactly the active versions: an assertion row has a head  *)
(* row and the other way round, every head version exists and is active,   *)
(* and no active version is left out of its head.  Every read through a    *)
(* head reports CorruptState otherwise.                                    *)
HeadsAgree ==
    /\ DOMAIN heads = assertions
    /\ \A v \in Existing : AssertionOf(v) \in assertions
    /\ \A a \in assertions :
           heads[a] = {v \in Existing : AssertionOf(v) = a /\ Current(v) = "Active"}

(* A retention deletion is final for what its proof covers: no version or  *)
(* observation it selects exists afterwards, whether it was missed by the  *)
(* plan or imported again, and nothing older that survives was derived     *)
(* from what it removed.                                                   *)
DeletionFinal ==
    \A d \in deletions :
        /\ \A v \in Existing : ScopeOf(v) \in d.proof => ~DirectlyAffected(d.selector, v)
        /\ AffectedObservations(d.selector, d.proof) = {}
        /\ \A v \in Existing : ScopeOf(v) \in d.proof => versions[v].inputs \cap d.versions = {}

(* The rows a view is built from are there for every version that exists:  *)
(* its evidence, and its reinforcements with theirs.                       *)
ViewsComplete ==
    /\ \A v \in Existing :
           EvidenceOf({v}) = [owner : {v}, source : versions[v].draft.sources]
    /\ \A r \in DOMAIN reinforcements :
           /\ reinforcements[r].version \in Existing
           /\ EvidenceOf({r}) = [owner : {r}, source : {reinforcements[r].source}]

(* A candidate the context firewall objects to is never active, however it *)
(* was proposed and whoever commits it.                                    *)
FlaggedNeverActive ==
    \A v \in Existing : versions[v].draft.flagged =>
        \A i \in DOMAIN life[v] : life[v][i].state # "Active"

(* A superseded version was superseded by a version of at least its own    *)
(* authority that names it as its parent, as long as that one exists.      *)
SupersededHasSuccessor ==
    \A v \in Existing : Current(v) = "Superseded" =>
        \E w \in DOMAIN life :
            /\ \E n \in DOMAIN log : w \in log[n].out /\ v \in log[n].in
            /\ w \in Existing => versions[w].draft.rank >= versions[v].draft.rank
                                 /\ v \in versions[w].parents

(* A key and an operation name one mutation: a request that is sent again  *)
(* never commits twice.                                                    *)
OneMutationPerKey ==
    \A m, n \in DOMAIN log : log[m].op = log[n].op /\ log[m].key = log[n].key => m = n

(* What was known at a past sequence never changes, except that a          *)
(* retention deletion takes its versions out of every view.                *)
PastIsFixed ==
    [][\A n \in 0..seq, p \in Proofs :
          AsOf(p, n)' = AsOf(p, n) \ (Existing \ Existing')]_ledgerVars

(* The rows of the memory ledger agree after every sequence of commits,    *)
(* observations, reinforcements, corrections, retractions and deletions:   *)
(* heads, views, lifecycle, evidence and receipts tell one history, and    *)
(* what was deleted stays deleted.                                         *)
LedgerConsistent ==
    /\ LedgerTypeOK
    /\ HeadsAgree
    /\ DeletionFinal
    /\ ViewsComplete
    /\ FlaggedNeverActive
    /\ SupersededHasSuccessor
    /\ OneMutationPerKey
=============================================================================
