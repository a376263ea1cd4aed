---------------------------- MODULE MemoryGateway ----------------------------
(***************************************************************************)
(* The handlers of the memory service (grpc-server/src/memory.rs) as their *)
(* callers meet them.  A handler authorises its caller, resolves what the  *)
(* request names, calls the ledger once, brings the projections up to the  *)
(* ledger, and answers.  The ledger is locked for each of these calls and  *)
(* not between them, and an answer may be lost after the ledger has        *)
(* committed: callers then send the same request again under the same      *)
(* idempotency key.  How the projections catch up is MemoryRecall's.       *)
(* Servers of different builds are started over the same store.            *)
(***************************************************************************)
EXTENDS MemoryReads

CONSTANTS
    Callers,       \* principals with one idempotency key each, named by it
    ProofOf,       \* the scopes the access proof of a caller covers
    Granted,       \* the capabilities of a caller
    RequestPool,   \* the requests callers send
    Builds,        \* server builds: the projection set and the build of their manifests
    MaxSends,      \* bound: requests of a caller
    MaxRestarts    \* bound: restarts of the service

Drafted == {"Commit", "Correct", "Propose"}
Inactivating == {"Forget", "Retract"}
Reading == {"Get", "History", "Export", "Recall", "Explain", "Replay", "PlanDeletion"}

(* What the handler makes of a request before it reaches the ledger's      *)
(* records: there is no key, a field does not parse, its scope is not the  *)
(* caller's (another agent's, or not for the purpose of the call), or the  *)
(* ledger's validation refuses it.                                         *)
Forms == {"good", "keyless", "malformed", "foreign", "rejected"}

(* The requests.  Empty heads are heads the caller left out; version 0 is  *)
(* a request that names an assertion.                                      *)
RequestSet ==
    [op : {"Observe"}, form : Forms, scope : Scopes, source : Sources]
    \cup [op : Drafted, form : Forms, draft : DraftSet, deriv : (SUBSET Ids) \X (SUBSET Ids), heads : SUBSET Ids]
    \cup [op : {"CommitProposal"}, form : Forms, version : Ids, heads : SUBSET Ids]
    \cup [op : {"Reinforce"}, form : Forms, version : Ids, source : Sources]
    \cup [op : Inactivating, form : Forms, assertion : Assertions, version : {0} \cup Ids, heads : SUBSET Ids]
    \cup [op : {"PlanDeletion", "RetentionDelete"}, form : Forms, selector : Selectors, at : 0..MaxSeq]
    \cup [op : {"Get"}, form : Forms, assertion : Assertions, barrier : 0..MaxSeq]
    \cup [op : {"History", "Export"}, form : Forms, assertion : Assertions]
    \cup [op : {"Recall"}, form : Forms, at : 0..MaxSeq]
    \cup [op : {"Explain", "Replay"}, form : Forms, snapshot : Nat, mode : {"retained", "again"}]

ASSUME GatewayAssumption ==
    /\ Callers \subseteq Ids /\ RequestPool \subseteq RequestSet
    /\ {MaxSends, MaxRestarts} \subseteq Nat
    /\ \A c \in Callers : ProofOf[c] \in Proofs
    /\ Builds \subseteq [set : Nat, build : Nat] /\ Builds # {}

VARIABLES
    call,       \* the call of each caller: where it is, and what it was told
    prints,     \* canonical_request_sha256 of each mutation
    shown,      \* the sequence every projection has applied
    running,    \* the build that serves, or None
    manifests,  \* the manifest registered for each projection set
    active,     \* the active projection set's manifest
    makers,     \* the manifest each snapshot was made under
    restarts

serverVars == <<running, manifests, active, makers, restarts>>
gatewayVars == <<call, prints, shown, serverVars>>

(* The capability a handler asks for.                                      *)
CapabilityOf ==
    [Observe |-> "memory.observe", Propose |-> "memory.propose", Commit |-> "memory.remember",
     CommitProposal |-> "memory.remember", Reinforce |-> "memory.remember", Correct |-> "memory.correct",
     Retract |-> "memory.retract", Forget |-> "memory.forget", Get |-> "memory.read",
     History |-> "memory.history", Export |-> "memory.export", Explain |-> "memory.recall", Recall |-> "memory.recall", Replay |-> "memory.replay",
     PlanDeletion |-> "memory.delete.plan", RetentionDelete |-> "memory.delete.execute"]

NoCall == [pc |-> "idle", sends |-> 0]

(* A call at its end.  at: the sequence it tells of; told: the versions it *)
(* returns; retained: those of the snapshot it was compared with.          *)
Answered(k, status, at, told) ==
    [k EXCEPT !.pc = "answered", !.status = status, !.at = at, !.told = told]
Refused(k, status) == Answered(k, status, 0, {})

-----------------------------------------------------------------------------
(* Admission: memory_auth_context, required_context, authorize, and the    *)
(* building of the ledger's request.                                       *)

Send(c, r) ==
    /\ call[c].pc \in {"idle", "answered"} /\ call[c].sends < MaxSends
    /\ call' = [call EXCEPT ![c] =
           [pc |-> "received", sends |-> @.sends + 1, req |-> r, assertion |-> None, heads |-> {},
            status |-> "none", at |-> 0, told |-> {}, retained |-> {}]]
    /\ UNCHANGED <<prints, shown, serverVars, reader, ledgerVars>>

(* required_context: only mutations need a key.                            *)
NeedsKey(r) == r.op \notin Reading

(* build_scope: the record is the delegated agent's own, for the purpose   *)
(* of the call.                                                            *)
ScopeFits(r) == r.form # "foreign"

(* authorize_commit of the ledger, and its like: the scope of a new record *)
(* is within the proof.                                                    *)
OwnScope(c, r) ==
    /\ r.op = "Observe" => r.scope \in ProofOf[c]
    /\ r.op \in Drafted => r.draft.scope \in ProofOf[c]

(* The heads a request states are taken as they are.                       *)
AfterTarget(r) == IF r.heads = {} THEN "heads" ELSE "execute"

Admitted(k) ==
    LET r == k.req
    IN  IF r.op \in Reading THEN [k EXCEPT !.pc = "sequence"]
        ELSE IF r.op \in Inactivating
        THEN [k EXCEPT !.pc = IF r.version # 0 THEN "target" ELSE AfterTarget(r),
                       !.assertion = IF r.version # 0 THEN None ELSE r.assertion, !.heads = r.heads]
        ELSE [k EXCEPT !.pc = "execute"]

Admit(c) ==
    /\ call[c].pc = "received"
    /\ LET r == call[c].req
       IN  call' = [call EXCEPT ![c] =
               IF r.form = "keyless" /\ NeedsKey(r) THEN Refused(@, "Invalid")
               ELSE IF CapabilityOf[r.op] \notin Granted[c] THEN Refused(@, "Denied")
               ELSE IF r.form = "malformed" THEN Refused(@, "Invalid")
               ELSE IF ~ScopeFits(r) \/ ~OwnScope(c, r) THEN Refused(@, "Denied")
               ELSE Admitted(@)]
    /\ UNCHANGED <<prints, shown, serverVars, reader, ledgerVars>>

-----------------------------------------------------------------------------
(* Retract and Forget look their target up, and then its heads, before     *)
(* they call the ledger: two reads, each under the lock of its own.        *)

SeesPast(c) == Granted[c] \cap {"memory.history", "memory.replay"} # {}

(* map_read_error: what is not there and what is not shown are one answer. *)
ReadTarget(c) ==
    /\ call[c].pc = "target"
    /\ LET v == call[c].req.version
           view == GetVersionView(ProofOf[c], v, SeesPast(c))
       IN  call' = [call EXCEPT ![c] =
               IF view = "Absent" THEN Refused(@, "NotFound")
               ELSE IF view = "Corrupt" THEN Refused(@, "Internal")
               ELSE [@ EXCEPT !.pc = AfterTarget(call[c].req), !.assertion = AssertionOf(v)]]
    /\ UNCHANGED <<prints, shown, serverVars, reader, ledgerVars>>

ReadHeads(c) ==
    /\ call[c].pc = "heads"
    /\ LET a == call[c].assertion
           head == GetHead(ProofOf[c], a)
       IN  call' = [call EXCEPT ![c] =
               IF head = "Absent" THEN Refused(@, "NotFound")
               ELSE IF head = "Corrupt" THEN Refused(@, "Internal")
               ELSE [@ EXCEPT !.pc = "execute", !.heads = heads[a]]]
    /\ UNCHANGED <<prints, shown, serverVars, reader, ledgerVars>>

-----------------------------------------------------------------------------
(* The ledger's critical section.                                          *)

LedgerOp(r) == IF r.op = "CommitProposal" THEN "Commit" ELSE r.op

(* The canonical request: what was asked, with the heads that were filled  *)
(* in.  The time and the policy decision of an attempt are not part of it. *)
Fingerprint(k) == [req |-> k.req, heads |-> k.heads]

RecordOf(op, key) == CHOOSE n \in DOMAIN log : log[n].op = op /\ log[n].key = key

(* The ledger validates a request before it takes its lock.                *)
Accepted(r) == r.form # "rejected"

RejectInvalid(c) ==
    /\ call[c].pc = "execute" /\ ~Accepted(call[c].req)
    /\ call' = [call EXCEPT ![c] = Refused(@, "Invalid")]
    /\ UNCHANGED <<prints, shown, serverVars, reader, ledgerVars>>

(* A key that was used is answered from its record.                        *)
AnswerFromRecord(c) ==
    /\ call[c].pc = "execute" /\ Accepted(call[c].req)
    /\ LET r == call[c].req
           n == RecordOf(LedgerOp(r), c)
           lost == r.op = "RetentionDelete" /\ \E d \in deletions : d.at = n /\ RetriedDeletion(d) # "Duplicate"
       IN  /\ Recorded(LedgerOp(r), c)
           /\ call' = [call EXCEPT ![c] =
                  IF prints[n] # Fingerprint(@) THEN Refused(@, "Conflict")
                  ELSE IF lost THEN Refused(@, "Internal")
                  ELSE [@ EXCEPT !.pc = "catch_up", !.status = "Duplicate", !.at = n]]
    /\ UNCHANGED <<prints, shown, serverVars, reader, ledgerVars>>

(* A plausible bug: the expected heads are not compared.                   *)
AnyHeads(expected, a) == TRUE

(* ExpectedHeadConflict otherwise; no heads are expected where none are.   *)
HeadsAre(expected, a) == expected = HeadsOf(a)

InitialState(r) ==
    IF r.op # "Propose" THEN "Active" ELSE IF r.draft.flagged THEN "Quarantined" ELSE "Proposed"
EndState == [Forget |-> "Tombstoned", Retract |-> "Retracted"]
Targets(k) == IF k.req.version # 0 THEN {k.req.version} ELSE HeadsOf(k.assertion)
PlansNamed(c, r) == {plan \in plans : plan.selector = r.selector /\ plan.at = r.at}

(* map_ledger_error: what a caller is told of an error of the ledger.      *)
StatusOf ==
    [UnauthorizedAccess |-> "Denied", TargetNotActive |-> "NotFound", DeletionPlanNotFound |-> "NotFound",
     ExpectedHeadConflict |-> "HeadConflict", QUARANTINED |-> "Precondition",
     DELETION_TOMBSTONE |-> "Precondition", DeletionPlanStale |-> "Precondition"]

(* The checks of the ledger in their order, each with the error it raises. *)
DraftChecks(c, r) ==
    << <<Importable(r.draft.scope, r.draft.sources), "DELETION_TOMBSTONE">>,
       <<HeadsAre(r.heads, r.draft.assertion), "ExpectedHeadConflict">>,
       <<PassesFirewall(r.draft, InitialState(r)), "QUARANTINED">>,
       <<InitialState(r) = "Active" => \A v \in HeadsOf(r.draft.assertion) : r.draft.rank >= versions[v].draft.rank,
         "QUARANTINED">>,
       <<r.deriv \in Derivations /\ (r.deriv \in Derivations => MayDerive(ProofOf[c], r.deriv)), "UnauthorizedAccess">> >>

ProposalChecks(c, r) ==
    LET v == r.version
        there == v \in Existing
    IN  << <<there, "TargetNotActive">>,
           <<there => ScopeOf(v) \in ProofOf[c], "UnauthorizedAccess">>,
           <<there => Current(v) # "Quarantined", "QUARANTINED">>,
           <<there => Current(v) = "Proposed", "TargetNotActive">>,
           <<there => HeadsAre(r.heads, AssertionOf(v)) /\ HeadsAre(versions[v].parents, AssertionOf(v)), "ExpectedHeadConflict">>,
           <<there => Committable(ProofOf[c], v), "QUARANTINED">> >>

ReinforceChecks(c, r) ==
    LET v == r.version
        there == v \in Existing
    IN  << <<there, "TargetNotActive">>,
           <<there => ScopeOf(v) \in ProofOf[c], "UnauthorizedAccess">>,
           <<there => Current(v) = "Active", "TargetNotActive">>,
           <<there => Importable(ScopeOf(v), {r.source}), "DELETION_TOMBSTONE">> >>

InactiveChecks(c, k) ==
    << <<k.assertion \in assertions, "TargetNotActive">>,
       <<HeadsAre(k.heads, k.assertion), "ExpectedHeadConflict">>,
       <<Targets(k) # {} /\ Targets(k) \subseteq HeadsOf(k.assertion), "TargetNotActive">>,
       <<\A v \in Targets(k) \cap Existing : ScopeOf(v) \in ProofOf[c], "UnauthorizedAccess">> >>

DeletionChecks(c, r) ==
    << <<PlansNamed(c, r) # {}, "DeletionPlanNotFound">>,
       <<\A plan \in PlansNamed(c, r) : plan.proof = ProofOf[c], "UnauthorizedAccess">>,
       <<\A plan \in PlansNamed(c, r) : Executable(plan.proof, plan), "DeletionPlanStale">> >>

Checks(c) ==
    LET r == call[c].req
    IN  CASE r.op = "Observe" -> << <<Importable(r.scope, {r.source}), "DELETION_TOMBSTONE">> >>
          [] r.op \in Drafted -> DraftChecks(c, r)
          [] r.op = "CommitProposal" -> ProposalChecks(c, r)
          [] r.op = "Reinforce" -> ReinforceChecks(c, r)
          [] r.op \in Inactivating -> InactiveChecks(c, call[c])
          [] r.op = "RetentionDelete" -> DeletionChecks(c, r)

Failed(c) == {i \in DOMAIN Checks(c) : ~Checks(c)[i][1]}

RefuseNew(c) ==
    /\ call[c].pc = "execute" /\ Accepted(call[c].req) /\ ~Recorded(LedgerOp(call[c].req), c)
    /\ Failed(c) # {}
    /\ LET first == CHOOSE i \in Failed(c) : \A j \in Failed(c) : i <= j
       IN  call' = [call EXCEPT ![c] = Refused(@, StatusOf[Checks(c)[first][2]])]
    /\ UNCHANGED <<prints, shown, serverVars, reader, ledgerVars>>

LedgerStep(c) ==
    LET r == call[c].req
        p == ProofOf[c]
    IN  \/ r.op = "Observe" /\ Observe(p, c, r.scope, r.source)
        \/ r.op \in Drafted /\ CommitVersion(r.op, InitialState(r), p, c, r.draft, r.deriv)
        \/ r.op = "CommitProposal" /\ CommitProposal(p, c, r.version)
        \/ r.op = "Reinforce" /\ Reinforce(p, c, r.version, r.source)
        \/ /\ r.op \in Inactivating
           /\ TransitionInactive(r.op, EndState[r.op], p, c, call[c].assertion, Targets(call[c]))
        \/ /\ r.op = "RetentionDelete"
           /\ \E plan \in PlansNamed(c, r) : ExecuteDeletion(p, c, plan)

(* The mutation and its idempotency record are written in one batch.       *)
CommitNew(c) ==
    /\ call[c].pc = "execute" /\ Accepted(call[c].req) /\ seq < MaxSeq
    /\ Failed(c) = {}
    /\ LedgerStep(c)
    /\ prints' = Append(prints, Fingerprint(call[c]))
    /\ call' = [call EXCEPT ![c].pc = "catch_up", ![c].status = "Committed", ![c].at = seq + 1]
    /\ UNCHANGED <<shown, serverVars, reader>>

-----------------------------------------------------------------------------
(* catch_up_preview_projections and preview_visibility_at.  They fail when *)
(* the store does: the caller is told of an error, and the mutation has    *)
(* been committed.                                                         *)

CatchUp(c) ==
    /\ call[c].pc = "catch_up"
    /\ shown' = seq
    /\ call' = [call EXCEPT ![c].pc = "answered"]
    /\ UNCHANGED <<prints, serverVars, reader, ledgerVars>>

CatchUpFails(c) ==
    /\ call[c].pc = "catch_up"
    /\ call' = [call EXCEPT ![c] = Refused(@, "Unavailable")]
    /\ UNCHANGED <<prints, shown, serverVars, reader, ledgerVars>>

-----------------------------------------------------------------------------
(* Reads.  The sequence is read first, in a call of its own.               *)

(* enforce_barrier and resolve_temporal_query: nothing of the future; a    *)
(* recall first brings the projections up.                                 *)
Barrier(r) ==
    /\ r.op = "Get" => r.barrier <= seq
    /\ r.op = "Recall" => r.at <= seq

ReadSequence(c) ==
    /\ call[c].pc = "sequence"
    /\ LET r == call[c].req
       IN  /\ call' = [call EXCEPT ![c] = IF Barrier(r) THEN [@ EXCEPT !.pc = "read", !.at = seq]
                                          ELSE Refused(@, "Precondition")]
           /\ shown' = IF r.op = "Recall" THEN seq ELSE shown
    /\ UNCHANGED <<prints, serverVars, reader, ledgerVars>>

(* Get of an assertion: the newest of the versions active now.             *)
Newest(vs) == {v \in vs : \A w \in vs : w <= v}
GetAnswer(c, k) ==
    LET found == Newest({v \in AsOf(ProofOf[c], seq) : AssertionOf(v) = k.req.assertion})
    IN  Answered(k, IF found = {} THEN "NotFound" ELSE "Found", k.at, found)

(* The versions of a history; its sequence is read once more afterwards.   *)
HistoryAnswer(c, k) ==
    LET vs == HistoryVersions(ProofOf[c], k.req.assertion)
    IN  Answered(k, IF vs = {} THEN "NotFound" ELSE "Found", seq, vs)

(* A recall is stored as a snapshot before it is answered.                 *)
RecallAnswer(c, k) == [k EXCEPT !.pc = "store", !.at = k.req.at, !.told = AsOf(ProofOf[c], k.req.at)]

(* access_scope_sha256: the data scope of a proof, whatever capability or  *)
(* credential it was issued for.                                           *)
ScopeDigest(c) == ProofOf[c]

(* get_recall_snapshot: shown to the scope that made it.                   *)
SnapshotsShown(c, id) == {s \in snapshots : s.id = id /\ s.proof = ScopeDigest(c)}

(* The artifacts of a snapshot are retained while its manifest is the one  *)
(* that is registered, and the one the server runs.                        *)
ArtifactsRetained(s) ==
    /\ makers[s.id].set \in DOMAIN manifests
    /\ manifests[makers[s.id].set] = makers[s.id] /\ running = makers[s.id]

(* recall_mismatch_fields is empty.                                        *)
Reproduced(s, again) == again = s.results

(* replay_recall: the retained answer, or the recall executed again as it  *)
(* was known, compared with what is retained.                              *)
ReplayAnswer(c, k, s) ==
    LET again == AsOf(ProofOf[c], s.at)
    IN  IF k.req.mode = "retained" THEN Answered(k, "ExactMatch", s.at, s.results)
        ELSE IF ~ArtifactsRetained(s) THEN Answered(k, "ArtifactExpired", s.at, s.results)
        ELSE [Answered(k, IF Reproduced(s, again) THEN "ExactMatch" ELSE "Mismatch", s.at, again)
                 EXCEPT !.retained = s.results]

(* explain_recall: what was stored with the recall.                        *)
ExplainAnswer(k, s) == Answered(k, "Explained", s.at, s.results)

SnapshotAnswer(c, k) ==
    LET found == SnapshotsShown(c, k.req.snapshot)
        s == CHOOSE t \in found : TRUE
    IN  IF found = {} THEN Refused(k, "NotFound")
        ELSE IF k.req.op = "Explain" THEN ExplainAnswer(k, s) ELSE ReplayAnswer(c, k, s)

(* The versions of an export; its limits are MemoryReads'.                 *)
ExportAnswer(c, k) == Answered(k, "Found", k.at, ExportedVersions(ProofOf[c]))

ReadRecords(c) ==
    /\ call[c].pc = "read" /\ call[c].req.op # "PlanDeletion"
    /\ LET op == call[c].req.op
       IN  call' = [call EXCEPT ![c] = CASE op = "Get" -> GetAnswer(c, @)
                                         [] op = "History" -> HistoryAnswer(c, @)
                                         [] op = "Recall" -> RecallAnswer(c, @)
                                         [] op = "Export" -> ExportAnswer(c, @)
                                         [] op \in {"Explain", "Replay"} -> SnapshotAnswer(c, @)]
    /\ UNCHANGED <<prints, shown, serverVars, reader, ledgerVars>>

(* validate_recall_snapshot_draft, and validate_recall_snapshot when it is *)
(* read: nothing beyond what was visible.                                  *)
SnapshotFits(s) == s.at <= shown /\ s.results \subseteq Ids

StoreRecall(c) ==
    /\ call[c].pc = "store"
    /\ LET used == {s.id : s \in snapshots}
           id == CHOOSE i \in 0..Cardinality(used) : i \notin used
           s == [id |-> id, results |-> call[c].told, at |-> call[c].at, proof |-> ScopeDigest(c)]
       IN  /\ SnapshotFits(s) /\ snapshots' = snapshots \cup {s}
           /\ makers' = [i \in DOMAIN makers \cup {id} |-> IF i = id THEN running ELSE makers[i]]
    /\ call' = [call EXCEPT ![c] = Answered(@, "Recalled", @.at, @.told)]
    /\ UNCHANGED <<prints, shown, running, manifests, active, restarts, reader, seq, log, rows, life, plans, deletions>>

(* plan_deletion.                                                          *)
PlanCall(c) ==
    /\ call[c].pc = "read" /\ call[c].req.op = "PlanDeletion"
    /\ PlanDeletion(call[c].req.selector, ProofOf[c])
    /\ call' = [call EXCEPT ![c] = Answered(@, "Planned", seq, {})]
    /\ UNCHANGED <<prints, shown, serverVars, reader>>

-----------------------------------------------------------------------------
(* Behaviours.                                                             *)

(* The service stops at any point: calls are lost, the store is not.       *)
Stop ==
    /\ running # None /\ restarts < MaxRestarts
    /\ running' = None /\ restarts' = restarts + 1
    /\ call' = [c \in Callers |-> IF call[c].pc \in {"idle", "answered"} THEN call[c] ELSE Refused(call[c], "Unavailable")]
    /\ UNCHANGED <<prints, shown, manifests, active, makers, reader, ledgerVars>>

(* register_projection_set: a set is bound to the first manifest it gets.  *)
Registers(b) == b.set \in DOMAIN manifests => manifests[b.set] = b
Registered(b) == [n \in DOMAIN manifests \cup {b.set} |-> IF n = b.set THEN b ELSE manifests[n]]

(* activate_projection_set: a set that is registered, whose projections    *)
(* are ready and have applied the whole ledger.                            *)
Activates(b, known, applied) == b.set \in DOMAIN known /\ known[b.set] = b /\ applied >= seq

(* get_active_projection_set: the pointer, resolved.                       *)
ActiveSet ==
    IF active = None THEN "Absent"
    ELSE IF active.set \in DOMAIN manifests /\ manifests[active.set] = active THEN "Found" ELSE "CorruptState"

(* MemoryServiceImpl::new: register, catch up, activate; a build that is   *)
(* refused does not serve.                                                 *)
Start(b) ==
    /\ running = None /\ Registers(b)
    /\ manifests' = Registered(b) /\ shown' = seq
    /\ Activates(b, Registered(b), seq) /\ active' = b /\ running' = b
    /\ UNCHANGED <<call, prints, makers, restarts, reader, ledgerVars>>

GatewayInit ==
    /\ call = [c \in Callers |-> NoCall]
    /\ prints = <<>> /\ shown = 0 /\ restarts = 0
    /\ running = None /\ manifests = NoRows /\ active = None /\ makers = NoRows

HandlerStep(c) ==
    \/ Admit(c) \/ ReadTarget(c) \/ ReadHeads(c)
    \/ RejectInvalid(c) \/ AnswerFromRecord(c) \/ RefuseNew(c) \/ CommitNew(c) \/ CatchUp(c) \/ CatchUpFails(c)
    \/ ReadSequence(c) \/ ReadRecords(c) \/ StoreRecall(c) \/ PlanCall(c)

GatewayNext ==
    \/ running # None /\ \E c \in Callers : HandlerStep(c) \/ \E r \in RequestPool : Send(c, r)
    \/ Stop
    \/ \E b \in Builds : Start(b)

-----------------------------------------------------------------------------
(* Properties.                                                             *)

Told(status) == {c \in Callers : call[c].pc = "answered" /\ call[c].status \in status}

(* A receipt, first or repeated, is of a mutation of the caller's own key  *)
(* that did what its request says, over the heads it stated, and that      *)
(* every projection shows.                                                 *)
ReceiptsTrue ==
    \A c \in Told({"Committed", "Duplicate"}) :
        LET k == call[c]
            m == log[k.at]
        IN  /\ m.key = c /\ m.op = LedgerOp(k.req) /\ prints[k.at] = Fingerprint(k)
            /\ k.at <= shown
            /\ k.req.op \in Drafted \cup {"CommitProposal"} => m.in = k.req.heads
            /\ k.req.op \in Inactivating /\ k.req.heads # {} => m.in \subseteq k.req.heads

(* Retract and Forget are looked up before the key is: one that names a    *)
(* version, or leaves its heads out, may not find itself when it is sent   *)
(* again.                                                                  *)
RetrySafe(r) == r.op \in Inactivating => r.version = 0 /\ r.heads # {}

(* A caller that is refused has committed nothing by that request, in any  *)
(* of its attempts; a key that is in conflict was used for something else. *)
RefusalsTrue ==
    /\ \A c \in Told({"Invalid", "Denied", "NotFound", "HeadConflict", "Precondition"}) :
           NeedsKey(call[c].req) /\ RetrySafe(call[c].req) =>
               ~\E n \in DOMAIN log : log[n].key = c /\ prints[n].req = call[c].req
    /\ \A c \in Told({"Conflict"}) :
           \E n \in DOMAIN log : log[n].key = c /\ prints[n] # Fingerprint(call[c])

(* Read your writes: what Get returns had not been replaced or withdrawn   *)
(* by the sequence the caller asked it to include.                         *)
GetsFresh ==
    \A c \in Told({"Found"}) : call[c].req.op = "Get" =>
        \A v \in call[c].told : LifecycleAt(v, call[c].req.barrier) \in {None, "Proposed", "Active"}

(* A replay that differs from its snapshot differs by what a retention     *)
(* deletion removed, and by nothing else.                                  *)
ReplaysTrue ==
    \A c \in Told({"Mismatch"}) :
        LET k == call[c]
        IN  /\ k.told \subseteq k.retained
            /\ k.retained \ k.told \subseteq UNION {d.versions : d \in deletions}

(* The pointer to the active projection set resolves, to the manifest the  *)
(* server runs.  A snapshot can be read again, and the manifest it names   *)
(* is kept, whatever is started later.                                     *)
ManifestsAgree ==
    /\ ActiveSet # "CorruptState"
    /\ running # None => ActiveSet = "Found" /\ active = running
    /\ \A s \in snapshots :
           LET b == makers[s.id] IN SnapshotFits(s) /\ b.set \in DOMAIN manifests /\ manifests[b.set] = b

(* Callers of the memory service are told what happened: receipts,         *)
(* refusals, reads and replays agree with the ledger across concurrent     *)
(* callers, lost answers, repeated requests and restarts.                  *)
AnswersTrue == ReceiptsTrue /\ RefusalsTrue /\ GetsFresh /\ ReplaysTrue /\ ManifestsAgree

(* What the memory service tells its callers, in the answers of its        *)
(* handlers and in the records it reads for them, is what the ledger did.  *)
ServiceExact == ReadsExact /\ AnswersTrue
=============================================================================
