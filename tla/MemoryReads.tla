----------------------------- MODULE MemoryReads -----------------------------
(***************************************************************************)
(* What callers read of the ledger: single records, the history of an      *)
(* assertion, an export, and the receipt of a deletion that is asked for   *)
(* again (storage/src/memory.rs).  Reads take the same transition lock as  *)
(* the mutations, so each is a function of one state.  They check what     *)
(* they find, and report CorruptState when a row that must be there is     *)
(* missing; a proof that does not cover a record is told it is absent.     *)
(***************************************************************************)
EXTENDS MemoryLedger

CONSTANT ExportLimits    \* the limits callers give an export

ASSUME ExportLimits \subseteq Nat \ {0}

VARIABLE reader          \* the proof a caller reads under, while it holds the lock, or None

(* The reader looks at everything its proof lets it ask for, and leaves.   *)
TakeLock(p) == reader = None /\ reader' = p /\ UNCHANGED ledgerVars
ReleaseLock == reader # None /\ reader' = None /\ UNCHANGED ledgerVars

ReadsInit == LedgerInit /\ reader = None
ReadsNext ==
    \/ reader = None /\ LedgerNext /\ UNCHANGED reader
    \/ \E p \in Proofs : TakeLock(p)
    \/ ReleaseLock

Readers == {reader} \ {None}

-----------------------------------------------------------------------------
(* Single records.                                                         *)

(* A record that is there, and its scope against the proof.                *)
Shown(p, scope) == IF scope \in p THEN "Found" ELSE "Absent"

GetObservation(p, o) ==
    IF o \notin DOMAIN observations THEN "Absent" ELSE Shown(p, observations[o].scope)

GetVersion(p, v) == IF v \notin Existing THEN "Absent" ELSE Shown(p, ScopeOf(v))

(* get_head: visible through any of its active versions.                   *)
GetHead(p, a) ==
    IF a \notin DOMAIN heads THEN "Absent"
    ELSE IF ~(heads[a] \subseteq Existing) THEN "Corrupt"
    ELSE IF \E v \in heads[a] : ScopeOf(v) \in p THEN "Found" ELSE "Absent"

(* get_assertion: an assertion without a head is corrupt.                  *)
GetAssertion(p, a) ==
    IF a \notin assertions THEN "Absent"
    ELSE IF a \notin DOMAIN heads THEN "Corrupt" ELSE GetHead(p, a)

(* load_derivation: the record of v itself; its inputs are not followed.   *)
DerivationLoads(v) == v \in Existing

(* load_relations_for_version: one row for every head a version replaced,  *)
(* filed under both; the rows outlive a retention deletion.                *)
Relations(v) ==
    {r \in UNION {log[n].out \X log[n].in : n \in {m \in DOMAIN log : log[m].op \in {"Commit", "Correct"}}} :
        v \in {r[1], r[2]}}

(* build_version_view: what a view is made of is there.                    *)
ViewBuilds(v) ==
    /\ AssertionOf(v) \in assertions
    /\ v \in DOMAIN life
    /\ [owner : {v}, source : versions[v].draft.sources] \subseteq evidence
    /\ DerivationLoads(v)

(* get_version_view: only the history and replay capabilities see a        *)
(* version that is not active.                                             *)
GetVersionView(p, v, past) ==
    IF GetVersion(p, v) = "Absent" THEN "Absent"
    ELSE IF ~ViewBuilds(v) THEN "Corrupt"
    ELSE IF Current(v) = "Active" \/ past THEN "Found" ELSE "Absent"

(* get_mutation: visible through the first version it names.  A deletion   *)
(* names its execution where other mutations name versions, so the look-up *)
(* of that version fails.                                                  *)
GetMutation(p, n) ==
    LET m == log[n]
        named == IF m.out # {} THEN m.out ELSE m.in
        first == CHOOSE v \in named : \A w \in named : v <= w
    IN  IF m.op = "Observe"
        THEN IF n \in DOMAIN observations THEN GetObservation(p, n) ELSE "Corrupt"
        ELSE IF m.op = "RetentionDelete" THEN "Corrupt"
        ELSE IF first \in Existing THEN GetVersion(p, first) ELSE "Corrupt"

-----------------------------------------------------------------------------
(* The history of an assertion.                                            *)

(* sequence_in_range.                                                      *)
InRange(n, from, to) == from <= n /\ n <= to

(* The versions the proof covers, whatever their state.                    *)
HistoryVersions(p, a) == {v \in Existing : AssertionOf(v) = a /\ ScopeOf(v) \in p}

(* list_history, unlimited: the transitions of those versions in the       *)
(* range, and every mutation of the assertion in the range.                *)
ListHistory(p, a, from, to) ==
    LET vs == HistoryVersions(p, a)
    IN  [versions |-> vs,
         transitions |-> {t \in UNION {{<<v, i>> : i \in DOMAIN life[v]} : v \in vs} :
                              InRange(life[t[1]][t[2]].at, from, to)},
         mutations |-> {n \in DOMAIN log : log[n].assertion = a /\ InRange(n, from, to)},
         relations |-> UNION {Relations(v) : v \in vs}]

-----------------------------------------------------------------------------
(* An export: records by type and identity, gathered group by group.       *)

(* A version with everything its view holds.                               *)
VersionGroup(v) ==
    LET rs == ReinforcedBy(v)
    IN  {<<"version", v>>, <<"assertion", AssertionOf(v)>>, <<"policy_decision", v>>}
        \cup {<<"lifecycle_transition", <<v, life[v][i].at>>>> : i \in DOMAIN life[v]}
        \cup {<<"derivation", w>> : w \in {u \in {v} : versions[u].inputs \cup versions[u].from # {}}}
        \cup {<<"relation", r>> : r \in Relations(v)}
        \cup {<<"reinforcement", r>> : r \in rs}
        \cup {<<"evidence", e>> : e \in EvidenceOf({v} \cup rs)}

(* An observation with its evidence.                                       *)
ObservationGroup(o) ==
    {<<"observation", o>>, <<"policy_decision", o>>} \cup {<<"evidence", e>> : e \in EvidenceOf({o})}

(* A mutation with its policy decision; a deletion the same way, as its    *)
(* execution, and then its tombstones.                                     *)
MutationGroup(n) == {<<"mutation", n>>, <<"policy_decision", n>>}
ExecutionGroup(d) == {<<"deletion_execution", d.at>>} \cup MutationGroup(d.at)
TombstoneGroup(d) == {<<"deletion_tombstone", <<d.selector, v>>>> : v \in d.versions \cup {0}}

(* The keys of a scan, in order.                                           *)
InKeyOrder(S) == [i \in 1..Cardinality(S) |-> CHOOSE n \in S : Cardinality({m \in S : m < n}) = i - 1]

(* The observations of the proof, cited or not.                            *)
ExportedObservations(p) == {o \in DOMAIN observations : observations[o].scope \in p}
ExportedVersions(p) == {v \in Existing : ScopeOf(v) \in p}

(* Only the mutations of what has been exported.                           *)
ExportedMutations(p) ==
    {n \in DOMAIN log : \/ log[n].assertion \in {AssertionOf(v) : v \in ExportedVersions(p)}
                        \/ log[n].op = "Observe" /\ n \in ExportedObservations(p)}

(* The groups in the order they are read.                                  *)
Groups(p) ==
    LET vs == InKeyOrder(ExportedVersions(p))
        os == InKeyOrder(ExportedObservations(p))
        ms == InKeyOrder(ExportedMutations(p))
        ds == InKeyOrder({d.at : d \in deletions})
        by(n) == CHOOSE d \in deletions : d.at = n
    IN  [i \in DOMAIN vs |-> VersionGroup(vs[i])] \o [i \in DOMAIN os |-> ObservationGroup(os[i])]
        \o [i \in DOMAIN ms |-> MutationGroup(ms[i])]
        \o [i \in DOMAIN ds |-> ExecutionGroup(by(ds[i]))] \o [i \in DOMAIN ds |-> TombstoneGroup(by(ds[i]))]

(* No further group is read once there are enough records.                 *)
Full(records, limit) == Cardinality(records) >= limit

Gather(groups, limit) ==
    LET upTo[k \in 0..Len(groups)] ==
            IF k = 0 THEN {}
            ELSE IF Full(upTo[k - 1], limit) THEN upTo[k - 1] ELSE upTo[k - 1] \cup groups[k]
    IN  upTo[Len(groups)]

(* The record types in the order an export is sorted by.                   *)
TypeOrder == [assertion |-> 1, deletion_execution |-> 2, deletion_tombstone |-> 3, derivation |-> 4,
              evidence |-> 5, lifecycle_transition |-> 6, mutation |-> 7, observation |-> 8,
              policy_decision |-> 9, reinforcement |-> 10, relation |-> 11, version |-> 12]

(* The first records of the sorted export; which ones of the last type     *)
(* there is room for depends on their identities.                          *)
Truncated(records, limit) ==
    LET ofType(i) == {r \in records : TypeOrder[r[1]] = i}
        upTo(i) == {r \in records : TypeOrder[r[1]] <= i}
        whole == {i \in 0..12 : Cardinality(upTo(i)) <= limit}
        last == CHOOSE i \in whole : \A j \in whole : j <= i
        room == limit - Cardinality(upTo(last))
    IN  IF last = 12 THEN records
        ELSE upTo(last) \cup (CHOOSE S \in SUBSET ofType(last + 1) : Cardinality(S) = room)

WholeExport(p) == LET g == Groups(p) IN UNION {g[k] : k \in DOMAIN g}
ExportRecords(groups, limit) == Truncated(Gather(groups, limit), limit)

-----------------------------------------------------------------------------
(* The receipt of a deletion that was executed before.                     *)

(* The tombstones of an execution bury its selector, the assertions it     *)
(* touches and the versions it removes (a version's mutation still tells   *)
(* its assertion).  They are filed under what they bury, so a row holds    *)
(* the tombstone of the last execution that buried it.                     *)
Buried(d) == {<<"selector", d.selector>>}
             \cup {<<"assertion", log[v].assertion>> : v \in d.versions}
             \cup {<<"version", v>> : v \in d.versions}
TombstoneRow(target) ==
    LET on == {d \in deletions : target \in Buried(d)}
    IN  CHOOSE d \in on : \A other \in on : other.at <= d.at

(* deletion_receipt: every tombstone of the execution must be found.       *)
RetriedDeletion(d) ==
    IF \A target \in Buried(d) : TombstoneRow(target) = d THEN "Duplicate" ELSE "CorruptState"

-----------------------------------------------------------------------------
(* Properties.                                                             *)

(* No read finds the ledger corrupt, whatever was deleted under it and     *)
(* whatever the proof covers; a mutation alone may name what a retention   *)
(* deletion removed, and the deletion that did is on record.               *)
ReadsNeverCorrupt ==
    \A p \in Readers :
        /\ \A a \in Assertions : GetAssertion(p, a) # "Corrupt" /\ GetHead(p, a) # "Corrupt"
        /\ \A v \in Existing, past \in BOOLEAN : GetVersionView(p, v, past) # "Corrupt"
        /\ \A n \in DOMAIN log : GetMutation(p, n) = "Corrupt" =>
               \/ log[n].op = "RetentionDelete"
               \/ \E d \in deletions : \/ (log[n].in \cup log[n].out) \cap d.versions # {}
                                       \/ log[n].op = "Observe" /\ d.at > n

(* The history read up to a sequence tells the same story as a recall that *)
(* is asked for that sequence: the versions whose last transition in the   *)
(* range made them active are those the recall considers.                  *)
HistoryTellsRecall ==
    \A p \in Readers, a \in assertions, n \in 0..seq :
        LET h == ListHistory(p, a, 0, n)
            of(v) == {t[2] : t \in {u \in h.transitions : u[1] = v}}
            last(v) == CHOOSE i \in of(v) : \A j \in of(v) : j <= i
        IN  {v \in h.versions : of(v) # {} /\ life[v][last(v)].state = "Active"}
                = {v \in AsOf(p, n) : AssertionOf(v) = a}

(* An export can be read on its own: whatever a record of it names is      *)
(* exported too, or lies outside the proof, or was removed by a retention  *)
(* deletion.                                                               *)
ExportClosed ==
    \A p \in Readers :
        LET x == WholeExport(p)
            version(v) == \/ <<"version", v>> \in x \/ v \in UNION {d.versions : d \in deletions}
                          \/ v \in Existing /\ ScopeOf(v) \notin p
            observation(o) == \/ <<"observation", o>> \in x \/ o \notin DOMAIN observations
                              \/ observations[o].scope \notin p
        IN  /\ \A v \in ExportedVersions(p) :
                   /\ \A i \in versions[v].inputs : version(i)
                   /\ \A o \in versions[v].from : observation(o)
                   /\ \A i \in DOMAIN life[v] : <<"mutation", life[v][i].at>> \in x
            /\ \A r \in x : r[1] = "mutation" => \A v \in log[r[2]].in \cup log[r[2]].out : version(v)
            /\ \A r \in x : r[1] = "relation" => version(r[2][1]) /\ version(r[2][2])

(* An export shorter than its limit is whole: a caller that asks for one   *)
(* record more than it gets knows that it has everything.                  *)
ShortExportIsWhole ==
    \A p \in Readers :
        LET groups == Groups(p)
            whole == UNION {groups[k] : k \in DOMAIN groups}
        IN  \A limit \in ExportLimits :
                LET x == ExportRecords(groups, limit)
                IN  Cardinality(x) <= limit /\ (Cardinality(x) < limit => x = whole)

(* A deletion that was executed and is asked for again, because its answer *)
(* was lost, is answered with the receipt of the execution.                *)
RetriedDeletionAnswered == \A d \in deletions : RetriedDeletion(d) = "Duplicate"

(* The reads of the ledger (history, mutation, export) tell what the       *)
(* mutations did: none reports corruption, an export refers to nothing it  *)
(* leaves out, and one below its limit is the whole scope.                 *)
ReadsExact ==
    /\ HistoryTellsRecall
    /\ ReadsNeverCorrupt
    /\ ExportClosed
    /\ ShortExportIsWhole
=============================================================================
