-------------------------- MODULE MemoryContracts ---------------------------
(***************************************************************************)
(* The contracts of the memory service: what its compilers may produce and *)
(* what is told of a memory's evidence and timeline.                       *)
(***************************************************************************)
EXTENDS Integers, Sequences, FiniteSets, FiniteSetsExt, SequencesExt

(***************************************************************************)
(* The contracts of the memory's compilers: of observations into candidates, *)
(* of trajectories into procedures, and of versions into consolidations.   *)
(***************************************************************************)

(***************************************************************************)
(* The memory compiler's contract (contracts/src/memory_compiler.rs): the  *)
(* reference compiler turns authorised observations into candidates and    *)
(* relations between them; every compiler's plan is validated against its  *)
(* input.  The input arrives in pieces, in any order.                      *)
(*                                                                         *)
(* Ids are numbers in byte order, a digest is what it digests.             *)
(***************************************************************************)

CONSTANTS
    ObservationPool,  \* [obs, evid, place, viewer, hint, text, from, to]; 0: no instant
    HeadPool,         \* [vid, place, hint, kind]
    MaxObservations   \* bound

VARIABLES
    given,     \* [observations, heads], sequences
    compiled,  \* the reference compiler's answer
    foreign    \* another compiler's plan and its verdict

compileVars == <<given, compiled, foreign>>

NotYet == [st |-> "none"]
Refusal == [st |-> "refused"]

-----------------------------------------------------------------------------
(* CompilerObservation::validate, CompilerHead, MemoryCompilerInput.       *)
InstantsValid(o) ==
    /\ o.from >= 0 /\ o.to >= 0
    /\ o.from > 0 /\ o.to > 0 => o.to > o.from
AllDistinct(s, f(_)) == \A j, k \in DOMAIN s : j # k => f(s[j]) # f(s[k])
CompilerInputValid(in) ==
    /\ in.observations # <<>>
    /\ \A k \in DOMAIN in.observations : InstantsValid(in.observations[k])
    /\ AllDistinct(in.observations, LAMBDA o : o.obs) /\ AllDistinct(in.observations, LAMBDA o : o.evid)
    /\ AllDistinct(in.heads, LAMBDA h : h.vid)

(* candidate_id, commit_plan_sha256: over every field.                     *)
CandidateId(c) == c
(* compile: the heads of the same workspace, namespace, entity and         *)
(* predicate that hold a text.                                             *)
ExpectedHeads(o, heads) ==
    SetToSortSeq({h.vid : h \in {x \in ToSet(heads) : x.place = o.place /\ x.hint = o.hint /\ x.kind = "text"}}, <)
CandidateOf(o, heads) ==
    [obs |-> <<o.obs>>, evid |-> <<o.evid>>, place |-> o.place, viewer |-> o.viewer, hint |-> o.hint,
     text |-> o.text, from |-> o.from, to |-> o.to, heads |-> ExpectedHeads(o, heads)]

SortedObservations(in) == SetToSortSeq(ToSet(in.observations), LAMBDA o, p : o.obs < p.obs)
CandidatesOf(in) == [k \in DOMAIN in.observations |-> CandidateOf(SortedObservations(in)[k], in.heads)]

(* A plausible bug: the viewer is part of what makes candidates comparable.*)
SameViewer(c, d) == c.place = d.place /\ c.hint = d.hint /\ c.viewer = d.viewer
Comparable(c, d) == c.place = d.place /\ c.hint = d.hint
RelationKind(c, d) == IF c.text = d.text THEN "duplicate" ELSE "contradicts"
RelationsOf(cs) ==
    {[kind |-> RelationKind(cs[j], cs[k]), from |-> CandidateId(cs[j]), to |-> CandidateId(cs[k])] :
        <<j, k>> \in {p \in (DOMAIN cs) \X (DOMAIN cs) : p[1] < p[2] /\ Comparable(cs[p[1]], cs[p[2]])}}
CompiledPlan(in) ==
    LET body == [candidates |-> CandidatesOf(in), relations |-> RelationsOf(CandidatesOf(in))]
    IN [body |-> body, digest |-> body]

-----------------------------------------------------------------------------

(* MemoryCommitPlan::validate_against.                                     *)
WithinObservation(c, in) ==
    \E k \in DOMAIN in.observations :
        LET o == in.observations[k]
        IN /\ c.obs = <<o.obs>> /\ c.evid = <<o.evid>>
           /\ c.place = o.place /\ c.viewer = o.viewer /\ c.hint = o.hint
           /\ c.from = o.from /\ c.to = o.to
HeadsAuthorised(c, in) == ToSet(c.heads) \subseteq {in.heads[k].vid : k \in DOMAIN in.heads}
RelationFits(r, cs) ==
    r.from # r.to /\ {r.from, r.to} \subseteq {CandidateId(cs[k]) : k \in DOMAIN cs}
CommitPlanValid(p, in) ==
    /\ CompilerInputValid(in)
    /\ Len(p.body.candidates) \in 1..Len(in.observations)
    /\ AllDistinct(p.body.candidates, LAMBDA c : CandidateId(c))
    /\ \A k \in DOMAIN p.body.candidates :
          WithinObservation(p.body.candidates[k], in) /\ HeadsAuthorised(p.body.candidates[k], in)
    /\ \A r \in p.body.relations : RelationFits(r, p.body.candidates)
    /\ p.digest = p.body

-----------------------------------------------------------------------------
CompileInit ==
    given = [observations |-> <<>>, heads |-> <<>>] /\ compiled = NotYet /\ foreign = NotYet

AddObservation(o) ==
    /\ compiled.st = "none" /\ Len(given.observations) < MaxObservations
    /\ given' = [given EXCEPT !.observations = Append(@, o)] /\ UNCHANGED <<compiled, foreign>>
NameHead(h) ==
    /\ compiled.st = "none" /\ Len(given.heads) < MaxObservations
    /\ given' = [given EXCEPT !.heads = Append(@, h)] /\ UNCHANGED <<compiled, foreign>>
Compile ==
    /\ compiled.st = "none"
    /\ compiled' = IF ~CompilerInputValid(given) THEN Refusal
                   ELSE [st |-> IF CommitPlanValid(CompiledPlan(given), given) THEN "planned" ELSE "invalid",
                         plan |-> CompiledPlan(given)]
    /\ UNCHANGED <<given, foreign>>
(* verify_compiler_conformance of another compiler.                        *)
JudgeForeign(p) ==
    /\ compiled.st = "planned" /\ foreign.st = "none"
    /\ foreign' = [st |-> IF CommitPlanValid(p, given) THEN "planned" ELSE "invalid", plan |-> p]
    /\ UNCHANGED <<given, compiled>>

(* Plans that differ from the reference in a text, a window, a head, a     *)
(* viewer, a candidate left out, or a relation to itself.                  *)
Resealed(body) == [body |-> body, digest |-> body]
ForeignPlans(p) ==
    LET one(c) == Resealed([candidates |-> <<c>>, relations |-> {}])
        c == p.body.candidates[1]
    IN {p, [p EXCEPT !.body.relations = {}], one(c), one([c EXCEPT !.text = "z"]), one([c EXCEPT !.from = 9]),
        one([c EXCEPT !.heads = <<9>>]), one([c EXCEPT !.viewer = "z"]),
        Resealed([p.body EXCEPT !.candidates = <<c>> \o @]),
        Resealed([p.body EXCEPT !.relations = {[kind |-> "duplicate", from |-> c, to |-> c]}])}

CompileNext ==
    \/ \E o \in ObservationPool : AddObservation(o)
    \/ \E h \in HeadPool : NameHead(h)
    \/ Compile
    \/ \E p \in (IF compiled.st = "planned" THEN ForeignPlans(compiled.plan) ELSE {}) : JudgeForeign(p)

-----------------------------------------------------------------------------
(* compile (memory_compiler.rs:593): the reference plan passes validation, *)
(* does not depend on the order in which observations and heads arrived,   *)
(* and has a candidate for each observation.                               *)
PlanIsOrderFree ==
    compiled.st \in {"planned", "invalid"} =>
        /\ compiled.st = "planned"
        /\ \A k \in DOMAIN compiled.plan.body.candidates :
              \A j \in 1..(k - 1) : compiled.plan.body.candidates[j].obs[1] < compiled.plan.body.candidates[k].obs[1]
        /\ {compiled.plan.body.candidates[k].obs[1] : k \in DOMAIN compiled.plan.body.candidates}
              = {given.observations[k].obs : k \in DOMAIN given.observations}

(* compile (memory_compiler.rs:631): observations about one thing are      *)
(* never left side by side: every two of them are joined by one relation   *)
(* that says whether they agree, whoever may see them.                     *)
EveryPairIsJudged ==
    compiled.st = "planned" =>
        \A j, k \in DOMAIN given.observations :
            LET o == given.observations[j]
                p == given.observations[k]
                joins == {r \in compiled.plan.body.relations : {r.from.obs[1], r.to.obs[1]} = {o.obs, p.obs}}
            IN o.obs # p.obs /\ o.place = p.place /\ o.hint = p.hint =>
                  /\ Cardinality(joins) = 1
                  /\ \A r \in joins : (r.kind = "duplicate") <=> (o.text = p.text)

(* validate_against: whatever compiler made it, an accepted candidate says *)
(* nothing of a place, a viewer, a predicate or a time that its one        *)
(* observation does not have; its text and its choice of heads are free.   *)
AcceptedKeepsBoundary ==
    foreign.st = "planned" =>
        \A k \in DOMAIN foreign.plan.body.candidates :
            LET c == foreign.plan.body.candidates[k]
                o == CHOOSE x \in ToSet(given.observations) : x.obs = c.obs[1]
            IN /\ <<c.place, c.viewer, c.hint, c.from, c.to>> = <<o.place, o.viewer, o.hint, o.from, o.to>>
               /\ \A h \in ToSet(c.heads) : \E n \in DOMAIN given.heads : given.heads[n].vid = h

-----------------------------------------------------------------------------
(***************************************************************************)
(* Procedures compiled from a retained trajectory                          *)
(* (contracts/src/memory_trajectory.rs): events with gapless ordinals in   *)
(* one scope become one candidate whose steps are the successful actions   *)
(* and whose recoveries are those of the failed ones.                      *)
(***************************************************************************)

CONSTANTS
    EventPool,    \* [eid, evid, where, nth, action, ok, recovery]; "" is no recovery
    MaxSteps,     \* steps of a procedure
    MaxText,      \* MAX_MEMORY_TEXT_BYTES, in texts of one length
    MaxEvents     \* bound

VARIABLES
    events,    \* the input's events, as submitted
    draft,     \* the reference compiler's answer
    offered    \* another compiler's plan and its verdict

procedureVars == <<events, draft, offered>>

NoDraft == [st |-> "none"]
InputScope == "here"

-----------------------------------------------------------------------------
(* TrajectoryEvent::validate.                                              *)
EventValid(e) == e.nth > 0 /\ (e.ok <=> e.recovery = "")
(* A plausible bug: ordinals need only grow.                               *)
Gapless(s) == \A k \in DOMAIN s : s[k].nth = k
Unrepeated(s, f(_)) == \A j, k \in DOMAIN s : j # k => f(s[j]) # f(s[k])
(* MemoryTrajectoryInput::validate.                                        *)
TrajectoryValid(s) ==
    /\ s # <<>>
    /\ \A k \in DOMAIN s : EventValid(s[k]) /\ s[k].where = InputScope
    /\ Gapless(s)
    /\ Unrepeated(s, LAMBDA e : e.eid) /\ Unrepeated(s, LAMBDA e : e.evid)
    /\ \E k \in DOMAIN s : s[k].ok

FieldOf(s, f(_)) == [k \in DOMAIN s |-> f(s[k])]

StepsOf(s) == FieldOf(SelectSeq(s, LAMBDA e : e.ok), LAMBDA e : e.action)
RecoveriesOf(s) == FieldOf(SelectSeq(s, LAMBDA e : e.recovery # ""), LAMBDA e : e.recovery)
(* MemoryContent::validate of a procedure.                                 *)
ProcedureValid(c) == Len(c.steps) \in 1..MaxSteps /\ Len(c.steps) + Len(c.recoveries) <= MaxText
(* deterministic_parameters_sha256 is over every event in order.           *)
CandidateFor(s) ==
    [events |-> FieldOf(s, LAMBDA e : e.eid),
     evidence |-> SetToSortSeq({s[k].evid : k \in DOMAIN s}, <),
     steps |-> StepsOf(s), preconditions |-> <<>>, recoveries |-> RecoveriesOf(s), parameters |-> s]

(* validate_against.                                                       *)
BoundTo(c, s) ==
    /\ c.events = FieldOf(s, LAMBDA e : e.eid)
    /\ c.evidence = SetToSortSeq({s[k].evid : k \in DOMAIN s}, <)
ExactProcedure(c, s) ==
    c.steps = StepsOf(s) /\ c.preconditions = <<>> /\ c.recoveries = RecoveriesOf(s)
PlanFits(c, s) ==
    /\ TrajectoryValid(s)
    /\ BoundTo(c, s) /\ c.parameters = s
    /\ ExactProcedure(c, s) /\ ProcedureValid(c)

-----------------------------------------------------------------------------
ProcedureInit == events = <<>> /\ draft = NoDraft /\ offered = NoDraft
Record(e) ==
    /\ draft.st = "none" /\ Len(events) < MaxEvents
    /\ events' = Append(events, e) /\ UNCHANGED <<draft, offered>>
CompileTrajectory ==
    /\ draft.st = "none"
    /\ draft' = IF TrajectoryValid(events) /\ PlanFits(CandidateFor(events), events)
                THEN [st |-> "planned", c |-> CandidateFor(events)] ELSE [st |-> "refused"]
    /\ UNCHANGED <<events, offered>>
(* verify_trajectory_conformance of another compiler, which may drop a     *)
(* step or a recovery, reorder, invent, or work from fewer events.         *)
Variants(c) ==
    {c, [c EXCEPT !.steps = Tail(@)], [c EXCEPT !.steps = Reverse(@)], [c EXCEPT !.recoveries = <<>>],
     [c EXCEPT !.preconditions = <<"p">>], [c EXCEPT !.events = Tail(@)], [c EXCEPT !.evidence = Reverse(@)],
     [c EXCEPT !.parameters = Tail(@)]}
Offer(c) ==
    /\ draft.st = "planned" /\ offered.st = "none"
    /\ offered' = [st |-> IF PlanFits(c, events) THEN "planned" ELSE "refused", c |-> c]
    /\ UNCHANGED <<events, draft>>
ProcedureNext ==
    \/ \E e \in EventPool : Record(e)
    \/ CompileTrajectory
    \/ \E c \in (IF draft.st = "planned" THEN Variants(draft.c) ELSE {}) : Offer(c)

-----------------------------------------------------------------------------
(* compile: a candidate tells the whole trajectory and nothing else: each  *)
(* event is a step or a recovery, in its place, from the first ordinal to  *)
(* the last without a gap.                                                 *)
TellsWholeStory ==
    draft.st = "planned" =>
        /\ Len(draft.c.steps) + Len(draft.c.recoveries) = Len(events)
        /\ {events[k].nth : k \in DOMAIN events} = 1..Len(events)
        /\ \A j, k \in DOMAIN events : j < k /\ events[j].ok /\ events[k].ok =>
              \E p, q \in DOMAIN draft.c.steps :
                  p < q /\ draft.c.steps[p] = events[j].action /\ draft.c.steps[q] = events[k].action

(* validate_against: exactly one plan is accepted for a trajectory, the    *)
(* one the reference compiler makes.                                       *)
OneProcedure == offered.st = "planned" => offered.c = draft.c

-----------------------------------------------------------------------------
(***************************************************************************)
(* Consolidation of memory versions                                        *)
(* (contracts/src/memory_consolidation.rs): the reference executor that    *)
(* finds exact duplicates and conflicts, and the validation every          *)
(* executor's plan must pass.  Versions are collected, a plan is made by   *)
(* the reference executor or proposed by another one, and judged.          *)
(*                                                                         *)
(* Ids are numbers in their byte order.  The digest of a plan is the plan  *)
(* itself; the digest that orders the actions gives some order.            *)
(***************************************************************************)

CONSTANTS
    VersionPool,    \* versions: [vid, group, kindFits, text, evid, at]
    ArtifactNames,  \* artifacts an input may ask for; "reference" is the executor's
    Proposals(_),   \* plans other executors propose for an input
    MaxVersions     \* bound

VARIABLES
    asked,    \* the input: [artifact, versions]
    madePlan, \* the plan, NoPlan
    by,       \* "nobody", "reference", "other"
    verdict   \* "none", "accepted", "rejected"

conVars == <<asked, madePlan, by, verdict>>

NoPlan == [body |-> <<>>]

-----------------------------------------------------------------------------
(* ConsolidationVersion::validate, MemoryConsolidationInput::validate.     *)
NoRepeats(s) == Cardinality(ToSet(s)) = Len(s)
VersionValid(v) == v.kindFits /\ v.evid # <<>> /\ NoRepeats(v.evid) /\ v.at > 0
InputValid(in) ==
    /\ Len(in.versions) >= 2
    /\ \A k \in DOMAIN in.versions : VersionValid(in.versions[k])
    /\ NoRepeats([k \in DOMAIN in.versions |-> in.versions[k].vid])

VersionsOf(in) == ToSet(in.versions)
VersionNamed(in, id) == CHOOSE v \in VersionsOf(in) : v.vid = id
SortedIds(S) == SetToSortSeq(S, <)
StrictlySorted(s) == \A k \in 1..(Len(s) - 1) : s[k] < s[k + 1]

(* grouping_key, then the content digest.                                  *)
SameGroup(v, w) == v.group = w.group
SameContent(v, w) == SameGroup(v, w) /\ v.text = w.text

EarliestFirst(v, w) == v.at < w.at \/ (v.at = w.at /\ v.vid < w.vid)

-----------------------------------------------------------------------------
(* ReferenceConsolidationExecutor::plan.                                   *)
Copies(in, v) == {w \in VersionsOf(in) : SameContent(v, w)}
Retained(in, v) == CHOOSE w \in Copies(in, v) : \A x \in Copies(in, v) \ {w} : EarliestFirst(w, x)
Representatives(in) == {Retained(in, v) : v \in VersionsOf(in)}
CarriedEvidence(S) == SortedIds(UNION {ToSet(v.evid) : v \in S})
Duplicates(in) ==
    {[kind |-> "duplicate", retained |-> r.vid,
      others |-> SortedIds({w.vid : w \in Copies(in, r) \ {r}}), evid |-> CarriedEvidence(Copies(in, r))]
        : r \in {v \in Representatives(in) : Cardinality(Copies(in, v)) >= 2}}
Conflicts(in) ==
    {[kind |-> "conflict", left |-> p[1].vid, right |-> p[2].vid] :
        p \in {q \in Representatives(in) \X Representatives(in) :
                  SameGroup(q[1], q[2]) /\ q[1].vid < q[2].vid}}
Numbered(s) == [k \in DOMAIN s |-> [aid |-> k, does |-> s[k]]]
Sealed(body) == [body |-> body, digest |-> body]
ReferencePlan(in) ==
    Sealed([artifact |-> in.artifact, ids |-> SortedIds({v.vid : v \in VersionsOf(in)}),
            actions |-> Numbered(SetToSeq(Duplicates(in)) \o SetToSeq(Conflicts(in)))])

-----------------------------------------------------------------------------
(* MemoryConsolidationPlan::validate_against.                              *)
BindsInput(p, in) ==
    p.body.artifact = in.artifact /\ p.body.ids = SortedIds({v.vid : v \in VersionsOf(in)})
InputIds(in) == {v.vid : v \in VersionsOf(in)}

Mergeable(v, w) == SameGroup(v, w) /\ v.text = w.text
DuplicateFits(d, in) ==
    /\ d.retained \in InputIds(in) /\ d.others # <<>>
    /\ \A k \in DOMAIN d.others : d.others[k] \in InputIds(in) /\ d.others[k] # d.retained
    /\ StrictlySorted(d.others) /\ StrictlySorted(d.evid)
    /\ \A k \in DOMAIN d.others : Mergeable(VersionNamed(in, d.others[k]), VersionNamed(in, d.retained))
    /\ d.evid = CarriedEvidence({VersionNamed(in, i) : i \in {d.retained} \cup ToSet(d.others)})
ConflictFits(d, in) ==
    /\ d.left < d.right /\ {d.left, d.right} \subseteq InputIds(in)
    /\ SameGroup(VersionNamed(in, d.left), VersionNamed(in, d.right))
    /\ VersionNamed(in, d.left).text # VersionNamed(in, d.right).text
Discards(p) == [k \in DOMAIN p.body.actions |->
    IF p.body.actions[k].does.kind = "duplicate" THEN ToSet(p.body.actions[k].does.others) ELSE {}]
ValidateAgainst(p, in) ==
    /\ InputValid(in) /\ BindsInput(p, in)
    /\ \A k \in DOMAIN p.body.actions :
          LET d == p.body.actions[k].does
          IN IF d.kind = "duplicate" THEN DuplicateFits(d, in) ELSE ConflictFits(d, in)
    /\ \A j, k \in DOMAIN p.body.actions : j # k => Discards(p)[j] \cap Discards(p)[k] = {}
    /\ StrictlySorted([k \in DOMAIN p.body.actions |-> p.body.actions[k].aid])
    /\ p.digest = p.body

-----------------------------------------------------------------------------
ConInit ==
    /\ \E a \in ArtifactNames : asked = [artifact |-> a, versions |-> <<>>]
    /\ madePlan = NoPlan /\ by = "nobody" /\ verdict = "none"

AddVersion(v) ==
    /\ by = "nobody" /\ Len(asked.versions) < MaxVersions
    /\ asked' = [asked EXCEPT !.versions = Append(@, v)]
    /\ UNCHANGED <<madePlan, by, verdict>>

PlanReference ==
    /\ by = "nobody"
    /\ by' = "reference"
    /\ IF InputValid(asked) /\ asked.artifact = "reference"
       THEN /\ madePlan' = ReferencePlan(asked)
            /\ verdict' = IF ValidateAgainst(ReferencePlan(asked), asked) THEN "accepted" ELSE "rejected"
       ELSE madePlan' = NoPlan /\ verdict' = "rejected"
    /\ UNCHANGED asked

(* verify_consolidation_conformance of an executor whose answers repeat.   *)
PlanOther(p) ==
    /\ by = "nobody" /\ InputValid(asked)
    /\ by' = "other" /\ madePlan' = p
    /\ verdict' = IF ValidateAgainst(p, asked) THEN "accepted" ELSE "rejected"
    /\ UNCHANGED asked

ConNext ==
    \/ \E v \in VersionPool : AddVersion(v)
    \/ PlanReference
    \/ \E p \in (IF by = "nobody" /\ InputValid(asked) THEN Proposals(asked) ELSE {}) : PlanOther(p)

-----------------------------------------------------------------------------
Discarded == UNION {Discards(madePlan)[k] : k \in DOMAIN madePlan.body.actions}
Kept == {v \in VersionsOf(asked) : v.vid \notin Discarded}

(* plan (memory_consolidation.rs:369): the reference plan of a valid input *)
(* passes its own validation, keeps of every content exactly one copy, the *)
(* first committed, and sets every two kept versions of one group against  *)
(* each other.                                                             *)
ReferenceKeepsFirst ==
    by = "reference" /\ InputValid(asked) /\ asked.artifact = "reference" =>
        /\ verdict = "accepted"
        /\ \A v \in VersionsOf(asked) :
              \E w \in Kept : SameContent(v, w) /\ w.at <= v.at
        /\ \A v, w \in Kept : SameContent(v, w) => v = w
        /\ \A v, w \in Kept : SameGroup(v, w) /\ v.vid < w.vid =>
              \E k \in DOMAIN madePlan.body.actions :
                 madePlan.body.actions[k].does = [kind |-> "conflict", left |-> v.vid, right |-> w.vid]

(* validate_against: whatever executor proposed it, an accepted plan gives *)
(* up no version without another of the same content that carries its      *)
(* evidence, and, when no action retains what another one discards, a copy *)
(* of every content is left.                                               *)
AcceptedLosesNothing ==
    verdict = "accepted" =>
        /\ \A k \in DOMAIN madePlan.body.actions :
              LET d == madePlan.body.actions[k].does
              IN d.kind = "duplicate" => \A j \in DOMAIN d.others :
                    /\ SameContent(VersionNamed(asked, d.others[j]), VersionNamed(asked, d.retained))
                    /\ ToSet(VersionNamed(asked, d.others[j]).evid) \subseteq ToSet(d.evid)
        /\ (\A k \in DOMAIN madePlan.body.actions :
               LET d == madePlan.body.actions[k].does
               IN d.kind = "duplicate" => d.retained \notin Discarded) =>
           \A v \in VersionsOf(asked) : \E w \in Kept : SameContent(v, w)

(* The reference compilers and the validation of other compilers' plans    *)
(* agree: a plan does not depend on the order of its input, judges every   *)
(* pair, stays inside what was observed, and a consolidation loses no      *)
(* evidence.                                                               *)
CompilersSound ==
    /\ PlanIsOrderFree
    /\ EveryPairIsJudged
    /\ AcceptedKeepsBoundary
    /\ TellsWholeStory
    /\ OneProcedure
    /\ ReferenceKeepsFirst
    /\ AcceptedLosesNothing

-----------------------------------------------------------------------------
(***************************************************************************)
(* What is told of a memory: the walk over its evidence and the exchange of *)
(* its timeline.                                                           *)
(***************************************************************************)

(***************************************************************************)
(* The bounded walk over a memory's evidence graph                         *)
(* (contracts/src/memory_evidence_graph.rs): validation of the exact       *)
(* input, the breadth-first selection from the root versions, and the      *)
(* validation of a traversal somebody else made.                           *)
(*                                                                         *)
(* Node ids are numbers in byte order; a digest is what it digests.        *)
(***************************************************************************)

CONSTANTS
    GraphInputs,  \* [roots, nodes, edges, visible]: nodes id -> [kind, at],
                  \* edges a set of [eid, kind, from, to, at]
    WalkBounds,   \* [depth, nodes] a caller may ask for
    MaxDepth, MaxResult  \* MAX_EVIDENCE_GRAPH_DEPTH, MAX_EVIDENCE_GRAPH_RESULT_NODES

VARIABLES
    walk,      \* the traversal being made
    claimed    \* a traversal proposed for the same input, and its verdict

walkVars == <<walk, claimed>>

NoWalk == [pc |-> "idle"]
NoClaim == [verdict |-> "none"]

-----------------------------------------------------------------------------
(* MemoryEvidenceGraphInput::validate.                                     *)
Within(x, in) == x.at > 0 /\ x.at <= in.visible
GraphEdgeValid(e, in) ==
    /\ e.from # e.to /\ Within(e, in)
    /\ {e.from, e.to} \subseteq DOMAIN in.nodes
EdgesDistinct(E) ==
    \A e, f \in E : e # f => e.eid # f.eid /\ <<e.from, e.to, e.kind>> # <<f.from, f.to, f.kind>>
RootsValid(in) ==
    /\ in.roots # <<>> /\ \A k \in 1..(Len(in.roots) - 1) : in.roots[k] < in.roots[k + 1]
    /\ \A k \in DOMAIN in.roots : in.roots[k] \in DOMAIN in.nodes /\ in.nodes[in.roots[k]].kind = "version"
GraphInputValid(in) ==
    /\ in.visible > 0 /\ DOMAIN in.nodes # {}
    /\ RootsValid(in)
    /\ \A n \in DOMAIN in.nodes : Within(in.nodes[n], in)
    /\ \A e \in in.edges : GraphEdgeValid(e, in)
    /\ EdgesDistinct(in.edges)
BoundsValid(b) == b.depth \in 1..MaxDepth /\ b.nodes \in 1..MaxResult

(* outgoing: by target, then kind, then id.                                *)
EdgeBefore(e, f) ==
    \/ e.to < f.to
    \/ e.to = f.to /\ e.kind < f.kind
    \/ e.to = f.to /\ e.kind = f.kind /\ e.eid < f.eid
Outgoing(in, n) == SetToSortSeq({e \in in.edges : e.from = n}, EdgeBefore)

-----------------------------------------------------------------------------
WalkInit == walk = NoWalk /\ claimed = NoClaim

(* traverse, reference_selection: the roots must fit.                      *)
StartWalk(in, b) ==
    /\ walk.pc = "idle"
    /\ walk' = IF GraphInputValid(in) /\ BoundsValid(b) /\ Len(in.roots) <= b.nodes
               THEN [pc |-> "walk", in |-> in, b |-> b, selected |-> ToSet(in.roots), cut |-> FALSE,
                     queue |-> [k \in DOMAIN in.roots |-> <<in.roots[k], 0>>]]
               ELSE [pc |-> "refused", in |-> in, b |-> b]
    /\ UNCHANGED claimed

(* A plausible bug: a neighbour at the depth limit is taken as the end.    *)
NeverCut(w, n) == FALSE
CutAtDepth(w, n) == \E k \in DOMAIN Outgoing(w.in, n) : Outgoing(w.in, n)[k].to \notin w.selected

TakeNeighbours(w, n, depth) ==
    FoldLeft(LAMBDA s, e : IF e.to \in s.selected THEN s
                           ELSE IF Cardinality(s.selected) = s.b.nodes THEN [s EXCEPT !.cut = TRUE]
                           ELSE [s EXCEPT !.selected = @ \cup {e.to}, !.queue = Append(@, <<e.to, depth + 1>>)],
             w, Outgoing(w.in, n))
VisitNode ==
    /\ walk.pc = "walk" /\ walk.queue # <<>>
    /\ LET n == walk.queue[1][1]
           depth == walk.queue[1][2]
           w == [walk EXCEPT !.queue = Tail(@)]
       IN walk' = IF depth >= walk.b.depth THEN [w EXCEPT !.cut = @ \/ CutAtDepth(w, n)]
                  ELSE TakeNeighbours(w, n, depth)
    /\ UNCHANGED claimed

(* The selected nodes in id order, and every edge between two of them.     *)
Induced(in, S) == {e \in in.edges : {e.from, e.to} \subseteq S}
TraversalOf(w) ==
    [in |-> w.in, b |-> w.b, cut |-> w.cut, nodes |-> w.selected, edges |-> Induced(w.in, w.selected)]
FinishWalk ==
    /\ walk.pc = "walk" /\ walk.queue = <<>>
    /\ walk' = [pc |-> "done", t |-> TraversalOf(walk)]
    /\ UNCHANGED claimed

(* validate_against recomputes the selection and compares.                 *)
TraversalValid(t) == t = walk.t
Claim(t) ==
    /\ walk.pc = "done" /\ claimed = NoClaim
    /\ claimed' = [verdict |-> IF TraversalValid(t) THEN "accepted" ELSE "rejected", t |-> t]
    /\ UNCHANGED walk

(* What another projection may answer: a node more or less, an edge less,  *)
(* the other flag.                                                         *)
Claims(t) ==
    {t, [t EXCEPT !.cut = ~@]} \cup {[t EXCEPT !.nodes = @ \ {n}] : n \in t.nodes}
        \cup {[t EXCEPT !.nodes = @ \cup {n}] : n \in DOMAIN t.in.nodes}
        \cup {[t EXCEPT !.edges = @ \ {e}] : e \in t.edges}
ForgetWalk == walk.pc \in {"done", "refused"} /\ walk' = NoWalk /\ claimed' = NoClaim

WalkNext ==
    \/ \E in \in GraphInputs, b \in WalkBounds : StartWalk(in, b)
    \/ VisitNode \/ FinishWalk \/ ForgetWalk
    \/ \E t \in (IF walk.pc = "done" THEN Claims(walk.t) ELSE {}) : Claim(t)

-----------------------------------------------------------------------------
(* Nodes at most d edges away from the roots.                              *)
Near(in, d) ==
    LET near[k \in 0..d] == IF k = 0 THEN ToSet(in.roots)
                            ELSE near[k - 1] \cup {e.to : e \in {f \in in.edges : f.from \in near[k - 1]}}
    IN near[d]

(* reference_selection (memory_evidence_graph.rs:425): the walk takes only *)
(* what the roots reach within the depth, everything of it unless the node *)
(* limit stopped it, and never more nodes than allowed.                    *)
WalkIsNearest ==
    walk.pc = "done" =>
        /\ ToSet(walk.t.in.roots) \subseteq walk.t.nodes
        /\ walk.t.nodes \subseteq Near(walk.t.in, walk.t.b.depth)
        /\ Cardinality(walk.t.nodes) <= walk.t.b.nodes
        /\ Cardinality(walk.t.nodes) < walk.t.b.nodes => walk.t.nodes = Near(walk.t.in, walk.t.b.depth)

(* truncated (memory_evidence_graph.rs:432,441): the flag is set exactly   *)
(* when an edge leaves the answer, in whatever order the queue was served. *)
TruncatedExactly ==
    walk.pc = "done" =>
        (walk.t.cut <=> \E e \in walk.t.in.edges : e.from \in walk.t.nodes /\ e.to \notin walk.t.nodes)

(* validate_against: one traversal is accepted for an input and its bounds *)
(* and it holds every edge between the nodes it shows.                     *)
OneTraversal ==
    claimed.verdict = "accepted" =>
        /\ claimed.t.nodes = walk.t.nodes
        /\ \A e \in claimed.t.in.edges : {e.from, e.to} \subseteq claimed.t.nodes => e \in claimed.t.edges

-----------------------------------------------------------------------------
(***************************************************************************)
(* The exchange records for AX Studio (contracts/src/memory_ax.rs): a      *)
(* reader follows the continuation tokens of timeline pages, checking each *)
(* page with the contract's own validation, and takes debug records of     *)
(* recalls.  The sender is not in this repository: it may send any page    *)
(* the bounds allow.                                                       *)
(***************************************************************************)

CONSTANTS
    PageSpaces,    \* <<workspace, namespace>> pairs; the reader is in one of them
    ReaderSpace,
    EntryIds, LastSequence,  \* ids and committed sequences of entries
    MaxPageEntries,          \* MAX_AX_STUDIO_TIMELINE_ENTRIES
    MaxPages,                \* bound
    NoToken                  \* model value

VARIABLES
    cursor,    \* start_after_sequence of the next page; NoToken at the end
    read,      \* entries read, in order
    pages, refused,
    debug      \* accepted debug records

exchangeVars == <<cursor, read, pages, refused, debug>>

TimelineEntries == [eid : EntryIds, at : 0..LastSequence, space : PageSpaces, sound : BOOLEAN]
(* AxStudioMemoryTimelineEntry::validate: sound is its digest and ids.     *)
EntryValid(e) == e.at > 0 /\ e.sound

After(at, prior) == at > prior
PriorTo(p, k) == IF k = 1 THEN p.start ELSE p.entries[k - 1].at
LastOf(p) == IF p.entries = <<>> THEN p.start ELSE p.entries[Len(p.entries)].at

TokenFits(p) ==
    \/ p.more /\ p.entries # <<>> /\ p.next = LastOf(p)
    \/ ~p.more /\ p.next = NoToken
(* AxStudioMemoryTimelinePage::validate.                                   *)
PageValid(p) ==
    /\ Len(p.entries) <= MaxPageEntries
    /\ \A k \in DOMAIN p.entries :
          EntryValid(p.entries[k]) /\ p.entries[k].space = p.space /\ After(p.entries[k].at, PriorTo(p, k))
    /\ \A j, k \in DOMAIN p.entries : j # k => p.entries[j].eid # p.entries[k].eid
    /\ TokenFits(p)

(* AxStudioMemoryDebugRecord::validate.                                    *)
DebugRecords == [canonical : 0..LastSequence, visible : 0..LastSequence, artifacts : {<<>>, <<1, 2>>, <<2, 1>>, <<1, 1>>},
                 items : {<<>>, <<1>>, <<2, 1>>, <<2, 2>>}]
DebugValid(r) ==
    /\ r.canonical > 0 /\ r.visible > 0 /\ r.visible <= r.canonical
    /\ \A k \in 1..(Len(r.artifacts) - 1) : r.artifacts[k] < r.artifacts[k + 1]
    /\ Cardinality(ToSet(r.items)) = Len(r.items)

-----------------------------------------------------------------------------
ExchangeInit == cursor = 0 /\ read = <<>> /\ pages = 0 /\ refused = 0 /\ debug = {}

(* A page that answers the reader's request.                               *)
PageArrives(p) ==
    /\ cursor # NoToken /\ pages < MaxPages /\ p.start = cursor /\ p.space = ReaderSpace
    /\ pages' = pages + 1
    /\ IF PageValid(p)
       THEN cursor' = p.next /\ read' = read \o p.entries /\ UNCHANGED refused
       ELSE refused' = refused + 1 /\ UNCHANGED <<cursor, read>>
    /\ UNCHANGED debug
DebugArrives(r) ==
    /\ DebugValid(r) /\ debug = {} /\ debug' = {r} /\ UNCHANGED <<cursor, read, pages, refused>>

EntryLists == {<<>>} \cup {<<e>> : e \in TimelineEntries}
    \cup {<<e, f>> : e \in {x \in TimelineEntries : x.sound /\ x.space = ReaderSpace}, f \in {x \in TimelineEntries : x.sound}}
ExchangeNext ==
    \/ \E es \in EntryLists, more \in BOOLEAN, next \in (1..LastSequence) \cup {NoToken} :
          PageArrives([space |-> ReaderSpace, start |-> cursor, entries |-> es, more |-> more, next |-> next])
    \/ \E r \in DebugRecords : DebugArrives(r)

-----------------------------------------------------------------------------
(* A reader that follows tokens of valid pages sees the mutations of its   *)
(* own scope in commit order, each sequence at most once, however many     *)
(* pages it takes; an entry id may come again on a later page.             *)
ReadsInOrder ==
    /\ \A k \in 1..(Len(read) - 1) : read[k].at < read[k + 1].at
    /\ \A k \in DOMAIN read : read[k].space = ReaderSpace

(* The bounded walk over evidence takes the nearest nodes and says exactly *)
(* when it left some out, its validation accepts no other walk, and a      *)
(* timeline read page by page arrives in order.                            *)
EvidenceSound ==
    /\ WalkIsNearest
    /\ TruncatedExactly
    /\ OneTraversal
    /\ ReadsInOrder
=============================================================================
