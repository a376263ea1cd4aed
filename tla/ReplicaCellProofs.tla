------------------------- MODULE ReplicaCellProofs --------------------------
(***************************************************************************)
(* Proofs about ReplicaCell for every set of replicas and generations,     *)
(* every quorum, any number of appended mutations and of faults; and of    *)
(* the governor that limits background tasks and the listing of audit      *)
(* events, for every number of starters, tasks and events.                 *)
(***************************************************************************)
EXTENDS ReplicaCell, BackgroundTasks, FiniteSetTheorems, TLAPS

-----------------------------------------------------------------------------
(* The inductive invariant.                                                *)

Pcs == {"idle", "load", "build", "tail", "report", "fail", "align", "state"}
LocalRecords == [Roles -> Locals \cup {None}]

HeldIn(l, g) == \E role \in Roles : l[role] # None /\ l[role].gen = g

(* What the steps of a pass rely on: the subject of the pass is a          *)
(* generation, the first phase is about the active generation of the       *)
(* directive, a pass reports and aligns only what the replica holds.       *)
PassOK(w, l) ==
    w.pc # "idle" =>
        /\ w.gen \in Gens /\ w.phase \in 1..5
        /\ w.phase \in {1, 2} => w.dir \in Directives
        /\ w.phase = 1 => w.gen = w.dir.act
        /\ w.phase \notin {1, 2} => w.dir = None /\ w.pc \in {"load", "state"} /\ HeldIn(l, w.gen)
        /\ w.pc = "state" => w.phase \notin {1, 2}
        /\ w.pc = "align" => w.phase = 1
        /\ w.pc \in {"tail", "report", "align"} => HeldIn(l, w.gen)

(* A replica with a rollback target has an active generation.              *)
PassesOK ==
    \A r \in Replicas :
        /\ PassOK(work[r], loc[r])
        /\ loc[r]["previous"] # None => loc[r]["active"] # None

CellInv == CellTypeOK /\ PassesOK

-----------------------------------------------------------------------------
(* What the building blocks of the steps return.                           *)

LEMMA LeastPhase ==
    ASSUME NEW S, S \subseteq 1..5, S # {}
    PROVE  \E j \in S : \A i \in S : j <= i
<1>1. CASE 1 \in S
  BY <1>1
<1>2. CASE 1 \notin S /\ 2 \in S
  BY <1>2
<1>3. CASE 1 \notin S /\ 2 \notin S /\ 3 \in S
  BY <1>3
<1>4. CASE 1 \notin S /\ 2 \notin S /\ 3 \notin S /\ 4 \in S
  BY <1>4
<1>5. CASE 1 \notin S /\ 2 \notin S /\ 3 \notin S /\ 4 \notin S
  <2>1. \A i \in S : i = 5
    BY <1>5
  <2>2. 5 \in S
    <3>1. PICK e \in S : TRUE
      OBVIOUS
    <3> QED
      BY <2>1, <3>1
  <2> QED
    BY <2>1, <2>2
<1> QED
  BY <1>1, <1>2, <1>3, <1>4, <1>5

LEMMA PhaseNames ==
    /\ Phases[1] = "serve" /\ Phases[2] = "publish" /\ Phases[3] = "active"
    /\ Phases[4] = "previous" /\ Phases[5] = "staged"
BY DEF Phases

(* The subject of a phase, by what the phase consults.                     *)
LEMMA SubjectType ==
    ASSUME NEW j \in 1..5, NEW dir, NEW l \in LocalRecords,
           j \in {1, 2} => dir \in Directives,
           Subject(Phases[j], dir, l) # None
    PROVE  /\ Subject(Phases[j], dir, l) \in Gens
           /\ j = 1 => Subject(Phases[j], dir, l) = dir.act
           /\ j \notin {1, 2} => HeldIn(l, Subject(Phases[j], dir, l))
<1>1. CASE j = 1
  BY <1>1, PhaseNames DEF Subject, Directives
<1>2. CASE j = 2
  BY <1>2, PhaseNames DEF Subject, Directives
<1>3. ASSUME NEW role \in Roles, Phases[j] = role, j \notin {1, 2}
      PROVE  /\ Subject(Phases[j], dir, l) \in Gens
             /\ HeldIn(l, Subject(Phases[j], dir, l))
  <2>1. l[role] # None /\ Subject(Phases[j], dir, l) = l[role].gen
    BY <1>3 DEF Subject, Roles
  <2>2. l[role] \in Locals
    BY <2>1 DEF LocalRecords
  <2> QED
    BY <2>1, <2>2 DEF HeldIn, Locals
<1>4. CASE j = 3
  BY <1>4, <1>3, PhaseNames DEF Roles
<1>5. CASE j = 4
  BY <1>5, <1>3, PhaseNames DEF Roles
<1>6. CASE j = 5
  BY <1>6, <1>3, PhaseNames DEF Roles
<1> QED
  BY <1>1, <1>2, <1>4, <1>5, <1>6

(* Where a pass goes on: it ends, or it loads the subject of a later phase.*)
LEMMA PassFromType ==
    ASSUME NEW k \in 0..5, NEW dir \in Directives \cup {None}, NEW l \in LocalRecords,
           k \in {0, 1} => dir \in Directives
    PROVE  /\ PassFrom(k, dir, l) \in Passes
           /\ PassOK(PassFrom(k, dir, l), l)
           /\ PassFrom(k, dir, l).dir \in {dir, None}
<1> DEFINE S == Ahead(k, dir, l)
           j == CHOOSE j \in S : \A i \in S : j <= i
<1>1. CASE S = {}
  <2>1. PassFrom(k, dir, l) = Idle
    BY <1>1 DEF PassFrom
  <2>2. Idle \in Passes
    BY CellAssumption DEF Idle, Passes
  <2> QED
    BY <2>1, <2>2 DEF Idle, PassOK
<1>2. CASE S # {}
  <2>1. S \subseteq 1..5 /\ \A i \in S : i > k
    BY DEF Ahead
  <2>2. j \in S
    BY <1>2, <2>1, LeastPhase
  <2>3. j \in 1..5 /\ j > k /\ Subject(Phases[j], dir, l) # None
    BY <2>1, <2>2 DEF Ahead
  <2>5. PassFrom(k, dir, l) =
          [pc |-> "load", dir |-> IF j <= 2 THEN dir ELSE None, phase |-> j,
           gen |-> Subject(Phases[j], dir, l), req |-> 0]
    BY <1>2 DEF PassFrom
  <2> HIDE DEF j, S
  <2>4. j \in {1, 2} => dir \in Directives
    BY <2>3
  <2>6. /\ Subject(Phases[j], dir, l) \in Gens
        /\ j = 1 => Subject(Phases[j], dir, l) = dir.act
        /\ j \notin {1, 2} => HeldIn(l, Subject(Phases[j], dir, l))
    BY <2>3, <2>4, SubjectType
  <2>7. 0 \in 0..MaxSeq
    BY CellAssumption
  <2>8. PassFrom(k, dir, l) \in Passes
    BY <2>3, <2>4, <2>5, <2>6, <2>7 DEF Passes
  <2>9. PassOK(PassFrom(k, dir, l), l)
    BY <2>3, <2>4, <2>5, <2>6 DEF PassOK
  <2> QED
    BY <2>5, <2>8, <2>9
<1> QED
  BY <1>1, <1>2

(* A step of a replica touches only that replica's pass and record.        *)
LocMoves(r) ==
    /\ loc' \in [Replicas -> LocalRecords]
    /\ \A q \in Replicas \ {r} : loc'[q] = loc[q]
    /\ loc'[r]["previous"] # None => loc'[r]["active"] # None

WorkMoves(r) ==
    /\ work' \in [Replicas -> Passes]
    /\ \A q \in Replicas \ {r} : work'[q] = work[q]
    /\ PassOK(work'[r], loc'[r])

LEMMA LocStays ==
    ASSUME CellInv, NEW r \in Replicas, UNCHANGED loc
    PROVE  LocMoves(r)
BY DEF CellInv, CellTypeOK, PassesOK, LocMoves, LocalRecords

LEMMA PassesMove ==
    ASSUME CellInv, NEW r \in Replicas, LocMoves(r), WorkMoves(r)
    PROVE  PassesOK'
<1> SUFFICES ASSUME NEW q \in Replicas
             PROVE  /\ PassOK(work'[q], loc'[q])
                    /\ loc'[q]["previous"] # None => loc'[q]["active"] # None
  BY DEF PassesOK
<1>1. CASE q = r
  BY <1>1 DEF LocMoves, WorkMoves
<1>2. CASE q # r
  <2>1. work'[q] = work[q] /\ loc'[q] = loc[q]
    BY <1>2 DEF LocMoves, WorkMoves
  <2> QED
    BY <2>1 DEF CellInv, PassesOK
<1> QED
  BY <1>1, <1>2

LEMMA EndPassMoves ==
    ASSUME CellInv, NEW r \in Replicas, EndPass(r)
    PROVE  WorkMoves(r)
<1>1. Idle \in Passes
  BY CellAssumption DEF Idle, Passes
<1>2. work \in [Replicas -> Passes] /\ work' = [work EXCEPT ![r] = Idle]
  BY DEF CellInv, CellTypeOK, EndPass
<1>3. work'[r] = Idle
  BY <1>2
<1>4. PassOK(work'[r], loc'[r])
  BY <1>3 DEF PassOK, Idle
<1> QED
  BY <1>1, <1>2, <1>4 DEF WorkMoves

LEMMA AdvanceMoves ==
    ASSUME CellInv, NEW r \in Replicas, work[r].pc # "idle", LocMoves(r),
           Advance(r, loc'[r])
    PROVE  WorkMoves(r) /\ work'[r].dir \in {work[r].dir, None}
<1>1. work \in [Replicas -> Passes] /\ PassOK(work[r], loc[r])
  BY DEF CellInv, CellTypeOK, PassesOK
<1>2. loc'[r] \in LocalRecords
  BY DEF LocMoves
<1> DEFINE p == PassFrom(work[r].phase, work[r].dir, loc'[r])
<1>3. p \in Passes /\ PassOK(p, loc'[r]) /\ p.dir \in {work[r].dir, None}
  <2>1. work[r].phase \in 0..5 /\ work[r].dir \in Directives \cup {None}
    BY <1>1 DEF Passes
  <2>2. work[r].phase \in {0, 1} => work[r].dir \in Directives
    BY <1>1 DEF PassOK
  <2> QED
    BY <1>2, <2>1, <2>2, PassFromType
<1>4. work' = [work EXCEPT ![r] = p]
  BY DEF Advance
<1> HIDE DEF p
<1> QED
  BY <1>1, <1>3, <1>4 DEF WorkMoves

LEMMA GotoMoves ==
    ASSUME CellInv, NEW r \in Replicas, NEW pc \in Pcs, Goto(r, pc), work[r].pc # "idle",
           pc \in {"build", "tail", "report", "fail", "align"},
           work[r].phase \in {1, 2},
           pc = "align" => work[r].phase = 1,
           pc \in {"tail", "report", "align"} => HeldIn(loc'[r], work[r].gen)
    PROVE  WorkMoves(r) /\ work'[r].dir = work[r].dir
<1>1. work \in [Replicas -> Passes] /\ PassOK(work[r], loc[r])
  BY DEF CellInv, CellTypeOK, PassesOK
<1>2. work'[r] = [work[r] EXCEPT !.pc = pc]
  BY <1>1 DEF Goto
<1>3. work' \in [Replicas -> Passes]
  BY <1>1 DEF Goto, Passes, Pcs
<1>4. \A q \in Replicas \ {r} : work'[q] = work[q]
  BY <1>1 DEF Goto
<1>5. /\ work'[r].pc = pc /\ work'[r].gen = work[r].gen /\ work'[r].phase = work[r].phase
      /\ work'[r].dir = work[r].dir
  BY <1>1, <1>2 DEF Passes
<1>6. PassOK(work'[r], loc'[r])
  BY <1>1, <1>5 DEF PassOK
<1> QED
  BY <1>3, <1>4, <1>5, <1>6 DEF WorkMoves

-----------------------------------------------------------------------------
(* Local generations and reports.                                          *)

LEMMA LocalOfHeld ==
    ASSUME CellInv, NEW r \in Replicas, NEW g, HeldIn(loc[r], g)
    PROVE  /\ Holds(r, g) /\ LocalOf(r, g) \in Locals
           /\ \A role \in RoleOf(r, g) : role \in Roles /\ loc[r][role] \in Locals
           /\ (CHOOSE role \in Roles : role \in RoleOf(r, g)) \in RoleOf(r, g)
<1>1. loc[r] \in LocalRecords
  BY DEF CellInv, CellTypeOK, LocalRecords
<1>2. PICK role \in Roles : role \in RoleOf(r, g)
  BY DEF HeldIn, RoleOf
<1>3. (CHOOSE q \in Roles : q \in RoleOf(r, g)) \in RoleOf(r, g)
  BY <1>2
<1>4. \A q \in RoleOf(r, g) : q \in Roles /\ loc[r][q] \in Locals
  BY <1>1 DEF RoleOf, LocalRecords
<1> QED
  BY <1>2, <1>3, <1>4 DEF Holds, LocalOf

LEMMA HoldsHeld ==
    ASSUME NEW r, NEW g, Holds(r, g)
    PROVE  HeldIn(loc[r], g)
BY DEF Holds, RoleOf, HeldIn

(* Reports whose digest is there when it is consulted.                     *)
Reports == {c \in Checkpoints : c.state \in Servable => c.digest \in Digests}

LEMMA CheckpointType ==
    ASSUME NEW n \in 0..MaxSeq, NEW state \in Reported, NEW content \in Contents
    PROVE  Checkpoint(n, state, content) \in Reports
BY DEF Checkpoint, Digest, Digests, Checkpoints, Reports

LEMMA ReportOfType ==
    ASSUME CellInv, NEW r \in Replicas, NEW g, HeldIn(loc[r], g), NEW readable
    PROVE  ReportOf(r, g, readable) \in Reports
<1>1. LocalOf(r, g) \in Locals
  BY LocalOfHeld
<1>2. LocalOf(r, g).applied \in 0..MaxSeq
  BY <1>1 DEF Locals
<1>3. StateReported(LocalOf(r, g), work[r].req) \in Reported
  BY <1>1 DEF StateReported, Locals, Reported
<1> DEFINE c == IF readable /\ Built(r, g) THEN ContentOf(r) ELSE "zero"
<1>4. c \in Contents
  BY DEF ContentOf, Contents
<1> HIDE DEF c
<1>5. Checkpoint(LocalOf(r, g).applied, StateReported(LocalOf(r, g), work[r].req), c) \in Reports
  BY <1>2, <1>3, <1>4, CheckpointType
<1> QED
  BY <1>5 DEF ReportOf, c

LEMMA FailureReportType ==
    ASSUME CellInv, NEW r \in Replicas, NEW g, NEW readable
    PROVE  FailureReport(r, g, readable) \in Reports
<1> DEFINE n == IF Built(r, g) /\ readable THEN LocalOf(r, g).applied ELSE 0
<1>1. n \in 0..MaxSeq
  <2>1. CASE Built(r, g)
    <3>1. HeldIn(loc[r], g)
      BY <2>1, HoldsHeld DEF Built
    <3>2. LocalOf(r, g) \in Locals
      BY <3>1, LocalOfHeld
    <3> QED
      BY <3>2, CellAssumption DEF Locals
  <2>2. CASE ~Built(r, g)
    BY <2>2, CellAssumption
  <2> QED
    BY <2>1, <2>2
<1> HIDE DEF n
<1>2. Checkpoint(n, "failed", "zero") \in Reports
  BY <1>1, CheckpointType DEF Reported, Contents
<1> QED
  BY <1>2 DEF FailureReport, n

LEMMA PersistType ==
    ASSUME CellInv, NEW r \in Replicas, NEW g \in Gens, NEW report \in Reports,
           Persist(r, g, report)
    PROVE  /\ ckpt' \in [Replicas -> [Gens -> Checkpoints \cup {None}]]
           /\ evidence' \in [Gens -> Digests \cup {None}]
<1>1. /\ ckpt \in [Replicas -> [Gens -> Checkpoints \cup {None}]]
      /\ evidence \in [Gens -> Digests \cup {None}]
  BY DEF CellInv, CellTypeOK
<1>2. report \in Checkpoints /\ (report.state \in Servable => report.digest \in Digests)
  BY DEF Reports
<1>3. ckpt' \in [Replicas -> [Gens -> Checkpoints \cup {None}]]
  BY <1>1, <1>2 DEF Persist
<1>4. evidence' \in [Gens -> Digests \cup {None}]
  BY <1>1, <1>2 DEF Persist
<1> QED
  BY <1>3, <1>4

-----------------------------------------------------------------------------
(* Each step keeps the invariant.                                          *)

LEMMA StepInv ==
    ASSUME CellInv, NEW r \in Replicas, UNCHANGED authority, LocMoves(r), WorkMoves(r),
           ckpt' \in [Replicas -> [Gens -> Checkpoints \cup {None}]],
           evidence' \in [Gens -> Digests \cup {None}],
           faults' \in 0..MaxFaults
    PROVE  CellInv'
<1>1. PassesOK'
  BY PassesMove
<1>2. CellTypeOK'
  BY DEF CellInv, CellTypeOK, authority, LocMoves, WorkMoves, LocalRecords
<1> QED
  BY <1>1, <1>2 DEF CellInv

LEMMA ReportsStay ==
    ASSUME CellInv, UNCHANGED <<ckpt, evidence>>
    PROVE  /\ ckpt' \in [Replicas -> [Gens -> Checkpoints \cup {None}]]
           /\ evidence' \in [Gens -> Digests \cup {None}]
BY DEF CellInv, CellTypeOK

LEMMA FaultsType ==
    ASSUME CellInv, SpendFault \/ UNCHANGED faults
    PROVE  faults' \in 0..MaxFaults
BY CellAssumption DEF CellInv, CellTypeOK, SpendFault

LEMMA PassFacts ==
    ASSUME CellInv, NEW r \in Replicas, work[r].pc # "idle"
    PROVE  /\ work[r].gen \in Gens /\ work[r].phase \in 1..5 /\ work[r].req \in 0..MaxSeq
           /\ work[r].pc \in {"build", "tail", "report", "fail", "align"} =>
                work[r].phase \in {1, 2} /\ work[r].dir \in Directives
           /\ work[r].pc \in {"tail", "report", "align", "state"} => HeldIn(loc[r], work[r].gen)
           /\ work[r].phase \notin {1, 2} => HeldIn(loc[r], work[r].gen)
           /\ InPhase(r, "serve") <=> work[r].phase = 1
           /\ InPhase(r, "publish") <=> work[r].phase = 2
<1>1. work \in [Replicas -> Passes] /\ PassOK(work[r], loc[r])
  BY DEF CellInv, CellTypeOK, PassesOK
<1>2. work[r].phase \in 1..5
  BY <1>1 DEF PassOK
<1>3. (InPhase(r, "serve") <=> work[r].phase = 1) /\ (InPhase(r, "publish") <=> work[r].phase = 2)
  BY <1>2, PhaseNames DEF InPhase
<1>4. work[r].req \in 0..MaxSeq
  BY <1>1 DEF Passes
<1> QED
  BY <1>1, <1>2, <1>3, <1>4 DEF PassOK

LEMMA BeginInv ==
    ASSUME CellInv, NEW r \in Replicas, Begin(r)
    PROVE  CellInv' /\ work'[r].dir \in {Directive(r), None}
<1>1. Directive(r) \in Directives
  BY CellAssumption DEF CellInv, CellTypeOK, Directive, Directives
<1>2. loc[r] \in LocalRecords
  BY DEF CellInv, CellTypeOK, LocalRecords
<1> DEFINE p == PassFrom(0, Directive(r), loc[r])
<1>3. p \in Passes /\ PassOK(p, loc[r]) /\ p.dir \in {Directive(r), None}
  BY <1>1, <1>2, PassFromType
<1>4. work' = [work EXCEPT ![r] = p] /\ UNCHANGED <<authority, evidence, ckpt, loc, faults>>
  BY DEF Begin
<1> HIDE DEF p
<1>5. work \in [Replicas -> Passes]
  BY DEF CellInv, CellTypeOK
<1>6. WorkMoves(r)
  BY <1>3, <1>4, <1>5 DEF WorkMoves
<1>7. work'[r] = p
  BY <1>4, <1>5
<1> QED
  BY <1>3, <1>4, <1>6, <1>7, LocStays, StepInv, ReportsStay, FaultsType

LEMMA LoadGenerationInv ==
    ASSUME CellInv, NEW r \in Replicas, LoadGeneration(r)
    PROVE  CellInv' /\ work'[r].dir \in {work[r].dir, None}
<1>1. work[r].pc = "load" /\ UNCHANGED <<authority, evidence, ckpt, loc, faults>>
  BY DEF LoadGeneration, At
<1>2. WorkMoves(r) /\ work'[r].dir \in {work[r].dir, None}
  <2>1. CASE EndPass(r)
    <3>1. work'[r] = Idle
      BY <2>1 DEF EndPass, CellInv, CellTypeOK
    <3> QED
      BY <2>1, <3>1, EndPassMoves DEF Idle
  <2>2. CASE Advance(r, loc[r])
    BY <1>1, <2>2, LocStays, AdvanceMoves
  <2>3. CASE work' = [work EXCEPT
                ![r].pc = IF InPhase(r, "serve") \/ InPhase(r, "publish")
                          THEN "build" ELSE "state",
                ![r].req = required[work[r].gen]]
    <3> DEFINE pc == IF InPhase(r, "serve") \/ InPhase(r, "publish") THEN "build" ELSE "state"
               n == required[work[r].gen]
    <3>1. work \in [Replicas -> Passes] /\ PassOK(work[r], loc[r])
      BY DEF CellInv, CellTypeOK, PassesOK
    <3>2. work[r].gen \in Gens /\ n \in 0..MaxSeq
      BY <1>1, PassFacts DEF CellInv, CellTypeOK
    <3>3. pc = IF work[r].phase \in {1, 2} THEN "build" ELSE "state"
      BY <1>1, PassFacts
    <3>4. work' = [work EXCEPT ![r] = [work[r] EXCEPT !.pc = pc, !.req = n]]
      BY <2>3, <3>1
    <3> HIDE DEF pc, n
    <3>5. pc \in Pcs
      BY <3>3 DEF Pcs
    <3>6. [work[r] EXCEPT !.pc = pc, !.req = n] \in Passes
      BY <3>1, <3>2, <3>5 DEF Passes, Pcs
    <3>7. work'[r] = [work[r] EXCEPT !.pc = pc, !.req = n]
      BY <3>1, <3>4
    <3>8. /\ work'[r].pc = pc /\ work'[r].gen = work[r].gen
          /\ work'[r].phase = work[r].phase /\ work'[r].dir = work[r].dir
      BY <3>1, <3>7 DEF Passes
    <3>9. PassOK(work'[r], loc'[r])
      BY <1>1, <3>1, <3>3, <3>8 DEF PassOK
    <3> QED
      BY <3>1, <3>4, <3>6, <3>8, <3>9 DEF WorkMoves
  <2> QED
    BY <2>1, <2>2, <2>3 DEF LoadGeneration
<1> QED
  BY <1>1, <1>2, LocStays, StepInv, ReportsStay, FaultsType

LEMMA StageMoves ==
    ASSUME CellInv, NEW r \in Replicas, work[r].pc # "idle",
           NEW state \in {"Building", "Ready", "Failed"}, Stage(r, state)
    PROVE  LocMoves(r) /\ HeldIn(loc'[r], work[r].gen)
<1> DEFINE rec == [gen |-> work[r].gen, applied |-> 0, state |-> state]
<1>1. rec \in Locals
  BY PassFacts, CellAssumption DEF Locals
<1>2. rec # None /\ rec.gen = work[r].gen
  BY <1>1, NoneAssumption
<1>3. loc \in [Replicas -> LocalRecords] /\ (loc[r]["previous"] # None => loc[r]["active"] # None)
  BY DEF CellInv, CellTypeOK, PassesOK, LocalRecords
<1>4. loc' = [loc EXCEPT ![r]["staged"] = rec]
  BY DEF Stage
<1> HIDE DEF rec
<1>5. loc'[r] = [loc[r] EXCEPT !["staged"] = rec]
  BY <1>3, <1>4
<1>6. loc'[r] \in LocalRecords
  BY <1>1, <1>3, <1>5 DEF LocalRecords
<1>7. loc' \in [Replicas -> LocalRecords] /\ \A q \in Replicas \ {r} : loc'[q] = loc[q]
  BY <1>3, <1>4, <1>5, <1>6
<1>8. /\ loc'[r]["staged"] = rec /\ loc'[r]["previous"] = loc[r]["previous"]
      /\ loc'[r]["active"] = loc[r]["active"]
  BY <1>3, <1>5 DEF LocalRecords, Roles
<1> QED
  BY <1>2, <1>3, <1>7, <1>8 DEF LocMoves, HeldIn, Roles

LEMMA BuildInv ==
    ASSUME CellInv, NEW r \in Replicas, Build(r)
    PROVE  CellInv' /\ work'[r].dir = work[r].dir
<1>1. work[r].pc = "build" /\ UNCHANGED <<authority, evidence, ckpt>>
  BY DEF Build, At
<1>2. work[r].phase \in {1, 2} /\ work[r].gen \in Gens
  BY <1>1, PassFacts
<1>3. ckpt' \in [Replicas -> [Gens -> Checkpoints \cup {None}]]
      /\ evidence' \in [Gens -> Digests \cup {None}]
  BY <1>1, ReportsStay
<1>4. faults' \in 0..MaxFaults
  BY FaultsType DEF Build
<1>5. LocMoves(r) /\ WorkMoves(r) /\ work'[r].dir = work[r].dir
  <2>1. CASE Built(r, work[r].gen) /\ Goto(r, "tail") /\ UNCHANGED loc
    <3>1. HeldIn(loc'[r], work[r].gen)
      BY <2>1, HoldsHeld DEF Built
    <3> QED
      BY <1>1, <1>2, <2>1, <3>1, LocStays, GotoMoves DEF Pcs
  <2>2. CASE Goto(r, "fail") /\ UNCHANGED loc
    BY <1>1, <1>2, <2>2, LocStays, GotoMoves DEF Pcs
  <2>3. CASE Stage(r, "Ready") /\ Goto(r, "tail")
    BY <1>1, <1>2, <2>3, StageMoves, GotoMoves DEF Pcs
  <2>4. CASE Stage(r, "Failed") /\ Goto(r, "fail")
    BY <1>1, <1>2, <2>4, StageMoves, GotoMoves DEF Pcs
  <2> QED
    BY <2>1, <2>2, <2>3, <2>4 DEF Build
<1> QED
  BY <1>1, <1>3, <1>4, <1>5, StepInv

LEMMA CatchUpInv ==
    ASSUME CellInv, NEW r \in Replicas, CatchUp(r)
    PROVE  CellInv' /\ work'[r].dir = work[r].dir
<1>1. work[r].pc = "tail" /\ UNCHANGED <<authority, evidence, ckpt>>
  BY DEF CatchUp, At
<1>2. /\ work[r].phase \in {1, 2} /\ HeldIn(loc[r], work[r].gen) /\ work[r].req \in 0..MaxSeq
  BY <1>1, PassFacts
<1>3. ckpt' \in [Replicas -> [Gens -> Checkpoints \cup {None}]]
      /\ evidence' \in [Gens -> Digests \cup {None}]
  BY <1>1, ReportsStay
<1>4. faults' \in 0..MaxFaults
  BY FaultsType DEF CatchUp, TailFails
<1> DEFINE role == CHOOSE role \in Roles : role \in RoleOf(r, work[r].gen)
<1>5. role \in Roles /\ loc[r][role] \in Locals /\ loc[r][role].gen = work[r].gen
  <2>1. role \in RoleOf(r, work[r].gen) /\ \A q \in RoleOf(r, work[r].gen) : q \in Roles /\ loc[r][q] \in Locals
    BY <1>2, LocalOfHeld, Zenon
  <2> HIDE DEF role
  <2> QED
    BY <2>1 DEF RoleOf
<1>6. \/ /\ loc' = [loc EXCEPT ![r][role].applied = work[r].req] /\ Goto(r, "report")
      \/ Goto(r, "fail") /\ UNCHANGED loc
  BY DEF CatchUp
<1> HIDE DEF role
<1>7. LocMoves(r) /\ WorkMoves(r) /\ work'[r].dir = work[r].dir
  <2>1. CASE loc' = [loc EXCEPT ![r][role].applied = work[r].req] /\ Goto(r, "report")
    <3> DEFINE rec == [loc[r][role] EXCEPT !.applied = work[r].req]
    <3>1. loc \in [Replicas -> LocalRecords] /\ (loc[r]["previous"] # None => loc[r]["active"] # None)
      BY DEF CellInv, CellTypeOK, PassesOK, LocalRecords
    <3>2. rec \in Locals /\ rec # None /\ rec.gen = work[r].gen
      BY <1>2, <1>5, NoneAssumption DEF Locals
    <3>3. loc'[r] = [loc[r] EXCEPT ![role] = rec] /\ \A q \in Replicas \ {r} : loc'[q] = loc[q]
      BY <2>1, <3>1
    <3> HIDE DEF rec
    <3>4. loc'[r] \in LocalRecords
      BY <1>5, <3>1, <3>2, <3>3 DEF LocalRecords
    <3>5. loc' \in [Replicas -> LocalRecords]
      BY <2>1, <3>1, <3>3, <3>4
    <3>6. loc'[r][role] = rec /\ \A q \in Roles \ {role} : loc'[r][q] = loc[r][q]
      BY <1>5, <3>1, <3>3 DEF LocalRecords
    <3>7. LocMoves(r)
      <4>1. loc'[r]["previous"] # None => loc'[r]["active"] # None
        BY <1>5, <3>1, <3>2, <3>6, NoneAssumption DEF Roles
      <4> QED
        BY <3>3, <3>5, <4>1 DEF LocMoves
    <3>8. HeldIn(loc'[r], work[r].gen)
      BY <1>5, <3>2, <3>6 DEF HeldIn
    <3> QED
      BY <1>1, <1>2, <2>1, <3>7, <3>8, GotoMoves DEF Pcs
  <2>2. CASE Goto(r, "fail") /\ UNCHANGED loc
    BY <1>1, <1>2, <2>2, LocStays, GotoMoves DEF Pcs
  <2> QED
    BY <1>6, <2>1, <2>2
<1> QED
  BY <1>1, <1>3, <1>4, <1>7, StepInv

(* A step that reports passes the gate of persist_checkpoint or leaves the *)
(* authority's tables alone.                                               *)
Gated(r) ==
    \/ UNCHANGED <<ckpt, evidence>>
    \/ \E report \in Reports : ~PersistRefused(work[r].gen, report) /\ Persist(r, work[r].gen, report)

LEMMA GatedType ==
    ASSUME CellInv, NEW r \in Replicas, work[r].gen \in Gens, Gated(r)
    PROVE  /\ ckpt' \in [Replicas -> [Gens -> Checkpoints \cup {None}]]
           /\ evidence' \in [Gens -> Digests \cup {None}]
<1>1. CASE UNCHANGED <<ckpt, evidence>>
  BY <1>1, ReportsStay
<1>2. CASE \E report \in Reports : Persist(r, work[r].gen, report)
  BY <1>2, PersistType
<1> QED
  BY <1>1, <1>2 DEF Gated

LEMMA ReportBuiltInv ==
    ASSUME CellInv, NEW r \in Replicas, ReportBuilt(r)
    PROVE  CellInv' /\ work'[r].dir \in {work[r].dir, None} /\ Gated(r) /\ work[r].gen \in Gens
<1>1. work[r].pc = "report" /\ UNCHANGED <<authority, loc, faults>>
  BY DEF ReportBuilt, At
<1>2. /\ work[r].phase \in {1, 2} /\ HeldIn(loc[r], work[r].gen) /\ work[r].gen \in Gens
      /\ InPhase(r, "serve") <=> work[r].phase = 1
  BY <1>1, PassFacts
<1>3. PICK readable \in Readings :
        \/ /\ PersistRefused(work[r].gen, ReportOf(r, work[r].gen, readable))
           /\ Goto(r, "fail") /\ UNCHANGED <<ckpt, evidence>>
        \/ /\ ~PersistRefused(work[r].gen, ReportOf(r, work[r].gen, readable))
           /\ Persist(r, work[r].gen, ReportOf(r, work[r].gen, readable))
           /\ IF InPhase(r, "serve") THEN Goto(r, "align") ELSE Advance(r, loc[r])
  BY DEF ReportBuilt
<1>4. ReportOf(r, work[r].gen, readable) \in Reports
  BY <1>2, ReportOfType
<1>5. Gated(r)
  BY <1>3, <1>4 DEF Gated
<1>6. LocMoves(r)
  BY <1>1, LocStays
<1>7. WorkMoves(r) /\ work'[r].dir \in {work[r].dir, None}
  <2>1. CASE Goto(r, "fail")
    BY <1>1, <1>2, <2>1, GotoMoves DEF Pcs
  <2>2. CASE InPhase(r, "serve") /\ Goto(r, "align")
    BY <1>1, <1>2, <2>2, GotoMoves DEF Pcs
  <2>3. CASE Advance(r, loc[r])
    BY <1>1, <1>6, <2>3, AdvanceMoves
  <2> QED
    BY <1>3, <2>1, <2>2, <2>3
<1> QED
  BY <1>1, <1>2, <1>5, <1>6, <1>7, GatedType, FaultsType, StepInv

LEMMA EndPassDir ==
    ASSUME CellInv, NEW r \in Replicas, EndPass(r)
    PROVE  work'[r].dir = None
<1>1. work'[r] = Idle
  BY DEF EndPass, CellInv, CellTypeOK
<1> QED
  BY <1>1 DEF Idle

LEMMA ReportFailureInv ==
    ASSUME CellInv, NEW r \in Replicas, ReportFailure(r)
    PROVE  CellInv' /\ work'[r].dir \in {work[r].dir, None} /\ Gated(r) /\ work[r].gen \in Gens
<1>1. work[r].pc = "fail" /\ EndPass(r) /\ UNCHANGED <<authority, loc, faults>>
  BY DEF ReportFailure, At
<1>2. work[r].gen \in Gens
  BY <1>1, PassFacts
<1>3. PICK readable \in Readings :
        \/ UNCHANGED <<ckpt, evidence>>
        \/ /\ ~PersistRefused(work[r].gen, FailureReport(r, work[r].gen, readable))
           /\ Persist(r, work[r].gen, FailureReport(r, work[r].gen, readable))
  BY DEF ReportFailure
<1>4. FailureReport(r, work[r].gen, readable) \in Reports
  BY FailureReportType
<1>5. Gated(r)
  BY <1>3, <1>4 DEF Gated
<1> QED
  BY <1>1, <1>2, <1>5, LocStays, EndPassMoves, EndPassDir, GatedType, FaultsType, StepInv

LEMMA ReportStateInv ==
    ASSUME CellInv, NEW r \in Replicas, ReportState(r)
    PROVE  CellInv' /\ work'[r].dir \in {work[r].dir, None} /\ Gated(r) /\ work[r].gen \in Gens
<1>1. work[r].pc = "state" /\ UNCHANGED <<authority, loc, faults>>
  BY DEF ReportState, At
<1>2. work[r].gen \in Gens /\ HeldIn(loc[r], work[r].gen)
  BY <1>1, PassFacts
<1>3. PICK readable \in Readings :
        \/ EndPass(r) /\ UNCHANGED <<ckpt, evidence>>
        \/ /\ ~PersistRefused(work[r].gen, ReportOf(r, work[r].gen, readable))
           /\ Persist(r, work[r].gen, ReportOf(r, work[r].gen, readable))
           /\ Advance(r, loc[r])
  BY DEF ReportState
<1>4. ReportOf(r, work[r].gen, readable) \in Reports
  BY <1>2, ReportOfType
<1>5. Gated(r)
  BY <1>3, <1>4 DEF Gated
<1>6. LocMoves(r)
  BY <1>1, LocStays
<1>7. WorkMoves(r) /\ work'[r].dir \in {work[r].dir, None}
  BY <1>1, <1>3, <1>6, EndPassMoves, EndPassDir, AdvanceMoves
<1> QED
  BY <1>1, <1>2, <1>5, <1>6, <1>7, GatedType, FaultsType, StepInv

(* The roles a replica serves from, and which generations a step may bring *)
(* into them.                                                              *)
Served == {"active", "previous"}
ServesOnly(k, l, g) ==
    \A role \in Served : k[role] # None =>
        \/ k[role].gen = g
        \/ \E q \in Served : l[q] # None /\ l[q].gen = k[role].gen

LEMMA ActivatedType ==
    ASSUME NEW l \in LocalRecords, l["staged"] # None, l["previous"] # None => l["active"] # None
    PROVE  /\ Activated(l) \in LocalRecords
           /\ Activated(l)["active"] # None
           /\ ServesOnly(Activated(l), l, l["staged"].gen)
<1>1. l["staged"] \in Locals /\ (l["active"] # None => l["active"] \in Locals)
  BY DEF LocalRecords, Roles
<1>2. l.staged = l["staged"] /\ l.active = l["active"] /\ l.previous = l["previous"]
  OBVIOUS
<1>3. Activated(l) \in LocalRecords /\ Activated(l)["active"] # None
  BY <1>1, <1>2, NoneAssumption DEF Activated, LocalRecords, Roles, Locals
<1>4. Activated(l)["active"].gen = l["staged"].gen
  BY <1>1, <1>2 DEF Activated, Locals
<1>5. ASSUME l["active"] # None
      PROVE  Activated(l)["previous"].gen = l["active"].gen
  BY <1>1, <1>2, <1>5 DEF Activated, Locals
<1>6. ASSUME l["active"] = None
      PROVE  Activated(l)["previous"] = l["previous"]
  BY <1>2, <1>6 DEF Activated
<1> QED
  BY <1>3, <1>4, <1>5, <1>6 DEF ServesOnly, Served

LEMMA RolledBackType ==
    ASSUME NEW l \in LocalRecords, NEW g, l["previous"] # None, l["active"] # None
    PROVE  /\ RolledBack(l) \in LocalRecords
           /\ RolledBack(l)["active"] # None
           /\ ServesOnly(RolledBack(l), l, g)
<1>1. l["previous"] \in Locals /\ l["active"] \in Locals
  BY DEF LocalRecords, Roles
<1>2. l.staged = l["staged"] /\ l.active = l["active"] /\ l.previous = l["previous"]
  OBVIOUS
<1>3. RolledBack(l) \in LocalRecords /\ RolledBack(l)["active"] # None
  BY <1>1, <1>2, NoneAssumption DEF RolledBack, LocalRecords, Roles, Locals
<1>4. /\ RolledBack(l)["active"].gen = l["previous"].gen
      /\ RolledBack(l)["previous"].gen = l["active"].gen
  BY <1>1, <1>2 DEF RolledBack, Locals
<1> QED
  BY <1>3, <1>4 DEF ServesOnly, Served

LEMMA AlignInv ==
    ASSUME CellInv, NEW r \in Replicas, Align(r)
    PROVE  /\ CellInv' /\ work'[r].dir \in {work[r].dir, None}
           /\ work[r].dir \in Directives /\ work[r].gen = work[r].dir.act
           /\ ServesOnly(loc'[r], loc[r], work[r].gen)
           /\ \A q \in Replicas \ {r} : loc'[q] = loc[q]
<1> DEFINE g == work[r].gen
           is(role) == role \in RoleOf(r, g)
           l == IF is("active") THEN loc[r]
                ELSE IF is("staged") THEN Activated(loc[r]) ELSE RolledBack(loc[r])
<1>1. work[r].pc = "align" /\ UNCHANGED <<authority, evidence, ckpt, faults>>
  BY DEF Align, At
<1>2. /\ loc \in [Replicas -> LocalRecords] /\ PassOK(work[r], loc[r])
      /\ loc[r]["previous"] # None => loc[r]["active"] # None
  BY DEF CellInv, CellTypeOK, PassesOK, LocalRecords
<1>3. HeldIn(loc[r], g) /\ work[r].dir \in Directives /\ work[r].gen = work[r].dir.act
  BY <1>1, <1>2 DEF PassOK
<1>4. \/ EndPass(r) /\ UNCHANGED loc
      \/ loc' = [loc EXCEPT ![r] = l] /\ Advance(r, l)
  BY DEF Align
<1>5. l \in LocalRecords /\ ServesOnly(l, loc[r], g) /\ (l["previous"] # None => l["active"] # None)
  <2>1. CASE is("active")
    BY <1>2, <2>1 DEF ServesOnly
  <2>2. CASE ~is("active") /\ is("staged")
    <3>1. loc[r]["staged"] # None /\ loc[r]["staged"].gen = g
      BY <2>2 DEF RoleOf
    <3> QED
      BY <1>2, <2>2, <3>1, ActivatedType
  <2>3. CASE ~is("active") /\ ~is("staged")
    <3>1. loc[r]["previous"] # None
      BY <1>3, <2>3 DEF HeldIn, RoleOf, Roles
    <3> QED
      BY <1>2, <2>3, <3>1, RolledBackType
  <2> QED
    BY <2>1, <2>2, <2>3
<1> HIDE DEF l
<1>6. LocMoves(r) /\ ServesOnly(loc'[r], loc[r], g)
  <2>1. CASE UNCHANGED loc
    BY <2>1, LocStays DEF ServesOnly
  <2>2. CASE loc' = [loc EXCEPT ![r] = l]
    BY <1>2, <1>5, <2>2 DEF LocMoves
  <2> QED
    BY <1>4, <2>1, <2>2
<1>7. WorkMoves(r) /\ work'[r].dir \in {work[r].dir, None}
  <2>1. CASE EndPass(r)
    BY <2>1, EndPassMoves, EndPassDir
  <2>2. CASE loc' = [loc EXCEPT ![r] = l] /\ Advance(r, l)
    <3>1. loc'[r] = l
      BY <1>2, <2>2
    <3> QED
      BY <1>1, <1>6, <2>2, <3>1, AdvanceMoves
  <2> QED
    BY <1>4, <2>1, <2>2
<1>8. CellInv'
  BY <1>1, <1>6, <1>7, ReportsStay, FaultsType, StepInv
<1> QED
  BY <1>3, <1>6, <1>7, <1>8 DEF LocMoves

LEMMA InterruptInv ==
    ASSUME CellInv, NEW r \in Replicas, Interrupt(r)
    PROVE  CellInv' /\ work'[r].dir = None
<1>1. EndPass(r) /\ SpendFault /\ UNCHANGED <<authority, evidence, ckpt>>
  BY DEF Interrupt
<1>2. LocMoves(r)
  <2>1. CASE UNCHANGED loc
    BY <2>1, LocStays
  <2>2. CASE At(r, "build") /\ Stage(r, "Building")
    BY <2>2, StageMoves DEF At
  <2> QED
    BY <2>1, <2>2 DEF Interrupt
<1> QED
  BY <1>1, <1>2, EndPassMoves, EndPassDir, ReportsStay, FaultsType, StepInv

LEMMA ControlPlaneInv ==
    ASSUME CellInv, ControlPlane
    PROVE  CellInv'
<1>1. UNCHANGED <<ckpt, loc, work, faults>>
  BY DEF ControlPlane, Register, ActivatePublication, RollBackStream, Abandon, AppendTail, Drain
<1>2. PassesOK'
  BY <1>1 DEF CellInv, PassesOK
<1> SUFFICES CellTypeOK'
  BY <1>2 DEF CellInv
<1> USE DEF CellInv, CellTypeOK
<1>3. ASSUME NEW g \in Gens, Register(g) PROVE CellTypeOK'
  BY <1>1, <1>3 DEF Register
<1>4. CASE ActivatePublication
  BY <1>1, <1>4 DEF ActivatePublication
<1>5. CASE RollBackStream
  BY <1>1, <1>5 DEF RollBackStream
<1>6. CASE Abandon
  BY <1>1, <1>6 DEF Abandon
<1>7. CASE AppendTail
  <2>1. act \in Gens /\ required[act] + 1 \in 0..MaxSeq
    BY <1>7, CellAssumption DEF AppendTail
  <2> QED
    BY <1>1, <1>7, <2>1 DEF AppendTail
<1>8. ASSUME NEW r \in Replicas, Drain(r) PROVE CellTypeOK'
  BY <1>1, <1>8 DEF Drain
<1> QED
  BY <1>3, <1>4, <1>5, <1>6, <1>7, <1>8 DEF ControlPlane

LEMMA InitInv == Init => CellInv
<1> SUFFICES ASSUME Init PROVE CellInv
  OBVIOUS
<1>1. Idle \in Passes
  BY CellAssumption DEF Idle, Passes
<1>2. CellTypeOK
  BY <1>1, CellAssumption DEF Init, CellTypeOK
<1>3. PassesOK
  BY DEF Init, PassesOK, PassOK, Idle, Roles
<1> QED
  BY <1>2, <1>3 DEF CellInv

LEMMA NextInv == CellInv /\ [Next]_vars => CellInv'
<1> SUFFICES ASSUME CellInv, [Next]_vars PROVE CellInv'
  OBVIOUS
<1>1. CASE ControlPlane
  BY <1>1, ControlPlaneInv
<1>2. ASSUME NEW r \in Replicas, Reconcile(r) PROVE CellInv'
  BY <1>2, BeginInv, LoadGenerationInv, BuildInv, CatchUpInv, ReportBuiltInv,
     ReportFailureInv, AlignInv, ReportStateInv DEF Reconcile
<1>3. ASSUME NEW r \in Replicas, Interrupt(r) PROVE CellInv'
  BY <1>3, InterruptInv
<1>4. CASE UNCHANGED vars
  BY <1>4 DEF vars, CellInv, CellTypeOK, PassesOK
<1> QED
  BY <1>1, <1>2, <1>3, <1>4 DEF Next

(* The inductive invariant: types, and what the steps of a pass of the     *)
(* worker rely on.                                                         *)
THEOREM CellInvariant == Spec => []CellInv
BY InitInv, NextInv, PTL DEF Spec

(* The authority's rows, the local records and the passes keep their types *)
(* under every interleaving of the control plane and the workers.          *)
THEOREM CellTypeCorrect == Spec => []CellTypeOK
<1>1. CellInv => CellTypeOK
  BY DEF CellInv
<1> QED
  BY <1>1, CellInvariant, PTL

-----------------------------------------------------------------------------
(* The digest gate.                                                        *)

(* A checkpoint never passes the required sequence, and one that is        *)
(* servable at it left or matched the evidence, which is therefore there.  *)
GateOK(g, c) ==
    /\ c.applied <= required[g]
    /\ c.state \in Servable /\ c.applied = required[g] => c.digest = evidence[g] /\ c.digest # None

GateInv == \A r \in Replicas, g \in Gens : ckpt[r][g] # None => GateOK(g, ckpt[r][g])

(* A report that passes the gate keeps the invariant, whatever the other   *)
(* replicas reported.                                                      *)
LEMMA GatedInv ==
    ASSUME CellInv, GateInv, NEW r \in Replicas, work[r].gen \in Gens, UNCHANGED required, Gated(r)
    PROVE  GateInv'
<1>1. CASE UNCHANGED <<ckpt, evidence>>
  BY <1>1 DEF GateInv, GateOK
<1>2. ASSUME NEW report \in Reports,
             ~PersistRefused(work[r].gen, report), Persist(r, work[r].gen, report)
      PROVE  GateInv'
  <2> DEFINE h == work[r].gen
  <2>1. /\ ckpt \in [Replicas -> [Gens -> Checkpoints \cup {None}]]
        /\ evidence \in [Gens -> Digests \cup {None}] /\ required \in [Gens -> 0..MaxSeq]
    BY DEF CellInv, CellTypeOK
  <2>2. /\ report.applied \in 0..MaxSeq
        /\ report.state \in Servable => report.digest \in Digests /\ report.digest # None
    BY NoneAssumption DEF Reports, Checkpoints
  <2>3. report.applied <= required[h]
    BY <1>2, <2>1, <2>2, CellAssumption DEF PersistRefused
  <2>4. report.state \in Servable => evidence[h] \in {None, report.digest}
    BY <1>2 DEF PersistRefused
  <2>5. /\ ckpt'[r][h] = report
        /\ \A q \in Replicas, g \in Gens : <<q, g>> # <<r, h>> => ckpt'[q][g] = ckpt[q][g]
    BY <1>2, <2>1 DEF Persist
  <2>6. /\ \A g \in Gens \ {h} : evidence'[g] = evidence[g]
        /\ evidence'[h] = IF report.state \in Servable THEN report.digest ELSE evidence[h]
    BY <1>2, <2>1 DEF Persist
  <2> SUFFICES ASSUME NEW q \in Replicas, NEW g \in Gens, ckpt'[q][g] # None
               PROVE  /\ ckpt'[q][g].applied <= required[g]
                      /\ ckpt'[q][g].state \in Servable /\ ckpt'[q][g].applied = required[g] =>
                           ckpt'[q][g].digest = evidence'[g] /\ ckpt'[q][g].digest # None
    BY DEF GateInv, GateOK
  <2>7. CASE q = r /\ g = h
    BY <2>2, <2>3, <2>5, <2>6, <2>7
  <2>8. CASE ~(q = r /\ g = h)
    <3>1. ckpt'[q][g] = ckpt[q][g] /\ GateOK(g, ckpt[q][g])
      BY <2>5, <2>8 DEF GateInv
    <3>2. CASE g # h
      BY <2>6, <3>1, <3>2 DEF GateOK
    <3>3. CASE g = h
      BY <2>4, <2>6, <3>1, <3>3 DEF GateOK
    <3> QED
      BY <3>2, <3>3
  <2> QED
    BY <2>7, <2>8
<1> QED
  BY <1>1, <1>2 DEF Gated

LEMMA AppendGate ==
    ASSUME CellInv, GateInv, AppendTail
    PROVE  GateInv'
<1>1. /\ ckpt \in [Replicas -> [Gens -> Checkpoints \cup {None}]]
      /\ evidence \in [Gens -> Digests \cup {None}] /\ required \in [Gens -> 0..MaxSeq]
      /\ act \in Gens
  BY DEF CellInv, CellTypeOK, AppendTail
<1>2. /\ required' = [required EXCEPT ![act] = @ + 1] /\ UNCHANGED ckpt
      /\ evidence' = [evidence EXCEPT ![act] = None]
  BY DEF AppendTail
<1> SUFFICES ASSUME NEW q \in Replicas, NEW g \in Gens, ckpt[q][g] # None
             PROVE  GateOK(g, ckpt[q][g])'
  BY <1>2 DEF GateInv
<1>3. ckpt[q][g] \in Checkpoints /\ GateOK(g, ckpt[q][g])
  BY <1>1 DEF GateInv
<1>4. ckpt[q][g].applied \in Int /\ required[g] \in Int
  BY <1>1, <1>3, CellAssumption DEF Checkpoints
<1>5. CASE g = act
  BY <1>1, <1>2, <1>3, <1>4, <1>5 DEF GateOK
<1>6. CASE g # act
  BY <1>1, <1>2, <1>3, <1>6 DEF GateOK
<1> QED
  BY <1>5, <1>6

LEMMA NextGate == CellInv /\ GateInv /\ [Next]_vars => GateInv'
<1> SUFFICES ASSUME CellInv, GateInv, [Next]_vars PROVE GateInv'
  OBVIOUS
<1>1. CASE UNCHANGED <<ckpt, evidence, required>>
  BY <1>1 DEF GateInv, GateOK
<1>2. ASSUME NEW r \in Replicas, ReportBuilt(r) \/ ReportFailure(r) \/ ReportState(r)
      PROVE  GateInv'
  <2>1. UNCHANGED required
    BY <1>2 DEF ReportBuilt, ReportFailure, ReportState, authority
  <2> QED
    BY <1>2, <2>1, ReportBuiltInv, ReportFailureInv, ReportStateInv, GatedInv
<1>3. CASE AppendTail
  BY <1>3, AppendGate
<1> QED
  BY <1>1, <1>2, <1>3 DEF Next, ControlPlane, Reconcile, vars, authority, Register,
     ActivatePublication, RollBackStream, Abandon, Drain, Begin, LoadGeneration, Build,
     CatchUp, Align, Interrupt

(* Whatever replicas report the required sequence as servable, they report *)
(* the same content: for any number of replicas, in any order of reports,  *)
(* failures, retries and appended mutations, with replicas that build      *)
(* something else and replicas that cannot read what they built.           *)
THEOREM ReadyReplicasAgree == Spec => []ReadyPeersAgree
<1>1. Init => GateInv
  BY DEF Init, GateInv
<1>2. CellInv /\ GateInv => ReadyPeersAgree
  BY DEF GateInv, GateOK, ReadyPeersAgree, ReadyReplicas
<1> QED
  BY <1>1, <1>2, NextGate, CellInvariant, PTL DEF Spec

-----------------------------------------------------------------------------
(* Local pointers follow the authority.                                    *)

(* Once active, a generation stays active or superseded; a directive keeps *)
(* naming a generation that was active when it was read.                   *)
WasActive(g) == status[g] \in {"active", "superseded"}

FollowInv ==
    /\ \A r \in Replicas, role \in Served :
         loc[r][role] # None => WasActive(loc[r][role].gen)
    /\ act # None => WasActive(act)
    /\ \A r \in Replicas : work[r].dir # None /\ work[r].dir.act # None => WasActive(work[r].dir.act)

LEMMA ControlPlaneFollow ==
    ASSUME CellInv, FollowInv, ControlPlane
    PROVE  FollowInv'
<1>1. UNCHANGED <<loc, work>>
  BY DEF ControlPlane, Register, ActivatePublication, RollBackStream, Abandon, AppendTail, Drain
<1>2. status \in [Gens -> {"unknown", "staged", "active", "superseded", "abandoned"}]
      /\ act \in Gens \cup {None} /\ prior \in Gens \cup {None} /\ pub \in Gens \cup {None}
  BY DEF CellInv, CellTypeOK
<1>3. \A g \in Gens : WasActive(g) => WasActive(g)'
  BY <1>2 DEF ControlPlane, Register, ActivatePublication, RollBackStream, Abandon, AppendTail,
     Drain, Open, WasActive
<1>4. act' # None => WasActive(act)'
  BY <1>2, NoneAssumption DEF FollowInv, ControlPlane, Register, ActivatePublication,
     RollBackStream, Abandon, AppendTail, Drain, Open, WasActive
<1>5. ASSUME NEW r \in Replicas, NEW role \in Served, loc[r][role] # None
      PROVE  loc[r][role].gen \in Gens
  <2>1. loc[r][role] \in Locals
    BY <1>5 DEF CellInv, CellTypeOK, Served, Roles
  <2> QED
    BY <2>1 DEF Locals
<1>6. ASSUME NEW r \in Replicas, work[r].dir # None, work[r].dir.act # None
      PROVE  work[r].dir.act \in Gens
  <2>1. work[r].dir \in Directives
    BY <1>6 DEF CellInv, CellTypeOK, Passes
  <2> QED
    BY <1>6, <2>1 DEF Directives
<1> QED
  BY <1>1, <1>3, <1>4, <1>5, <1>6 DEF FollowInv, WasActive

(* A step of a replica that brings no generation into its served roles, or *)
(* one that was active, and keeps, drops or reads a directive.             *)
LEMMA StepFollow ==
    ASSUME CellInv', FollowInv, NEW r \in Replicas, NEW g, UNCHANGED <<act, status>>,
           \A q \in Replicas \ {r} : loc'[q] = loc[q] /\ work'[q] = work[q],
           ServesOnly(loc'[r], loc[r], g), g = None \/ WasActive(g),
           work'[r].dir # None /\ work'[r].dir.act # None => WasActive(work'[r].dir.act)
    PROVE  FollowInv'
<1>1. ASSUME NEW q \in Replicas, NEW role \in Served, loc'[q][role] # None
      PROVE  WasActive(loc'[q][role].gen)
  <2>1. CASE q # r
    BY <1>1, <2>1 DEF FollowInv
  <2>2. CASE q = r
    <3>1. loc'[r][role] \in Locals
      BY <1>1, <2>2 DEF CellInv, CellTypeOK, Served, Roles
    <3>2. loc'[r][role].gen # None
      BY <3>1, NoneAssumption DEF Locals
    <3> QED
      BY <1>1, <2>2, <3>2 DEF ServesOnly, FollowInv
  <2> QED
    BY <2>1, <2>2
<1>2. ASSUME NEW q \in Replicas, work'[q].dir # None, work'[q].dir.act # None
      PROVE  WasActive(work'[q].dir.act)
  BY <1>2 DEF FollowInv
<1>3. act' # None => WasActive(act')
  BY DEF FollowInv
<1> QED
  BY <1>1, <1>2, <1>3 DEF FollowInv, WasActive

LEMMA StageServes ==
    ASSUME CellInv, NEW r \in Replicas, NEW state, Stage(r, state), NEW g
    PROVE  ServesOnly(loc'[r], loc[r], g)
<1>1. loc \in [Replicas -> LocalRecords]
  BY DEF CellInv, CellTypeOK, LocalRecords
<1>2. \A role \in Served : loc'[r][role] = loc[r][role]
  BY <1>1 DEF Stage, LocalRecords, Served, Roles
<1> QED
  BY <1>2 DEF ServesOnly

LEMMA CatchUpServes ==
    ASSUME CellInv, NEW r \in Replicas, CatchUp(r), NEW g
    PROVE  ServesOnly(loc'[r], loc[r], g)
<1> DEFINE role == CHOOSE role \in Roles : role \in RoleOf(r, work[r].gen)
<1>1. HeldIn(loc[r], work[r].gen)
  BY PassFacts DEF CatchUp, At
<1>2. role \in Roles /\ loc[r][role] \in Locals /\ loc[r][role] # None
  <2>1. role \in RoleOf(r, work[r].gen) /\ \A q \in RoleOf(r, work[r].gen) : q \in Roles /\ loc[r][q] \in Locals
    BY <1>1, LocalOfHeld, Zenon
  <2> HIDE DEF role
  <2> QED
    BY <2>1 DEF RoleOf
<1>3. UNCHANGED loc \/ loc' = [loc EXCEPT ![r][role].applied = work[r].req]
  BY DEF CatchUp
<1> HIDE DEF role
<1>4. loc \in [Replicas -> LocalRecords]
  BY DEF CellInv, CellTypeOK, LocalRecords
<1>5. CASE loc' = [loc EXCEPT ![r][role].applied = work[r].req]
  <2>1. loc'[r][role] = [loc[r][role] EXCEPT !.applied = work[r].req]
    BY <1>2, <1>4, <1>5 DEF LocalRecords
  <2>2. loc'[r][role].gen = loc[r][role].gen
    BY <1>2, <2>1 DEF Locals
  <2>3. \A q \in Roles \ {role} : loc'[r][q] = loc[r][q]
    BY <1>2, <1>4, <1>5 DEF LocalRecords
  <2> QED
    BY <1>2, <2>2, <2>3 DEF ServesOnly, Served, Roles
<1>6. CASE UNCHANGED loc
  BY <1>6 DEF ServesOnly
<1> QED
  BY <1>3, <1>5, <1>6

(* A step of a replica leaves the other replicas and the stream alone.     *)
LEMMA OthersStay ==
    ASSUME CellInv, NEW r \in Replicas, Reconcile(r) \/ Interrupt(r)
    PROVE  /\ \A q \in Replicas \ {r} : loc'[q] = loc[q] /\ work'[q] = work[q]
           /\ UNCHANGED <<act, status>>
<1>1. work \in [Replicas -> Passes] /\ loc \in [Replicas -> LocalRecords]
  BY DEF CellInv, CellTypeOK, LocalRecords
<1>2. CASE Begin(r)
  BY <1>1, <1>2 DEF Begin, authority
<1>3. CASE LoadGeneration(r)
  BY <1>1, <1>3 DEF LoadGeneration, EndPass, Advance, authority
<1>4. CASE Build(r)
  BY <1>1, <1>4 DEF Build, Goto, Stage, authority
<1>5. CASE CatchUp(r)
  BY <1>1, <1>5 DEF CatchUp, Goto, authority
<1>6. CASE ReportBuilt(r)
  BY <1>1, <1>6 DEF ReportBuilt, Goto, Advance, authority
<1>7. CASE ReportFailure(r)
  BY <1>1, <1>7 DEF ReportFailure, EndPass, authority
<1>8. CASE ReportState(r)
  BY <1>1, <1>8 DEF ReportState, EndPass, Advance, authority
<1>9. CASE Align(r)
  BY <1>1, <1>9 DEF Align, EndPass, Advance, authority
<1>10. CASE Interrupt(r)
  BY <1>1, <1>10 DEF Interrupt, EndPass, Stage, authority
<1> QED
  BY <1>2, <1>3, <1>4, <1>5, <1>6, <1>7, <1>8, <1>9, <1>10 DEF Reconcile

LEMMA NextFollow == CellInv /\ FollowInv /\ [Next]_vars => FollowInv'
<1> SUFFICES ASSUME CellInv, FollowInv, [Next]_vars PROVE FollowInv'
  OBVIOUS
<1>1. CASE ControlPlane
  BY <1>1, ControlPlaneFollow
<1>2. CASE UNCHANGED vars
  BY <1>2 DEF vars, FollowInv, WasActive
<1>3. ASSUME NEW r \in Replicas, Reconcile(r) \/ Interrupt(r)
      PROVE  FollowInv'
  <2>0. CellInv'
    BY NextInv
  <2>1. /\ \A q \in Replicas \ {r} : loc'[q] = loc[q] /\ work'[q] = work[q]
        /\ UNCHANGED <<act, status>>
    BY <1>3, OthersStay
  <2>2. work'[r].dir # None /\ work'[r].dir.act # None => WasActive(work'[r].dir.act)
    <3>1. work'[r].dir \in {work[r].dir, None, Directive(r)}
      BY <1>3, BeginInv, LoadGenerationInv, BuildInv, CatchUpInv, ReportBuiltInv,
         ReportFailureInv, AlignInv, ReportStateInv, InterruptInv DEF Reconcile
    <3>2. Directive(r).act # None => WasActive(Directive(r).act)
      BY DEF Directive, FollowInv
    <3> QED
      BY <3>1, <3>2 DEF FollowInv
  <2>3. CASE Align(r)
    <3>1. /\ work[r].dir \in Directives /\ work[r].gen = work[r].dir.act
          /\ ServesOnly(loc'[r], loc[r], work[r].gen)
      BY <2>3, AlignInv
    <3>2. work[r].gen \in Gens
      BY <2>3, PassFacts DEF Align, At
    <3>3. WasActive(work[r].gen)
      BY <3>1, <3>2, NoneAssumption DEF FollowInv
    <3> QED
      BY <2>0, <2>1, <2>2, <3>1, <3>3, StepFollow
  <2>4. CASE UNCHANGED loc \/ CatchUp(r)
             \/ \E state \in {"Building", "Ready", "Failed"} : Stage(r, state)
    <3>1. ServesOnly(loc'[r], loc[r], None)
      <4>1. CASE UNCHANGED loc
        BY <4>1 DEF ServesOnly
      <4> QED
        BY <2>4, <4>1, CatchUpServes, StageServes
    <3> QED
      BY <2>0, <2>1, <2>2, <3>1, StepFollow
  <2> QED
    BY <1>3, <2>3, <2>4 DEF Reconcile, Interrupt, Build, Begin, LoadGeneration,
       ReportBuilt, ReportFailure, ReportState
<1> QED
  BY <1>1, <1>2, <1>3 DEF Next

(* No replica serves a generation the authority never activated, however   *)
(* stale the directive it acts on is.                                      *)
THEOREM ReplicasFollowAuthority == Spec => []LocalFollowsAuthority
<1>1. Init => FollowInv
  BY DEF Init, FollowInv, Idle, Served, Roles
<1>2. FollowInv => LocalFollowsAuthority
  BY DEF FollowInv, LocalFollowsAuthority, WasActive, Served
<1> QED
  BY <1>1, <1>2, NextFollow, CellInvariant, PTL DEF Spec

-----------------------------------------------------------------------------
(* Checkpoints.  What the authority believes is kept replica by replica:   *)
(* CheckpointHeld says nothing of a generation that is not held, nor of    *)
(* the step between the report of a generation and its alignment, nor why  *)
(* the generation an activation drops is not the active one.               *)

Up == {"Ready", "Serving"}
InRole(l, role, g) == l[role] # None /\ l[role].gen = g

(* A generation has one role, what is served is built, and only what is    *)
(* built has mutations applied.                                            *)
OneRole(l) == \A p, q \in Roles : l[p] # None /\ l[q] # None /\ l[p].gen = l[q].gen => p = q
ServedIsUp(l) == \A role \in Served : l[role] # None => l[role].state \in Up
AppliedIsUp(l) == \A role \in Roles : l[role] # None /\ l[role].state \notin Up => l[role].applied = 0
LocalOK(l) == OneRole(l) /\ ServedIsUp(l) /\ AppliedIsUp(l)

(* The subject of a pass is built and not past its required sequence, then *)
(* at it, and then no less than its checkpoint.                            *)
StepOK(w, l, c) ==
    w.pc \in {"tail", "report", "align"} =>
        \E role \in Roles :
            /\ InRole(l, role, w.gen) /\ l[role].state \in Up
            /\ w.pc = "tail" => l[role].applied <= w.req
            /\ w.pc # "tail" => l[role].applied = w.req
            /\ w.pc = "align" /\ c[w.gen] # None => c[w.gen].applied <= l[role].applied

Covered(rec, c) ==
    c # None => rec.applied >= c.applied /\ (c.state \in Servable => rec.state \in Up)
CoverOK(l, c) ==
    \A role \in Roles :
        l[role] # None /\ (role = "staged" => Forward(l[role].gen)) => Covered(l[role], c[l[role].gen])

(* The checkpoint of a generation that the replica does not hold claims    *)
(* nothing, on the way forward.                                            *)
Claimless(c) == c # None => c.applied = 0 /\ c.state \notin Servable
MissingOK(l, c) == \A g \in Gens : Forward(g) /\ ~HeldIn(l, g) => Claimless(c[g])

(* Nobody reports a generation that is not registered.                     *)
KnownOK(w, c) ==
    /\ w.pc \notin {"idle", "load"} => status[w.gen] # "unknown"
    /\ \A g \in Gens : status[g] = "unknown" => c[g] = None

(* A replica that serves the active generation acts on a directive that    *)
(* names it, unless the stream went back.                                  *)
DirectedOK(w, l) ==
    ~StreamRolledBack /\ w.dir # None /\ (\E role \in Served : InRole(l, role, act)) => w.dir.act = act

ReplicaOK(w, l, c) ==
    LocalOK(l) /\ StepOK(w, l, c) /\ CoverOK(l, c) /\ MissingOK(l, c) /\ KnownOK(w, c) /\ DirectedOK(w, l)

StreamOK == prior # None => act # None /\ prior # act

BeliefInv ==
    /\ StreamOK
    /\ \A r \in Replicas : ReplicaOK(work[r], loc[r], ckpt[r])

Beliefs == CellInv /\ FollowInv /\ BeliefInv

-----------------------------------------------------------------------------
(* What the parts of the cell are, for one replica.                        *)
LEMMA ReplicaTypes ==
    ASSUME CellInv, NEW r \in Replicas
    PROVE  /\ loc[r] \in LocalRecords /\ work[r] \in Passes /\ ckpt[r] \in [Gens -> Checkpoints \cup {None}]
           /\ \A role \in Roles : loc[r][role] # None =>
                /\ loc[r][role] \in Locals /\ loc[r][role].gen \in Gens /\ loc[r][role].applied \in Nat
           /\ \A g \in Gens : ckpt[r][g] # None => ckpt[r][g].applied \in Nat
<1>1. loc[r] \in LocalRecords /\ work[r] \in Passes /\ ckpt[r] \in [Gens -> Checkpoints \cup {None}]
  BY DEF CellInv, CellTypeOK, LocalRecords
<1>2. \A role \in Roles : loc[r][role] # None => loc[r][role] \in Locals
  BY <1>1 DEF LocalRecords
<1>3. \A rec \in Locals : rec.gen \in Gens /\ rec.applied \in Nat
  BY CellAssumption DEF Locals
<1>4. \A g \in Gens : ckpt[r][g] # None => ckpt[r][g] \in Checkpoints
  BY <1>1
<1>5. \A c \in Checkpoints : c.applied \in Nat
  BY CellAssumption DEF Checkpoints
<1> QED
  BY <1>1, <1>2, <1>3, <1>4, <1>5

(* The role of a generation is where LocalOf finds it.                     *)
LEMMA LocalIs ==
    ASSUME CellInv, NEW r \in Replicas, OneRole(loc[r]), NEW g, NEW role \in Roles, InRole(loc[r], role, g)
    PROVE  LocalOf(r, g) = loc[r][role] /\ Holds(r, g) /\ (Built(r, g) <=> loc[r][role].state \in Up)
           /\ (CHOOSE q \in Roles : q \in RoleOf(r, g)) = role
<1>1. role \in RoleOf(r, g)
  BY DEF RoleOf, InRole
<1>2. \A q \in RoleOf(r, g) : q = role
  BY DEF RoleOf, InRole, OneRole
<1>3. (CHOOSE q \in Roles : q \in RoleOf(r, g)) \in RoleOf(r, g)
  BY <1>1
<1>4. (CHOOSE q \in Roles : q \in RoleOf(r, g)) = role
  BY <1>2, <1>3
<1>5. LocalOf(r, g) = loc[r][role]
  BY <1>4 DEF LocalOf
<1> QED
  BY <1>1, <1>4, <1>5 DEF Holds, Built, Up

LEMMA HeldRole ==
    ASSUME NEW l, NEW g
    PROVE  HeldIn(l, g) <=> \E role \in Roles : InRole(l, role, g)
BY DEF HeldIn, InRole

LEMMA HoldsRole ==
    ASSUME NEW r, NEW g
    PROVE  Holds(r, g) <=> HeldIn(loc[r], g)
BY DEF Holds, RoleOf, HeldIn

(* A pass that ends or goes on with a later phase.                         *)
LEMMA PassFromFresh ==
    ASSUME NEW k, NEW dir, NEW l
    PROVE  PassFrom(k, dir, l).pc \in {"idle", "load"}
BY DEF PassFrom, Idle

Fresh(w) == w.pc \in {"idle", "load"}

LEMMA FreshPass ==
    ASSUME CellInv, NEW r \in Replicas, EndPass(r) \/ \E l : Advance(r, l)
    PROVE  Fresh(work'[r])
<1>1. work \in [Replicas -> Passes]
  BY DEF CellInv, CellTypeOK
<1>2. CASE EndPass(r)
  <2>1. work'[r] = Idle
    BY <1>1, <1>2 DEF EndPass
  <2> QED
    BY <2>1 DEF Fresh, Idle
<1>3. ASSUME NEW l, Advance(r, l) PROVE Fresh(work'[r])
  <2>1. work'[r] = PassFrom(work[r].phase, work[r].dir, l)
    BY <1>1, <1>3 DEF Advance
  <2> QED
    BY <2>1, PassFromFresh DEF Fresh
<1> QED
  BY <1>2, <1>3

(* A step of one replica, the authority's stream staying.                  *)
LEMMA ReplicaStep ==
    ASSUME CellInv, BeliefInv, NEW r \in Replicas, UNCHANGED authority,
           \A q \in Replicas \ {r} : loc'[q] = loc[q] /\ work'[q] = work[q] /\ ckpt'[q] = ckpt[q],
           ReplicaOK(work'[r], loc'[r], ckpt'[r])
    PROVE  BeliefInv'
<1>1. UNCHANGED <<act, prior, status>>
  BY DEF authority
<1>2. \A q \in Replicas : ReplicaOK(work'[q], loc'[q], ckpt'[q])
  BY DEF BeliefInv
<1> QED
  BY <1>1, <1>2 DEF BeliefInv, StreamOK, ReplicaOK, CoverOK, MissingOK, KnownOK, DirectedOK,
     Forward, Open, StreamRolledBack

-----------------------------------------------------------------------------
(* The control plane.                                                      *)

(* The way forward only loses generations, but for a registered one.       *)
LEMMA ForwardShrinks ==
    ASSUME CellInv, FollowInv, StreamOK, ControlPlane, NEW g \in Gens, Forward(g)'
    PROVE  Forward(g) \/ status[g] = "unknown"
<1>1. status \in [Gens -> {"unknown", "staged", "active", "superseded", "abandoned"}]
      /\ act \in Gens \cup {None} /\ prior \in Gens \cup {None} /\ pub \in Gens \cup {None}
  BY DEF CellInv, CellTypeOK
<1>2. ASSUME NEW h \in Gens, Register(h) PROVE Forward(g) \/ status[g] = "unknown"
  <2>1. status' = [status EXCEPT ![h] = "staged"] /\ UNCHANGED <<act, prior>> /\ status[h] = "unknown"
    BY <1>2 DEF Register
  <2>2. StreamRolledBack => StreamRolledBack'
    BY <1>1, <2>1 DEF StreamRolledBack
  <2>3. status'[g] = status[g] \/ g = h
    BY <1>1, <2>1
  <2> QED
    BY <2>1, <2>2, <2>3 DEF Forward, Open
<1>3. CASE ActivatePublication
  <2>1. \A k \in Gens : status'[k] = IF k = pub THEN "active" ELSE IF k = act THEN "superseded" ELSE status[k]
    BY <1>3 DEF ActivatePublication
  <2>2. act' = pub /\ Open(pub)
    BY <1>3 DEF ActivatePublication
  <2> QED
    BY <2>1, <2>2 DEF Forward, Open
<1>4. CASE RollBackStream
  <2>1. prior' = None /\ prior \in Gens /\ act \in Gens /\ prior # act
        /\ status' = [status EXCEPT ![prior] = "active", ![act] = "superseded"]
    BY <1>1, <1>4 DEF RollBackStream, StreamOK
  <2>2. status'[act] = "superseded" /\ (status'[g] = "staged" => status[g] = "staged")
    BY <1>1, <2>1
  <2>3. StreamRolledBack'
    BY <2>1, <2>2 DEF StreamRolledBack
  <2> QED
    BY <2>2, <2>3 DEF Forward, Open
<1>5. CASE Abandon
  <2>1. status' = [status EXCEPT ![pub] = "abandoned"] /\ UNCHANGED <<act, prior>> /\ status[pub] = "staged"
        /\ pub \in Gens
    BY <1>1, <1>5 DEF Abandon, Open
  <2>2. StreamRolledBack => StreamRolledBack'
    BY <1>1, <2>1 DEF StreamRolledBack
  <2>3. status'[g] = "staged" => status[g] = "staged"
    BY <1>1, <2>1
  <2> QED
    BY <2>1, <2>2, <2>3 DEF Forward, Open
<1>6. CASE UNCHANGED <<act, prior, status>>
  BY <1>6 DEF Forward, Open, StreamRolledBack
<1> QED
  BY <1>2, <1>3, <1>4, <1>5, <1>6 DEF ControlPlane, AppendTail, Drain

(* The active generation stays the one a serving replica is directed to.   *)
LEMMA ControlPlaneDirects ==
    ASSUME CellInv, FollowInv, StreamOK, ControlPlane, NEW r \in Replicas, DirectedOK(work[r], loc[r])
    PROVE  DirectedOK(work[r], loc[r])'
<1>1. status \in [Gens -> {"unknown", "staged", "active", "superseded", "abandoned"}]
      /\ act \in Gens \cup {None} /\ prior \in Gens \cup {None} /\ pub \in Gens \cup {None}
  BY DEF CellInv, CellTypeOK
<1>2. UNCHANGED <<loc, work>>
  BY DEF ControlPlane, Register, ActivatePublication, RollBackStream, Abandon, AppendTail, Drain
<1>3. CASE UNCHANGED act /\ (StreamRolledBack => StreamRolledBack')
  BY <1>2, <1>3 DEF DirectedOK
<1>4. ASSUME NEW h \in Gens, Register(h) PROVE StreamRolledBack => StreamRolledBack'
  BY <1>1, <1>4 DEF Register, StreamRolledBack
<1>5. CASE ActivatePublication
  <2>1. act' = pub /\ status[pub] = "staged"
    BY <1>5 DEF ActivatePublication, Open
  <2>2. ~\E role \in Served : InRole(loc[r], role, pub)
    BY <2>1 DEF FollowInv, WasActive, InRole
  <2> QED
    BY <1>2, <2>1, <2>2 DEF DirectedOK
<1>6. CASE RollBackStream
  <2>1. prior' = None /\ prior \in Gens /\ act \in Gens /\ prior # act
        /\ status' = [status EXCEPT ![prior] = "active", ![act] = "superseded"]
    BY <1>1, <1>6 DEF RollBackStream, StreamOK
  <2>2. status'[act] = "superseded"
    BY <1>1, <2>1
  <2> QED
    BY <2>1, <2>2 DEF StreamRolledBack, DirectedOK
<1>7. CASE Abandon
  <2>1. status' = [status EXCEPT ![pub] = "abandoned"] /\ UNCHANGED <<act, prior>> /\ status[pub] = "staged"
    BY <1>7 DEF Abandon, Open
  <2> QED
    BY <1>1, <1>3, <2>1 DEF StreamRolledBack
<1>8. CASE UNCHANGED <<act, prior, status>>
  BY <1>3, <1>8 DEF StreamRolledBack
<1> QED
  BY <1>3, <1>4, <1>5, <1>6, <1>7, <1>8 DEF ControlPlane, AppendTail, Drain, Register

LEMMA ControlPlaneBeliefs ==
    ASSUME Beliefs, ControlPlane
    PROVE  BeliefInv'
<1> USE DEF Beliefs
<1>1. status \in [Gens -> {"unknown", "staged", "active", "superseded", "abandoned"}]
      /\ act \in Gens \cup {None} /\ prior \in Gens \cup {None} /\ pub \in Gens \cup {None}
  BY DEF CellInv, CellTypeOK
<1>2. UNCHANGED <<ckpt, loc, work>> /\ StreamOK
  BY DEF ControlPlane, Register, ActivatePublication, RollBackStream, Abandon, AppendTail, Drain, BeliefInv
<1>3. StreamOK'
  <2>1. CASE ActivatePublication
    <3>1. act' = pub /\ prior' = act /\ pub # None /\ status[pub] = "staged"
      BY <2>1 DEF ActivatePublication, Open
    <3>2. act # None => status[act] # "staged"
      BY DEF FollowInv, WasActive
    <3> QED
      BY <3>1, <3>2 DEF StreamOK
  <2>2. CASE RollBackStream
    BY <2>2 DEF RollBackStream, StreamOK
  <2>3. CASE UNCHANGED <<act, prior>>
    BY <1>2, <2>3 DEF StreamOK
  <2> QED
    BY <2>1, <2>2, <2>3 DEF ControlPlane, Register, Abandon, AppendTail, Drain
<1>4. \A g \in Gens : status'[g] = "unknown" => status[g] = "unknown"
  BY <1>1 DEF ControlPlane, Register, ActivatePublication, RollBackStream, Abandon, AppendTail, Drain
<1>5. ASSUME NEW r \in Replicas PROVE ReplicaOK(work[r], loc[r], ckpt[r])'
  <2>1. ReplicaOK(work[r], loc[r], ckpt[r])
    BY DEF BeliefInv
  <2>2. /\ \A role \in Roles : loc[r][role] # None => loc[r][role].gen \in Gens
        /\ ~Fresh(work[r]) => work[r].gen \in Gens
    BY ReplicaTypes, PassFacts DEF Fresh
  <2>3. (LocalOK(loc[r]) /\ StepOK(work[r], loc[r], ckpt[r]))'
    BY <1>2, <2>1 DEF ReplicaOK, LocalOK, OneRole, ServedIsUp, AppliedIsUp, StepOK, InRole
  <2>4. KnownOK(work[r], ckpt[r])'
    BY <1>2, <1>4, <2>1, <2>2 DEF ReplicaOK, KnownOK, Fresh
  <2>5. \A g \in Gens : Forward(g)' => Forward(g) \/ ckpt[r][g] = None
    BY <1>2, <2>1, ForwardShrinks DEF ReplicaOK, KnownOK
  <2>6. CoverOK(loc[r], ckpt[r])'
    BY <1>2, <2>1, <2>2, <2>5 DEF ReplicaOK, CoverOK, Covered
  <2>7. MissingOK(loc[r], ckpt[r])'
    BY <1>2, <2>1, <2>5 DEF ReplicaOK, MissingOK, Claimless, HeldIn
  <2>8. DirectedOK(work[r], loc[r])'
    BY <1>2, <2>1, ControlPlaneDirects DEF ReplicaOK
  <2> QED
    BY <2>3, <2>4, <2>6, <2>7, <2>8 DEF ReplicaOK
<1> QED
  BY <1>3, <1>5 DEF BeliefInv

-----------------------------------------------------------------------------
(* The steps of a pass that leave the local record and the checkpoints.    *)

LEMMA QuietStep ==
    ASSUME NEW w, NEW l, NEW c, NEW v, ReplicaOK(w, l, c),
           Fresh(v) \/ (v.pc \in {"build", "fail", "state"} /\ status[v.gen] # "unknown"),
           v.dir \in {w.dir, None} \/ v.dir.act = act
    PROVE  ReplicaOK(v, l, c)
<1>1. StepOK(v, l, c)
  BY DEF StepOK, Fresh
<1>2. KnownOK(v, c)
  BY DEF KnownOK, Fresh, ReplicaOK
<1>3. DirectedOK(v, l)
  BY DEF DirectedOK, ReplicaOK
<1> QED
  BY <1>1, <1>2, <1>3 DEF ReplicaOK

LEMMA BeginBelief ==
    ASSUME Beliefs, NEW r \in Replicas, Begin(r)
    PROVE  ReplicaOK(work'[r], loc'[r], ckpt'[r])
<1> USE DEF Beliefs
<1>1. ReplicaOK(work[r], loc[r], ckpt[r]) /\ UNCHANGED <<loc, ckpt>>
  BY DEF BeliefInv, Begin
<1>2. work'[r].dir \in {Directive(r), None}
  BY BeginInv
<1>3. Fresh(work'[r])
  <2>1. work'[r] = PassFrom(0, Directive(r), loc[r])
    BY DEF Begin, CellInv, CellTypeOK
  <2> QED
    BY <2>1, PassFromFresh DEF Fresh
<1>4. Directive(r).act = act
  BY DEF Directive
<1> QED
  BY <1>1, <1>2, <1>3, <1>4, QuietStep

LEMMA LoadBelief ==
    ASSUME Beliefs, NEW r \in Replicas, LoadGeneration(r)
    PROVE  ReplicaOK(work'[r], loc'[r], ckpt'[r])
<1> USE DEF Beliefs
<1>1. ReplicaOK(work[r], loc[r], ckpt[r]) /\ UNCHANGED <<loc, ckpt>>
  BY DEF BeliefInv, LoadGeneration
<1>2. work'[r].dir \in {work[r].dir, None}
  BY LoadGenerationInv
<1>3. CASE EndPass(r) \/ Advance(r, loc[r])
  BY <1>1, <1>2, <1>3, FreshPass, QuietStep
<1>4. CASE /\ Admissible(work[r].gen)
           /\ work' = [work EXCEPT
                ![r].pc = IF InPhase(r, "serve") \/ InPhase(r, "publish") THEN "build" ELSE "state",
                ![r].req = required[work[r].gen]]
  <2>1. work[r] \in Passes /\ work \in [Replicas -> Passes]
    BY DEF CellInv, CellTypeOK
  <2> DEFINE pc == IF InPhase(r, "serve") \/ InPhase(r, "publish") THEN "build" ELSE "state"
             n == required[work[r].gen]
  <2>2. pc \in {"build", "state"} /\ work' = [work EXCEPT ![r].pc = pc, ![r].req = n]
    BY <1>4
  <2> HIDE DEF pc, n
  <2>3. work'[r] = [work[r] EXCEPT !.pc = pc, !.req = n]
    BY <2>1, <2>2
  <2>4. work'[r].pc = pc /\ work'[r].gen = work[r].gen
    BY <2>1, <2>3 DEF Passes
  <2>5. status[work[r].gen] # "unknown"
    BY <1>4 DEF Admissible
  <2> QED
    BY <1>1, <1>2, <2>2, <2>4, <2>5, QuietStep
<1> QED
  BY <1>3, <1>4 DEF LoadGeneration

(* The place a pass goes to.                                               *)
LEMMA GotoFacts ==
    ASSUME CellInv, NEW r \in Replicas, NEW pc, Goto(r, pc)
    PROVE  /\ work'[r].pc = pc /\ work'[r].gen = work[r].gen
           /\ work'[r].req = work[r].req /\ work'[r].dir = work[r].dir
<1>1. work[r] \in Passes /\ work \in [Replicas -> Passes]
  BY DEF CellInv, CellTypeOK
<1>2. work'[r] = [work[r] EXCEPT !.pc = pc]
  BY <1>1 DEF Goto
<1> QED
  BY <1>1, <1>2 DEF Passes

(* A generation is published into the staged slot.                         *)
LEMMA StageBelief ==
    ASSUME Beliefs, NEW r \in Replicas, work[r].pc = "build", ~Refused(r), ~Built(r, work[r].gen),
           NEW state \in {"Building", "Ready", "Failed"}, Stage(r, state)
    PROVE  /\ LocalOK(loc'[r]) /\ CoverOK(loc'[r], ckpt[r]) /\ MissingOK(loc'[r], ckpt[r])
           /\ \A role \in Served : loc'[r][role] = loc[r][role]
           /\ loc'[r]["staged"] = [gen |-> work[r].gen, applied |-> 0, state |-> state]
<1> USE DEF Beliefs
<1> DEFINE g == work[r].gen
           rec == [gen |-> g, applied |-> 0, state |-> state]
           l == loc[r]
           m == loc'[r]
           c == ckpt[r]
<1>1. g \in Gens /\ loc \in [Replicas -> LocalRecords]
  BY PassFacts DEF CellInv, CellTypeOK, LocalRecords
<1>2. rec # None /\ rec.gen = g /\ rec.applied = 0 /\ rec.state = state
  <2>1. rec \in Locals
    BY <1>1, CellAssumption DEF Locals
  <2> QED
    BY <2>1, NoneAssumption
<1>3. m = [l EXCEPT !["staged"] = rec] /\ l \in LocalRecords
  BY <1>1 DEF Stage
<1>4. m["staged"] = rec /\ m["active"] = l["active"] /\ m["previous"] = l["previous"]
  BY <1>3 DEF LocalRecords, Roles
<1>5. ReplicaOK(work[r], l, c)
  BY DEF BeliefInv
<1>6. \A role \in Roles : l[role] # None => l[role].gen \in Gens /\ l[role].applied \in Nat
  BY ReplicaTypes
<1>7. \A k \in Gens : c[k] # None => c[k].applied \in Nat
  BY ReplicaTypes
<1>8. \A role \in Roles : InRole(l, role, g) => role = "staged" /\ l["staged"].state \notin Up
  <2> SUFFICES ASSUME NEW role \in Roles, InRole(l, role, g) PROVE role = "staged" /\ l["staged"].state \notin Up
    OBVIOUS
  <2>1. l[role].state \notin Up
    BY <1>5, LocalIs DEF ReplicaOK, LocalOK
  <2> QED
    BY <1>5, <2>1 DEF ReplicaOK, LocalOK, ServedIsUp, InRole, Roles, Served
<1>9. l["staged"] # None => l["staged"].gen = g
  BY HoldsRole, HeldRole, <1>8 DEF Refused, InRole, Roles
<1>10. Forward(g) => Claimless(c[g])
  <2> SUFFICES ASSUME Forward(g) PROVE Claimless(c[g])
    OBVIOUS
  <2>1. CASE ~HeldIn(l, g)
    BY <1>1, <1>5, <2>1 DEF ReplicaOK, MissingOK
  <2>2. CASE HeldIn(l, g)
    <3>1. InRole(l, "staged", g) /\ l["staged"].state \notin Up
      BY <1>8, <2>2, HeldRole
    <3>2. l["staged"].applied = 0
      BY <1>5, <3>1 DEF ReplicaOK, LocalOK, AppliedIsUp, InRole, Roles
    <3>3. Covered(l["staged"], c[g])
      BY <1>5, <3>1 DEF ReplicaOK, CoverOK, InRole, Roles
    <3> QED
      BY <1>1, <1>7, <3>1, <3>2, <3>3 DEF Covered, Claimless
  <2> QED
    BY <2>1, <2>2
<1> HIDE DEF rec, m, l, c
<1>11. LocalOK(m)
  <2>1. OneRole(m)
    BY <1>2, <1>4, <1>5, <1>8 DEF ReplicaOK, LocalOK, OneRole, InRole, Roles
  <2>2. ServedIsUp(m)
    BY <1>4, <1>5 DEF ReplicaOK, LocalOK, ServedIsUp, Served
  <2>3. AppliedIsUp(m)
    BY <1>2, <1>4, <1>5 DEF ReplicaOK, LocalOK, AppliedIsUp, Roles
  <2> QED
    BY <2>1, <2>2, <2>3 DEF LocalOK
<1>12. CoverOK(m, c)
  <2> SUFFICES ASSUME NEW role \in Roles, m[role] # None, role = "staged" => Forward(m[role].gen)
               PROVE  Covered(m[role], c[m[role].gen])
    BY DEF CoverOK
  <2>1. CASE role = "staged"
    BY <1>1, <1>2, <1>4, <1>7, <1>10, <2>1 DEF Claimless, Covered
  <2>2. CASE role # "staged"
    <3>1. m[role] = l[role]
      BY <1>4, <2>2 DEF Roles
    <3> QED
      BY <1>5, <2>2, <3>1 DEF ReplicaOK, CoverOK
  <2> QED
    BY <2>1, <2>2
<1>13. MissingOK(m, c)
  <2>1. \A k \in Gens : HeldIn(l, k) => HeldIn(m, k)
    BY <1>2, <1>4, <1>9 DEF HeldIn, Roles
  <2> QED
    BY <1>5, <2>1 DEF ReplicaOK, MissingOK
<1> QED
  BY <1>4, <1>11, <1>12, <1>13 DEF rec, m, l, c, Served

(* A step that only works on the staged slot and goes on to the tail, to   *)
(* the failure report, or to nothing.                                      *)
LEMMA StagedStep ==
    ASSUME NEW w, NEW v, NEW l, NEW m, NEW c, ReplicaOK(w, l, c),
           LocalOK(m), CoverOK(m, c), MissingOK(m, c), \A role \in Served : m[role] = l[role],
           StepOK(v, m, c), Fresh(v) \/ status[v.gen] # "unknown", v.dir \in {w.dir, None}
    PROVE  ReplicaOK(v, m, c)
<1>1. DirectedOK(v, m)
  BY DEF ReplicaOK, DirectedOK, InRole
<1>2. KnownOK(v, c)
  BY DEF ReplicaOK, KnownOK, Fresh
<1> QED
  BY <1>1, <1>2 DEF ReplicaOK

LEMMA BuildBelief ==
    ASSUME Beliefs, NEW r \in Replicas, Build(r)
    PROVE  ReplicaOK(work'[r], loc'[r], ckpt'[r])
<1> USE DEF Beliefs
<1>1. /\ ReplicaOK(work[r], loc[r], ckpt[r]) /\ UNCHANGED ckpt
      /\ work[r].pc = "build" /\ status[work[r].gen] # "unknown"
  BY DEF BeliefInv, Build, At, ReplicaOK, KnownOK
<1>2. CASE Goto(r, "fail") /\ UNCHANGED loc
  BY <1>1, <1>2, GotoFacts, QuietStep
<1>3. CASE ~Refused(r) /\ Built(r, work[r].gen) /\ Goto(r, "tail") /\ UNCHANGED loc
  <2>1. PICK role \in Roles : InRole(loc[r], role, work[r].gen)
    BY <1>3, HoldsRole, HeldRole DEF Built
  <2>2. /\ LocalOf(r, work[r].gen) = loc[r][role] /\ Holds(r, work[r].gen) /\ loc[r][role].state \in Up
    BY <1>1, <1>3, <2>1, LocalIs DEF ReplicaOK, LocalOK
  <2>3. loc[r][role].applied \in Nat /\ work[r].req \in Nat
    BY <1>1, <2>1, ReplicaTypes, PassFacts, CellAssumption DEF InRole
  <2>4. loc[r][role].applied <= work[r].req
    BY <1>3, <2>2, <2>3 DEF Refused
  <2>5. /\ work'[r].pc = "tail" /\ work'[r].gen = work[r].gen
        /\ work'[r].req = work[r].req /\ work'[r].dir = work[r].dir
    BY <1>3, GotoFacts
  <2>6. StepOK(work'[r], loc[r], ckpt[r])
    BY <2>1, <2>2, <2>4, <2>5 DEF StepOK
  <2> QED
    BY <1>1, <1>3, <2>5, <2>6, StagedStep DEF ReplicaOK
<1>4. ASSUME ~Refused(r), ~Built(r, work[r].gen),
             \/ Stage(r, "Ready") /\ Goto(r, "tail")
             \/ Stage(r, "Failed") /\ Goto(r, "fail")
      PROVE  ReplicaOK(work'[r], loc'[r], ckpt'[r])
  <2>1. PICK state \in {"Building", "Ready", "Failed"} :
           Stage(r, state) /\ Goto(r, IF state = "Ready" THEN "tail" ELSE "fail")
    BY <1>4
  <2> DEFINE rec == [gen |-> work[r].gen, applied |-> 0, state |-> state]
  <2>2. /\ LocalOK(loc'[r]) /\ CoverOK(loc'[r], ckpt[r]) /\ MissingOK(loc'[r], ckpt[r])
        /\ \A role \in Served : loc'[r][role] = loc[r][role]
        /\ loc'[r]["staged"] = rec
    BY <1>1, <1>4, <2>1, StageBelief
  <2>3. rec # None /\ rec.gen = work[r].gen /\ rec.applied = 0 /\ rec.state = state
    <3>1. rec \in Locals
      BY <1>1, PassFacts, CellAssumption DEF Locals
    <3> QED
      BY <3>1, NoneAssumption
  <2> HIDE DEF rec
  <2>4. work[r].req \in Nat
    BY <1>1, PassFacts, CellAssumption
  <2>5. /\ work'[r].pc = IF state = "Ready" THEN "tail" ELSE "fail"
        /\ work'[r].gen = work[r].gen
        /\ work'[r].req = work[r].req /\ work'[r].dir = work[r].dir
    BY <2>1, GotoFacts
  <2>6. StepOK(work'[r], loc'[r], ckpt[r])
    <3>1. InRole(loc'[r], "staged", work[r].gen)
      BY <2>2, <2>3 DEF InRole
    <3> QED
      BY <2>2, <2>3, <2>4, <2>5, <3>1 DEF StepOK, Roles, Up
  <2> QED
    BY <1>1, <2>2, <2>5, <2>6, StagedStep
<1> QED
  BY <1>2, <1>3, <1>4 DEF Build

LEMMA InterruptBelief ==
    ASSUME Beliefs, NEW r \in Replicas, Interrupt(r)
    PROVE  ReplicaOK(work'[r], loc'[r], ckpt'[r])
<1> USE DEF Beliefs
<1>1. ReplicaOK(work[r], loc[r], ckpt[r]) /\ UNCHANGED ckpt /\ EndPass(r)
  BY DEF BeliefInv, Interrupt
<1>2. Fresh(work'[r]) /\ work'[r].dir = None
  BY <1>1, FreshPass, EndPassDir
<1>3. CASE UNCHANGED loc
  BY <1>1, <1>2, <1>3, QuietStep
<1>4. CASE At(r, "build") /\ ~Refused(r) /\ ~Built(r, work[r].gen) /\ Stage(r, "Building")
  <2>1. /\ LocalOK(loc'[r]) /\ CoverOK(loc'[r], ckpt[r]) /\ MissingOK(loc'[r], ckpt[r])
        /\ \A role \in Served : loc'[r][role] = loc[r][role]
    BY <1>4, StageBelief DEF At
  <2>2. StepOK(work'[r], loc'[r], ckpt[r])
    BY <1>2 DEF StepOK, Fresh
  <2> QED
    BY <1>1, <1>2, <2>1, <2>2, StagedStep
<1> QED
  BY <1>3, <1>4 DEF Interrupt

LEMMA CatchUpBelief ==
    ASSUME Beliefs, NEW r \in Replicas, CatchUp(r)
    PROVE  ReplicaOK(work'[r], loc'[r], ckpt'[r])
<1> USE DEF Beliefs
<1>1. /\ ReplicaOK(work[r], loc[r], ckpt[r]) /\ UNCHANGED ckpt
      /\ work[r].pc = "tail" /\ status[work[r].gen] # "unknown"
  BY DEF BeliefInv, CatchUp, At, ReplicaOK, KnownOK
<1>2. PICK role \in Roles :
        /\ InRole(loc[r], role, work[r].gen) /\ loc[r][role].state \in Up
        /\ loc[r][role].applied <= work[r].req
  BY <1>1 DEF ReplicaOK, StepOK
<1>3. (CHOOSE q \in Roles : q \in RoleOf(r, work[r].gen)) = role
  BY <1>1, <1>2, LocalIs DEF ReplicaOK, LocalOK
<1>4. CASE Goto(r, "fail") /\ UNCHANGED loc
  BY <1>1, <1>4, GotoFacts, QuietStep
<1>5. CASE loc' = [loc EXCEPT ![r][role].applied = work[r].req] /\ Goto(r, "report")
  <2> DEFINE l == loc[r]
             m == loc'[r]
             c == ckpt[r]
             g == work[r].gen
             rec == [l[role] EXCEPT !.applied = work[r].req]
  <2>1. loc \in [Replicas -> LocalRecords] /\ l \in LocalRecords
    BY DEF CellInv, CellTypeOK, LocalRecords
  <2>2. m = [l EXCEPT ![role] = rec]
    BY <1>5, <2>1
  <2>3. l[role] \in Locals /\ l[role].applied \in Nat /\ g \in Gens /\ work[r].req \in 0..MaxSeq
    BY <1>1, <1>2, ReplicaTypes, PassFacts DEF InRole
  <2>4. rec \in Locals /\ rec # None /\ rec.gen = g /\ rec.state = l[role].state
        /\ rec.applied = work[r].req /\ rec.applied >= l[role].applied
    <3>1. rec.gen = l[role].gen /\ rec.state = l[role].state /\ rec.applied = work[r].req
      BY <2>3 DEF Locals
    <3>2. rec \in Locals
      BY <2>3 DEF Locals
    <3> QED
      BY <1>2, <2>3, <3>1, <3>2, NoneAssumption, CellAssumption DEF InRole
  <2>5. \A k \in Gens : c[k] # None => c[k].applied \in Nat
    BY ReplicaTypes
  <2>6. work[r].req \in Nat
    BY <2>3, CellAssumption
  <2> HIDE DEF rec, m, c
  <2>7. m[role] = rec /\ \A q \in Roles \ {role} : m[q] = l[q]
    BY <2>1, <2>2 DEF LocalRecords
  <2>8. \A q \in Roles : /\ m[q] = None <=> l[q] = None
                         /\ l[q] # None => m[q].gen = l[q].gen /\ m[q].state = l[q].state
    BY <1>2, <2>4, <2>7 DEF InRole
  <2> HIDE DEF l, g
  <2>9. LocalOK(m)
    <3>1. OneRole(m) /\ ServedIsUp(m)
      BY <1>1, <2>8 DEF ReplicaOK, LocalOK, OneRole, ServedIsUp, Served, Roles, l
    <3>2. AppliedIsUp(m)
      BY <1>1, <1>2, <2>4, <2>7 DEF ReplicaOK, LocalOK, AppliedIsUp, l
    <3> QED
      BY <3>1, <3>2 DEF LocalOK
  <2>10. CoverOK(m, c)
    <3> SUFFICES ASSUME NEW q \in Roles, m[q] # None, q = "staged" => Forward(m[q].gen)
                 PROVE  Covered(m[q], c[m[q].gen])
      BY DEF CoverOK
    <3>1. Covered(l[q], c[l[q].gen]) /\ l[q] # None /\ m[q].gen = l[q].gen /\ m[q].state = l[q].state
      BY <1>1, <2>8 DEF ReplicaOK, CoverOK, l, c
    <3>2. CASE q = role
      <4>1. l[role].gen = g
        BY <1>2 DEF InRole, l, g
      <4> QED
        BY <2>3, <2>4, <2>5, <2>6, <2>7, <3>1, <3>2, <4>1 DEF Covered
    <3>3. CASE q # role
      BY <2>7, <3>1, <3>3
    <3> QED
      BY <3>2, <3>3
  <2>11. MissingOK(m, c)
    <3>1. \A k \in Gens : HeldIn(l, k) => HeldIn(m, k)
      BY <2>8 DEF HeldIn
    <3> QED
      BY <1>1, <3>1 DEF ReplicaOK, MissingOK, l, c
  <2>12. /\ work'[r].pc = "report" /\ work'[r].gen = g
         /\ work'[r].req = work[r].req /\ work'[r].dir = work[r].dir
    BY <1>5, GotoFacts DEF g
  <2>13. StepOK(work'[r], m, c)
    <3>1. InRole(m, role, g)
      BY <2>4, <2>7 DEF InRole
    <3>2. m[role].state \in Up /\ m[role].applied = work[r].req
      BY <1>2, <2>4, <2>7 DEF l
    <3> QED
      BY <2>12, <3>1, <3>2 DEF StepOK
  <2>14. KnownOK(work'[r], c)
    BY <1>1, <2>12 DEF ReplicaOK, KnownOK, g, c
  <2>15. DirectedOK(work'[r], m)
    <3>1. \A q \in Served : InRole(m, q, act) => InRole(l, q, act)
      BY <2>8 DEF InRole, Served, Roles
    <3> QED
      BY <1>1, <2>12, <3>1 DEF ReplicaOK, DirectedOK, l
  <2> QED
    BY <1>1, <2>9, <2>10, <2>11, <2>13, <2>14, <2>15 DEF ReplicaOK, m, c
<1> QED
  BY <1>3, <1>4, <1>5 DEF CatchUp

-----------------------------------------------------------------------------
(* Reports.                                                                *)

(* What a report may claim: what the replica has.                          *)
Honest(l, g, report) ==
    /\ report # None /\ report.applied \in Nat
    /\ \A role \in Roles : InRole(l, role, g) => Covered(l[role], report)
    /\ ~HeldIn(l, g) => Claimless(report)

LEMMA ReportStep ==
    ASSUME Beliefs, NEW r \in Replicas, NEW report, work[r].gen \in Gens, Honest(loc[r], work[r].gen, report),
           Persist(r, work[r].gen, report), status[work[r].gen] # "unknown",
           NEW v, v.dir \in {work[r].dir, None}, Fresh(v) \/ status[v.gen] # "unknown",
           StepOK(v, loc[r], ckpt'[r])
    PROVE  ReplicaOK(v, loc[r], ckpt'[r])
<1> USE DEF Beliefs
<1> DEFINE l == loc[r]
           c == ckpt[r]
           d == ckpt'[r]
           g == work[r].gen
<1>1. d[g] = report /\ \A k \in Gens \ {g} : d[k] = c[k]
  <2>1. ckpt \in [Replicas -> [Gens -> Checkpoints \cup {None}]]
    BY DEF CellInv, CellTypeOK
  <2> QED
    BY <2>1 DEF Persist
<1>2. ReplicaOK(work[r], l, c)
  BY DEF BeliefInv
<1>3. \A role \in Roles : l[role] # None => l[role].gen \in Gens
  BY ReplicaTypes
<1> HIDE DEF l, c, d, g
<1>4. CoverOK(l, d)
  <2> SUFFICES ASSUME NEW role \in Roles, l[role] # None, role = "staged" => Forward(l[role].gen)
               PROVE  Covered(l[role], d[l[role].gen])
    BY DEF CoverOK
  <2>1. CASE l[role].gen = g
    BY <1>1, <2>1 DEF Honest, InRole, l, g
  <2>2. CASE l[role].gen # g
    <3>1. d[l[role].gen] = c[l[role].gen]
      BY <1>1, <1>3, <2>2
    <3> QED
      BY <1>2, <3>1 DEF ReplicaOK, CoverOK
  <2> QED
    BY <2>1, <2>2
<1>5. MissingOK(l, d)
  BY <1>1, <1>2 DEF ReplicaOK, MissingOK, Honest, l, g
<1>6. KnownOK(v, d)
  BY <1>1, <1>2 DEF ReplicaOK, KnownOK, Fresh, g
<1>7. DirectedOK(v, l)
  BY <1>2 DEF ReplicaOK, DirectedOK
<1> QED
  BY <1>2, <1>4, <1>5, <1>6, <1>7 DEF ReplicaOK, l, d

LEMMA ReportOfHonest ==
    ASSUME Beliefs, NEW r \in Replicas, NEW g, NEW role \in Roles, InRole(loc[r], role, g), NEW readable
    PROVE  Honest(loc[r], g, ReportOf(r, g, readable))
           /\ ReportOf(r, g, readable).applied = loc[r][role].applied
<1> USE DEF Beliefs
<1> DEFINE rec == loc[r][role]
           content == IF readable /\ Built(r, g) THEN ContentOf(r) ELSE "zero"
           report == Checkpoint(rec.applied, StateReported(rec, work[r].req), content)
<1>1. OneRole(loc[r])
  BY DEF BeliefInv, ReplicaOK, LocalOK
<1>2. LocalOf(r, g) = rec
  BY <1>1, LocalIs
<1>3. ReportOf(r, g, readable) = report
  BY <1>2 DEF ReportOf
<1>4. rec \in Locals /\ rec.applied \in Nat
  BY ReplicaTypes DEF InRole
<1>5. HeldIn(loc[r], g)
  BY HeldRole
<1>6. report \in Reports
  BY <1>3, <1>5, ReportOfType
<1>7. report # None
  BY <1>6, NoneAssumption DEF Reports
<1>8. report.applied = rec.applied /\ report.state = StateReported(rec, work[r].req)
  BY DEF Checkpoint
<1>9. StateReported(rec, work[r].req) \in Servable => rec.state \in Up
  BY <1>4 DEF StateReported, Servable, Up, Locals
<1>10. \A q \in Roles : InRole(loc[r], q, g) => loc[r][q] = rec
  BY <1>1 DEF OneRole, InRole
<1> HIDE DEF rec, report
<1> QED
  BY <1>3, <1>4, <1>5, <1>7, <1>8, <1>9, <1>10 DEF Honest, Covered, rec

LEMMA FailureReportHonest ==
    ASSUME Beliefs, NEW r \in Replicas, NEW g, NEW readable
    PROVE  Honest(loc[r], g, FailureReport(r, g, readable))
<1> USE DEF Beliefs
<1> DEFINE n == IF Built(r, g) /\ readable THEN LocalOf(r, g).applied ELSE 0
           report == FailureReport(r, g, readable)
<1>1. OneRole(loc[r])
  BY DEF BeliefInv, ReplicaOK, LocalOK
<1>2. report \in Reports
  BY FailureReportType
<1>3. report # None
  BY <1>2, NoneAssumption DEF Reports
<1>4. report.applied = n /\ report.state = "failed"
  BY DEF FailureReport, Checkpoint
<1>5. ASSUME NEW role \in Roles, InRole(loc[r], role, g)
      PROVE  Covered(loc[r][role], report)
  <2>1. LocalOf(r, g) = loc[r][role]
    BY <1>1, <1>5, LocalIs
  <2>2. loc[r][role].applied \in Nat
    BY <1>5, ReplicaTypes DEF InRole
  <2> QED
    BY <1>4, <2>1, <2>2 DEF Covered, Servable
<1>6. ASSUME ~HeldIn(loc[r], g) PROVE Claimless(report)
  BY <1>4, <1>6, HoldsRole DEF Claimless, Servable, Built
<1>7. report.applied \in Nat
  BY <1>2, CellAssumption DEF Reports, Checkpoints
<1> QED
  BY <1>3, <1>5, <1>6, <1>7 DEF Honest

LEMMA ReportBuiltBelief ==
    ASSUME Beliefs, NEW r \in Replicas, ReportBuilt(r)
    PROVE  ReplicaOK(work'[r], loc'[r], ckpt'[r])
<1> USE DEF Beliefs
<1> DEFINE g == work[r].gen
<1>1. /\ ReplicaOK(work[r], loc[r], ckpt[r]) /\ UNCHANGED loc
      /\ work[r].pc = "report" /\ status[g] # "unknown"
  BY DEF BeliefInv, ReportBuilt, At, ReplicaOK, KnownOK
<1>2. g \in Gens
  BY <1>1, PassFacts
<1>3. PICK role \in Roles :
        InRole(loc[r], role, g) /\ loc[r][role].state \in Up /\ loc[r][role].applied = work[r].req
  BY <1>1 DEF ReplicaOK, StepOK
<1>4. PICK readable \in Readings :
        \/ Goto(r, "fail") /\ UNCHANGED ckpt
        \/ /\ Persist(r, g, ReportOf(r, g, readable))
           /\ IF InPhase(r, "serve") THEN Goto(r, "align") ELSE Advance(r, loc[r])
  BY DEF ReportBuilt
<1> DEFINE report == ReportOf(r, g, readable)
<1>5. Honest(loc[r], g, report) /\ report.applied = loc[r][role].applied
  BY <1>3, ReportOfHonest
<1>6. CASE Goto(r, "fail") /\ UNCHANGED ckpt
  BY <1>1, <1>6, GotoFacts, QuietStep
<1>7. CASE Persist(r, g, report) /\ Goto(r, "align")
  <2>1. ckpt'[r][g] = report
    <3>1. ckpt \in [Replicas -> [Gens -> Checkpoints \cup {None}]]
      BY DEF CellInv, CellTypeOK
    <3> QED
      BY <1>2, <1>7, <3>1 DEF Persist
  <2>2. /\ work'[r].pc = "align" /\ work'[r].gen = g
        /\ work'[r].req = work[r].req /\ work'[r].dir = work[r].dir
    BY <1>7, GotoFacts
  <2> HIDE DEF report, g
  <2>3. report.applied <= loc[r][role].applied
    BY <1>5 DEF Honest
  <2>4. StepOK(work'[r], loc[r], ckpt'[r])
    BY <1>3, <2>1, <2>2, <2>3 DEF StepOK
  <2> QED
    BY <1>1, <1>2, <1>5, <1>7, <2>2, <2>4, ReportStep DEF g
<1>8. CASE Persist(r, g, report) /\ Advance(r, loc[r])
  <2>1. Fresh(work'[r]) /\ work'[r].dir \in {work[r].dir, None}
    BY <1>1, <1>8, FreshPass, ReportBuiltInv
  <2>2. StepOK(work'[r], loc[r], ckpt'[r])
    BY <2>1 DEF StepOK, Fresh
  <2> HIDE DEF report
  <2> QED
    BY <1>1, <1>2, <1>5, <1>8, <2>1, <2>2, ReportStep
<1> QED
  BY <1>4, <1>6, <1>7, <1>8

LEMMA ReportFailureBelief ==
    ASSUME Beliefs, NEW r \in Replicas, ReportFailure(r)
    PROVE  ReplicaOK(work'[r], loc'[r], ckpt'[r])
<1> USE DEF Beliefs
<1> DEFINE g == work[r].gen
<1>1. /\ ReplicaOK(work[r], loc[r], ckpt[r]) /\ UNCHANGED loc /\ EndPass(r)
      /\ work[r].pc = "fail" /\ status[g] # "unknown"
  BY DEF BeliefInv, ReportFailure, At, ReplicaOK, KnownOK
<1>2. g \in Gens
  BY <1>1, PassFacts
<1>3. Fresh(work'[r]) /\ work'[r].dir = None
  BY <1>1, FreshPass, EndPassDir
<1>4. StepOK(work'[r], loc[r], ckpt'[r])
  BY <1>3 DEF StepOK, Fresh
<1>5. PICK readable \in Readings : UNCHANGED ckpt \/ Persist(r, g, FailureReport(r, g, readable))
  BY DEF ReportFailure
<1>6. CASE UNCHANGED ckpt
  BY <1>1, <1>3, <1>6, QuietStep
<1>7. CASE Persist(r, g, FailureReport(r, g, readable))
  <2>1. Honest(loc[r], g, FailureReport(r, g, readable))
    BY FailureReportHonest
  <2> QED
    BY <1>1, <1>2, <1>3, <1>4, <1>7, <2>1, ReportStep
<1> QED
  BY <1>5, <1>6, <1>7

LEMMA ReportStateBelief ==
    ASSUME Beliefs, NEW r \in Replicas, ReportState(r)
    PROVE  ReplicaOK(work'[r], loc'[r], ckpt'[r])
<1> USE DEF Beliefs
<1> DEFINE g == work[r].gen
<1>1. /\ ReplicaOK(work[r], loc[r], ckpt[r]) /\ UNCHANGED loc
      /\ work[r].pc = "state" /\ status[g] # "unknown"
  BY DEF BeliefInv, ReportState, At, ReplicaOK, KnownOK
<1>2. g \in Gens /\ HeldIn(loc[r], g)
  BY <1>1, PassFacts
<1>3. Fresh(work'[r]) /\ work'[r].dir \in {work[r].dir, None}
  BY FreshPass, ReportStateInv DEF ReportState
<1>4. StepOK(work'[r], loc[r], ckpt'[r])
  BY <1>3 DEF StepOK, Fresh
<1>5. PICK readable \in Readings : UNCHANGED ckpt \/ Persist(r, g, ReportOf(r, g, readable))
  BY DEF ReportState
<1>6. CASE UNCHANGED ckpt
  BY <1>1, <1>3, <1>6, QuietStep
<1>7. CASE Persist(r, g, ReportOf(r, g, readable))
  <2>1. Honest(loc[r], g, ReportOf(r, g, readable))
    BY <1>2, HeldRole, ReportOfHonest
  <2> QED
    BY <1>1, <1>2, <1>3, <1>4, <1>7, <2>1, ReportStep
<1> QED
  BY <1>5, <1>6, <1>7

-----------------------------------------------------------------------------
(* The alignment of the local pointer.                                     *)

(* What an activation or a rollback of the local record moves where.       *)
LEMMA ActivatedRoles ==
    ASSUME NEW l \in LocalRecords, l["staged"] # None, l["previous"] # None => l["active"] # None
    PROVE  LET m == Activated(l) IN
           /\ m["active"] # None /\ m["active"].gen = l["staged"].gen
           /\ m["active"].applied = l["staged"].applied /\ m["active"].state = "Serving"
           /\ m["previous"] = None <=> l["active"] = None
           /\ l["active"] # None => /\ m["previous"].gen = l["active"].gen
                                    /\ m["previous"].applied = l["active"].applied
                                    /\ m["previous"].state = "Ready"
           /\ m["staged"] = None
<1>1. l["staged"] \in Locals /\ (l["active"] # None => l["active"] \in Locals)
  BY DEF LocalRecords, Roles
<1>2. l.staged = l["staged"] /\ l.active = l["active"] /\ l.previous = l["previous"]
  OBVIOUS
<1> DEFINE a == [l["staged"] EXCEPT !.state = "Serving"]
           p == [l["active"] EXCEPT !.state = "Ready"]
           m == Activated(l)
<1>3. m["active"] = a /\ m["staged"] = None
      /\ m["previous"] = IF l["active"] = None THEN l["previous"] ELSE p
  BY <1>2 DEF Activated
<1>4. a \in Locals /\ a.gen = l["staged"].gen /\ a.applied = l["staged"].applied /\ a.state = "Serving"
  BY <1>1 DEF Locals
<1>5. l["active"] # None =>
        p \in Locals /\ p.gen = l["active"].gen /\ p.applied = l["active"].applied /\ p.state = "Ready"
  BY <1>1 DEF Locals
<1> HIDE DEF a, p, m
<1>6. a # None /\ (l["active"] # None => p # None)
  BY <1>4, <1>5, NoneAssumption
<1> QED
  BY <1>3, <1>4, <1>5, <1>6 DEF m

LEMMA RolledBackRoles ==
    ASSUME NEW l \in LocalRecords, l["previous"] # None, l["active"] # None
    PROVE  LET m == RolledBack(l) IN
           /\ m["active"] # None /\ m["active"].gen = l["previous"].gen
           /\ m["active"].applied = l["previous"].applied /\ m["active"].state = "Serving"
           /\ m["previous"] # None /\ m["previous"].gen = l["active"].gen
           /\ m["previous"].applied = l["active"].applied /\ m["previous"].state = "Ready"
           /\ m["staged"] = l["staged"]
<1>1. l["previous"] \in Locals /\ l["active"] \in Locals
  BY DEF LocalRecords, Roles
<1>2. l.staged = l["staged"] /\ l.active = l["active"] /\ l.previous = l["previous"]
  OBVIOUS
<1> DEFINE a == [l["previous"] EXCEPT !.state = "Serving"]
           p == [l["active"] EXCEPT !.state = "Ready"]
           m == RolledBack(l)
<1>3. m["active"] = a /\ m["staged"] = l["staged"] /\ m["previous"] = p
  BY <1>2 DEF RolledBack
<1>4. a \in Locals /\ a.gen = l["previous"].gen /\ a.applied = l["previous"].applied /\ a.state = "Serving"
  BY <1>1 DEF Locals
<1>5. p \in Locals /\ p.gen = l["active"].gen /\ p.applied = l["active"].applied /\ p.state = "Ready"
  BY <1>1 DEF Locals
<1> HIDE DEF a, p, m
<1> QED
  BY <1>3, <1>4, <1>5, NoneAssumption DEF m

(* The generation that an activation drops is not on the way forward: it   *)
(* was active, and it is not the active one, which the pass is about.      *)
LEMMA DroppedIsBehind ==
    ASSUME Beliefs, NEW r \in Replicas, work[r].pc = "align", InRole(loc[r], "staged", work[r].gen),
           loc[r]["previous"] # None
    PROVE  ~Forward(loc[r]["previous"].gen)
<1> USE DEF Beliefs
<1> DEFINE p == loc[r]["previous"].gen
<1>1. WasActive(p)
  BY DEF FollowInv, Served
<1>2. ~Open(p)
  BY <1>1 DEF WasActive, Open
<1>3. work[r].phase = 1 /\ work[r].dir \in Directives /\ work[r].gen = work[r].dir.act
  <2>1. PassOK(work[r], loc[r])
    BY DEF CellInv, PassesOK
  <2> QED
    BY <2>1 DEF PassOK
<1>4. work[r].dir # None
  BY <1>3, NoneAssumption
<1>5. p # work[r].gen
  <2>1. OneRole(loc[r])
    BY DEF BeliefInv, ReplicaOK, LocalOK
  <2> QED
    BY <2>1 DEF OneRole, InRole, Roles
<1>6. ~StreamRolledBack => p # act
  <2>1. DirectedOK(work[r], loc[r])
    BY DEF BeliefInv, ReplicaOK
  <2>2. p = act => \E role \in Served : InRole(loc[r], role, act)
    BY DEF Served, InRole
  <2> QED
    BY <1>3, <1>4, <1>5, <2>1, <2>2 DEF DirectedOK
<1> QED
  BY <1>2, <1>6 DEF Forward

LEMMA AlignedBelief ==
    ASSUME Beliefs, NEW r \in Replicas, work[r].pc = "align", NEW m, NEW v,
           Fresh(v), v.dir \in {work[r].dir, None},
           LET is(role) == role \in RoleOf(r, work[r].gen) IN
             m = IF is("active") THEN loc[r]
                 ELSE IF is("staged") THEN Activated(loc[r]) ELSE RolledBack(loc[r])
    PROVE  ReplicaOK(v, m, ckpt[r])
<1> USE DEF Beliefs
<1> DEFINE l == loc[r]
           c == ckpt[r]
           g == work[r].gen
<1>1. ReplicaOK(work[r], l, c) /\ l \in LocalRecords
  BY ReplicaTypes DEF BeliefInv
<1>2. PICK role \in Roles :
        /\ InRole(l, role, g) /\ l[role].state \in Up
        /\ c[g] # None => c[g].applied <= l[role].applied
  BY <1>1 DEF ReplicaOK, StepOK
<1>3. \A q \in Roles : q \in RoleOf(r, g) <=> q = role
  BY <1>1, <1>2 DEF RoleOf, InRole, ReplicaOK, LocalOK, OneRole
<1>4. l["previous"] # None => l["active"] # None
  BY DEF CellInv, PassesOK
<1>5. work[r].gen = work[r].dir.act
  <2>1. PassOK(work[r], loc[r])
    BY DEF CellInv, PassesOK
  <2> QED
    BY <2>1 DEF PassOK
<1>6. \A q \in Roles : l[q] # None => l[q].applied \in Nat /\ l[q].gen \in Gens
  BY ReplicaTypes
<1>7. \A k \in Gens : c[k] # None => c[k].applied \in Nat
  BY ReplicaTypes
<1>8. StepOK(v, m, c)
  BY DEF StepOK, Fresh
<1>9. KnownOK(v, c)
  BY <1>1 DEF ReplicaOK, KnownOK, Fresh
<1>10. CASE role = "active"
  <2>1. m = l
    BY <1>3, <1>10 DEF Roles
  <2>2. DirectedOK(v, l)
    BY <1>1 DEF ReplicaOK, DirectedOK
  <2> QED
    BY <1>1, <1>8, <1>9, <2>1, <2>2 DEF ReplicaOK
<1>11. CASE role = "staged"
  <2>1. m = Activated(l) /\ InRole(l, "staged", g) /\ l["staged"] # None
    BY <1>2, <1>3, <1>11 DEF Roles, InRole
  <2>2. /\ m["active"] # None /\ m["active"].gen = g
        /\ m["active"].applied = l["staged"].applied /\ m["active"].state = "Serving"
        /\ m["previous"] = None <=> l["active"] = None
        /\ l["active"] # None => /\ m["previous"].gen = l["active"].gen
                                 /\ m["previous"].applied = l["active"].applied
                                 /\ m["previous"].state = "Ready"
        /\ m["staged"] = None
    BY <1>1, <1>4, <2>1, ActivatedRoles DEF InRole
  <2>3. l["previous"] # None => ~Forward(l["previous"].gen)
    BY <2>1, DroppedIsBehind
  <2>4. l["active"] # None => l["active"].gen # g
    BY <1>1, <2>1 DEF ReplicaOK, LocalOK, OneRole, InRole, Roles
  <2> HIDE DEF l, c, g
  <2>5. LocalOK(m)
    <3>1. OneRole(m)
      BY <2>2, <2>4 DEF OneRole, Roles
    <3>2. ServedIsUp(m) /\ AppliedIsUp(m)
      BY <2>2 DEF ServedIsUp, AppliedIsUp, Served, Roles, Up
    <3> QED
      BY <3>1, <3>2 DEF LocalOK
  <2>6. Covered(m["active"], c[g])
    BY <1>2, <1>11, <2>2 DEF Covered, Up
  <2>7. l["active"] # None => Covered(m["previous"], c[l["active"].gen])
    <3>1. l["active"] # None => Covered(l["active"], c[l["active"].gen])
      BY <1>1 DEF ReplicaOK, CoverOK, Roles
    <3> QED
      BY <2>2, <3>1 DEF Covered, Up
  <2>8. CoverOK(m, c)
    BY <2>2, <2>6, <2>7 DEF CoverOK, Roles
  <2>9. MissingOK(m, c)
    <3> SUFFICES ASSUME NEW k \in Gens, Forward(k), ~HeldIn(m, k) PROVE Claimless(c[k])
      BY DEF MissingOK
    <3>1. ~HeldIn(l, k)
      BY <2>1, <2>2, <2>3 DEF HeldIn, InRole, Roles
    <3> QED
      BY <1>1, <3>1 DEF ReplicaOK, MissingOK
  <2>10. DirectedOK(v, m)
    <3> SUFFICES ASSUME ~StreamRolledBack, v.dir # None, NEW q \in Served, InRole(m, q, act)
                 PROVE  v.dir.act = act
      BY DEF DirectedOK
    <3>1. CASE act = g
      BY <1>5, <3>1 DEF g
    <3>2. CASE act # g
      <4>1. InRole(l, "active", act)
        BY <2>2, <3>2 DEF InRole, Served
      <4> QED
        BY <1>1, <4>1 DEF ReplicaOK, DirectedOK, Served
    <3> QED
      BY <3>1, <3>2
  <2> QED
    BY <1>1, <1>8, <1>9, <2>5, <2>8, <2>9, <2>10 DEF ReplicaOK, c
<1>12. CASE role = "previous"
  <2>1. m = RolledBack(l) /\ l["previous"] # None /\ l["active"] # None
    BY <1>2, <1>3, <1>4, <1>12 DEF Roles, InRole
  <2>2. /\ m["active"] # None /\ m["active"].gen = l["previous"].gen
        /\ m["active"].applied = l["previous"].applied /\ m["active"].state = "Serving"
        /\ m["previous"] # None /\ m["previous"].gen = l["active"].gen
        /\ m["previous"].applied = l["active"].applied /\ m["previous"].state = "Ready"
        /\ m["staged"] = l["staged"]
    BY <1>1, <2>1, RolledBackRoles
  <2> HIDE DEF l, c, g
  <2>3. LocalOK(m)
    <3>1. OneRole(m)
      BY <1>1, <2>1, <2>2 DEF ReplicaOK, LocalOK, OneRole, Roles
    <3>2. ServedIsUp(m) /\ AppliedIsUp(m)
      BY <1>1, <2>2 DEF ReplicaOK, LocalOK, ServedIsUp, AppliedIsUp, Served, Roles, Up
    <3> QED
      BY <3>1, <3>2 DEF LocalOK
  <2>4. CoverOK(m, c)
    <3>1. /\ Covered(l["active"], c[l["active"].gen]) /\ Covered(l["previous"], c[l["previous"].gen])
          /\ l["staged"] # None /\ Forward(l["staged"].gen) => Covered(l["staged"], c[l["staged"].gen])
      BY <1>1, <2>1 DEF ReplicaOK, CoverOK, Roles
    <3>2. Covered(m["active"], c[m["active"].gen]) /\ Covered(m["previous"], c[m["previous"].gen])
      BY <2>2, <3>1 DEF Covered, Up
    <3> QED
      BY <2>2, <3>1, <3>2 DEF CoverOK, Roles
  <2>5. MissingOK(m, c)
    <3>1. \A k \in Gens : HeldIn(l, k) => HeldIn(m, k)
      BY <2>2 DEF HeldIn, Roles
    <3> QED
      BY <1>1, <3>1 DEF ReplicaOK, MissingOK
  <2>6. DirectedOK(v, m)
    <3>1. (\E q \in Served : InRole(m, q, act)) => \E q \in Served : InRole(l, q, act)
      BY <2>1, <2>2 DEF InRole, Served
    <3> QED
      BY <1>1, <3>1 DEF ReplicaOK, DirectedOK
  <2> QED
    BY <1>8, <1>9, <2>3, <2>4, <2>5, <2>6 DEF ReplicaOK, c
<1> QED
  BY <1>10, <1>11, <1>12 DEF Roles

LEMMA AlignBelief ==
    ASSUME Beliefs, NEW r \in Replicas, Align(r)
    PROVE  ReplicaOK(work'[r], loc'[r], ckpt'[r])
<1> USE DEF Beliefs
<1>1. ReplicaOK(work[r], loc[r], ckpt[r]) /\ UNCHANGED ckpt /\ work[r].pc = "align"
  BY DEF BeliefInv, Align, At
<1>2. work'[r].dir \in {work[r].dir, None}
  BY AlignInv
<1> DEFINE is(role) == role \in RoleOf(r, work[r].gen)
           m == IF is("active") THEN loc[r]
                ELSE IF is("staged") THEN Activated(loc[r]) ELSE RolledBack(loc[r])
<1>3. \/ EndPass(r) /\ UNCHANGED loc
      \/ loc' = [loc EXCEPT ![r] = m] /\ Advance(r, m)
  BY DEF Align
<1>4. Fresh(work'[r])
  BY <1>3, FreshPass
<1>5. CASE UNCHANGED loc
  BY <1>1, <1>2, <1>4, <1>5, QuietStep
<1>6. CASE loc' = [loc EXCEPT ![r] = m]
  <2>1. ReplicaOK(work'[r], m, ckpt[r])
    BY <1>1, <1>2, <1>4, AlignedBelief
  <2> HIDE DEF m
  <2>2. loc'[r] = m
    BY <1>6 DEF CellInv, CellTypeOK
  <2> QED
    BY <1>1, <2>1, <2>2
<1> QED
  BY <1>3, <1>5, <1>6

-----------------------------------------------------------------------------
LEMMA NextBeliefs == Beliefs /\ [Next]_vars => BeliefInv'
<1> SUFFICES ASSUME Beliefs, [Next]_vars PROVE BeliefInv'
  OBVIOUS
<1> USE DEF Beliefs
<1>1. CASE ControlPlane
  BY <1>1, ControlPlaneBeliefs
<1>2. CASE UNCHANGED vars
  BY <1>2 DEF vars, BeliefInv, StreamOK, ReplicaOK, LocalOK, OneRole, ServedIsUp, AppliedIsUp, StepOK,
     InRole, CoverOK, MissingOK, KnownOK, DirectedOK, Forward, Open, StreamRolledBack
<1>3. ASSUME NEW r \in Replicas, Reconcile(r) \/ Interrupt(r)
      PROVE  BeliefInv'
  <2>1. \A q \in Replicas \ {r} : loc'[q] = loc[q] /\ work'[q] = work[q]
    BY <1>3, OthersStay
  <2>2. UNCHANGED authority
    BY <1>3 DEF Reconcile, Begin, LoadGeneration, Build, CatchUp, ReportBuilt, ReportFailure, Align,
       ReportState, Interrupt
  <2>3. \A q \in Replicas \ {r} : ckpt'[q] = ckpt[q]
    <3>1. CASE UNCHANGED ckpt
      BY <3>1
    <3>2. ASSUME NEW g, NEW report, Persist(r, g, report) PROVE \A q \in Replicas \ {r} : ckpt'[q] = ckpt[q]
      BY <3>2 DEF Persist, CellInv, CellTypeOK
    <3> QED
      BY <1>3, <3>1, <3>2 DEF Reconcile, Begin, LoadGeneration, Build, CatchUp, ReportBuilt, ReportFailure,
         Align, ReportState, Interrupt
  <2>4. ReplicaOK(work'[r], loc'[r], ckpt'[r])
    BY <1>3, BeginBelief, LoadBelief, BuildBelief, CatchUpBelief, ReportBuiltBelief, ReportFailureBelief,
       AlignBelief, ReportStateBelief, InterruptBelief DEF Reconcile
  <2> QED
    BY <2>1, <2>2, <2>3, <2>4, ReplicaStep
<1> QED
  BY <1>1, <1>2, <1>3 DEF Next

LEMMA BeliefsSound == Beliefs => CellSound
<1> SUFFICES ASSUME Beliefs PROVE CellSound
  OBVIOUS
<1> USE DEF Beliefs
<1>1. \A r \in Replicas : ReplicaOK(work[r], loc[r], ckpt[r])
  BY DEF BeliefInv
<1>2. CheckpointHeld
  <2> SUFFICES ASSUME NEW r \in Replicas, NEW role \in Roles, loc[r][role] # None,
                      ckpt[r][loc[r][role].gen] # None, role = "staged" => Forward(loc[r][role].gen)
               PROVE  /\ loc[r][role].applied >= ckpt[r][loc[r][role].gen].applied
                      /\ ckpt[r][loc[r][role].gen].state \in Servable => loc[r][role].state \in {"Ready", "Serving"}
    BY DEF CheckpointHeld
  <2> QED
    BY <1>1 DEF ReplicaOK, CoverOK, Covered, Up
<1>3. ReadyIsHeld
  <2> SUFFICES ASSUME NEW g \in Gens, Forward(g), NEW r \in ReadyReplicas(g) PROVE Built(r, g)
    BY DEF ReadyIsHeld
  <2>1. r \in Replicas /\ ckpt[r][g] # None /\ ckpt[r][g].state \in Servable
    BY DEF ReadyReplicas
  <2>2. HeldIn(loc[r], g)
    BY <1>1, <2>1 DEF ReplicaOK, MissingOK, Claimless
  <2>3. PICK role \in Roles : InRole(loc[r], role, g)
    BY <2>2, HeldRole
  <2>4. loc[r][role].state \in Up
    BY <1>1, <2>1, <2>3 DEF ReplicaOK, CoverOK, Covered, InRole
  <2> QED
    BY <1>1, <2>1, <2>3, <2>4, LocalIs DEF ReplicaOK, LocalOK
<1> QED
  BY <1>2, <1>3 DEF CellSound, CellInv

LEMMA InitBeliefs == Init => BeliefInv
<1> SUFFICES ASSUME Init PROVE BeliefInv
  OBVIOUS
<1>1. StreamOK
  BY DEF Init, StreamOK
<1>2. ASSUME NEW r \in Replicas PROVE ReplicaOK(work[r], loc[r], ckpt[r])
  <2>1. /\ work[r] = Idle /\ \A role \in Roles : loc[r][role] = None
        /\ \A g \in Gens : ckpt[r][g] = None
    BY DEF Init
  <2> QED
    BY <2>1 DEF ReplicaOK, LocalOK, OneRole, ServedIsUp, AppliedIsUp, StepOK, CoverOK, MissingOK, Claimless,
       KnownOK, DirectedOK, Idle, Served, Roles, InRole
<1> QED
  BY <1>1, <1>2 DEF BeliefInv

(* What the authority believes of a replica on the way forward is true of  *)
(* it, for any number of replicas, generations, mutations and faults: a    *)
(* checkpoint is never ahead of the local record, and what counts towards  *)
(* the quorum of an activation or is routed to is built.                   *)
THEOREM CellAlwaysSound == Spec => []CellSound
<1>1. Init => FollowInv
  BY DEF Init, FollowInv, Idle, Served, Roles
<1>2. Init => Beliefs
  BY <1>1, InitInv, InitBeliefs DEF Beliefs
<1>3. Beliefs /\ [Next]_vars => Beliefs'
  BY NextInv, NextFollow, NextBeliefs DEF Beliefs
<1> QED
  BY <1>2, <1>3, BeliefsSound, PTL DEF Spec

-----------------------------------------------------------------------------
(* The governor.  A thread that has found a slot free counts as a task     *)
(* from then on: together with the tasks that run, those threads never     *)
(* exceed the limit by more than the other starters, because a slot is     *)
(* only found while fewer tasks than the limit run.                        *)

StarterPcs == {"idle", "lock", "cooldown", "latency", "admitted", "register", "unregister"}
Racing == {t \in Starters : starter[t].pc \in {"latency", "admitted", "register"}}

GovernorInv ==
    /\ runningTasks \in Seq(Requirements)
    /\ starter \in [Starters -> [pc : StarterPcs, for : {"start", "summary"}, needs : Requirements]]
    /\ readers = {t \in Starters : starter[t].pc \in {"cooldown", "latency"}}
    /\ Len(runningTasks) + Cardinality(Racing) <= GovernorCfg.tasks + Cardinality(Starters) - 1

LEMMA RacingCounted == IsFiniteSet(Racing) /\ Cardinality(Racing) \in Nat /\ Cardinality(Racing) <= Cardinality(Starters)
                       /\ Cardinality(Starters) \in Nat /\ Cardinality(Starters) >= 1
<1>1. Racing \subseteq Starters
  BY DEF Racing
<1>2. Cardinality(Starters) # 0
  BY GovernorAssumption, FS_EmptySet
<1> QED BY <1>1, <1>2, GovernorAssumption, FS_Subset, FS_CardinalityType

(* A step of one thread that lets no other find a slot, and adds no task   *)
(* but the one it has found a slot for.                                    *)
Moves(t, p, f, n) ==
    /\ starter' = [starter EXCEPT ![t] = [pc |-> p, for |-> f, needs |-> n]]
    /\ readers' = IF p \in {"cooldown", "latency"} THEN readers \cup {t} ELSE readers \ {t}
    /\ p = "latency" => SlotFree /\ UNCHANGED runningTasks
    /\ p \in {"admitted", "register"} => t \in Racing
    /\ runningTasks' \in Seq(Requirements)
    /\ \/ Len(runningTasks') <= Len(runningTasks)
       \/ Len(runningTasks') = Len(runningTasks) + 1 /\ t \in Racing /\ p = "idle"

LEMMA MovesKeep ==
    ASSUME GovernorInv, NEW t \in Starters, NEW p \in StarterPcs, NEW f \in {"start", "summary"}, NEW n \in Requirements,
           Moves(t, p, f, n)
    PROVE  GovernorInv'
<1>1. /\ starter' \in [Starters -> [pc : StarterPcs, for : {"start", "summary"}, needs : Requirements]]
      /\ starter'[t].pc = p /\ \A u \in Starters \ {t} : starter'[u] = starter[u]
  BY DEF GovernorInv, Moves
<1>2. readers' = {u \in Starters : starter'[u].pc \in {"cooldown", "latency"}}
  BY <1>1 DEF GovernorInv, Moves
<1>3. Racing' = IF p \in {"latency", "admitted", "register"} THEN Racing \cup {t} ELSE Racing \ {t}
  BY <1>1 DEF Racing
<1>4. /\ IsFiniteSet(Racing) /\ Cardinality(Racing) \in Nat
      /\ IsFiniteSet(Racing') /\ Cardinality(Racing') \in Nat
      /\ Cardinality(Racing') <= Cardinality(Starters)
      /\ Cardinality(Starters) \in Nat
  <2>1. Racing' \subseteq Starters
    BY <1>3 DEF Racing
  <2> QED BY <2>1, RacingCounted, GovernorAssumption, FS_Subset, FS_CardinalityType
<1>5. Racing' \subseteq Racing => Cardinality(Racing') <= Cardinality(Racing)
  BY <1>4, FS_Subset
<1>6. Len(runningTasks) \in Nat /\ Len(runningTasks') \in Nat /\ GovernorCfg.tasks \in Nat
  BY GovernorAssumption DEF GovernorInv, Moves
<1>7. Len(runningTasks') + Cardinality(Racing') <= GovernorCfg.tasks + Cardinality(Starters) - 1
  <2>1. CASE p = "latency"
    BY <2>1, <1>4, <1>6 DEF SlotFree, Moves
  <2>2. CASE p # "latency" /\ Len(runningTasks') <= Len(runningTasks)
    <3>1. Racing' \subseteq Racing
      BY <2>2, <1>3 DEF Moves
    <3> QED BY <3>1, <2>2, <1>4, <1>5, <1>6 DEF GovernorInv
  <2>3. CASE Len(runningTasks') = Len(runningTasks) + 1 /\ t \in Racing /\ p = "idle"
    <3>1. Racing' = Racing \ {t}
      BY <2>3, <1>3
    <3>2. Cardinality(Racing') = Cardinality(Racing) - 1
      BY <3>1, <2>3, <1>4, FS_RemoveElement
    <3> QED BY <3>2, <2>3, <1>4, <1>6 DEF GovernorInv
  <2> QED BY <2>1, <2>2, <2>3 DEF Moves
<1> QED BY <1>1, <1>2, <1>7 DEF GovernorInv, Moves

LEMMA GovernorStarts == GovernorInit => GovernorInv
<1> SUFFICES ASSUME GovernorInit PROVE GovernorInv
  OBVIOUS
<1>1. starter \in [Starters -> [pc : StarterPcs, for : {"start", "summary"}, needs : Requirements]]
  BY GovernorAssumption DEF GovernorInit, IdleStarter, StarterPcs
<1>2. Racing = {} /\ readers = {t \in Starters : starter[t].pc \in {"cooldown", "latency"}}
  BY DEF GovernorInit, IdleStarter, Racing
<1>3. Cardinality(Racing) = 0
  BY <1>2, FS_EmptySet
<1>4. Len(runningTasks) = 0 /\ runningTasks \in Seq(Requirements)
  BY DEF GovernorInit
<1> QED BY <1>1, <1>2, <1>3, <1>4, RacingCounted, GovernorAssumption DEF GovernorInv

LEMMA GovernorSteps == GovernorInv /\ [GovernorNext]_governorVars => GovernorInv'
<1> SUFFICES ASSUME GovernorInv, [GovernorNext]_governorVars PROVE GovernorInv'
  OBVIOUS
<1>0. /\ starter \in [Starters -> [pc : StarterPcs, for : {"start", "summary"}, needs : Requirements]]
      /\ readers = {t \in Starters : starter[t].pc \in {"cooldown", "latency"}}
      /\ runningTasks \in Seq(Requirements) /\ LowNeeds \in Requirements
      /\ IdleStarter = [pc |-> "idle", for |-> "start", needs |-> LowNeeds]
  BY GovernorAssumption DEF GovernorInv, IdleStarter
<1>1. CASE UNCHANGED <<starter, readers, runningTasks>>
  BY <1>1 DEF GovernorInv, Racing
<1>2. ASSUME NEW t \in Starters, NEW n \in Requirements, AskToStart(t, n) PROVE GovernorInv'
  <2>1. Moves(t, "lock", "start", n)
    BY <1>0, <1>2 DEF AskToStart, Moves
  <2> QED BY <2>1, MovesKeep DEF StarterPcs
<1>3. ASSUME NEW t \in Starters, Summary(t) PROVE GovernorInv'
  <2>1. Moves(t, "lock", "summary", LowNeeds)
    BY <1>0, <1>3 DEF Summary, Moves
  <2> QED BY <2>1, <1>0, MovesKeep DEF StarterPcs
<1>4. ASSUME NEW t \in Starters,
             Lock(t) \/ CheckCooldown(t) \/ CheckLatency(t) \/ WaitToWrite(t) \/ TaskEnds(t)
      PROVE  GovernorInv'
  <2> DEFINE f == starter[t].for
             n == starter[t].needs
  <2>1. f \in {"start", "summary"} /\ n \in Requirements
    BY <1>0
  <2>2. \A p \in StarterPcs : [starter EXCEPT ![t].pc = p] = [starter EXCEPT ![t] = [pc |-> p, for |-> f, needs |-> n]]
    <3>1. starter[t] \in [pc : StarterPcs, for : {"start", "summary"}, needs : Requirements]
      BY <1>0
    <3>2. ASSUME NEW p \in StarterPcs PROVE [starter[t] EXCEPT !.pc = p] = [pc |-> p, for |-> f, needs |-> n]
      BY <3>1
    <3> QED BY <3>2
  <2> DEFINE To(p) == starter' = [starter EXCEPT ![t] = [pc |-> p, for |-> f, needs |-> n]]
  <2> HIDE DEF f, n
  <2>3. ASSUME Refuse(t), UNCHANGED runningTasks PROVE GovernorInv'
    <3>1. Moves(t, "idle", "start", LowNeeds)
      BY <1>0, <2>3 DEF Refuse, Moves
    <3> QED BY <3>1, <1>0, MovesKeep DEF StarterPcs
  <2>4. CASE Lock(t)
    <3>0. To("cooldown")
      BY <2>2, <2>4 DEF Lock, StarterPcs
    <3>1. Moves(t, "cooldown", f, n)
      BY <1>0, <3>0, <2>4 DEF Lock, Moves
    <3> QED BY <3>1, <2>1, MovesKeep DEF StarterPcs
  <2>5. CASE CheckCooldown(t)
    <3>1. CASE SlotFree /\ starter' = [starter EXCEPT ![t].pc = "latency"] /\ UNCHANGED readers
      <4>0. To("latency")
        BY <2>2, <3>1 DEF CheckCooldown, StarterPcs
      <4>1. Moves(t, "latency", f, n)
        BY <1>0, <4>0, <2>5, <3>1 DEF CheckCooldown, Moves
      <4> QED BY <4>1, <2>1, MovesKeep DEF StarterPcs
    <3> QED BY <3>1, <2>3, <2>5 DEF CheckCooldown
  <2>6. CASE CheckLatency(t)
    <3>1. CASE readers' = readers \ {t} /\ starter' = [starter EXCEPT ![t].pc = "admitted"]
      <4>0. To("admitted")
        BY <2>2, <3>1 DEF CheckLatency, StarterPcs
      <4>1. Moves(t, "admitted", f, n)
        BY <1>0, <4>0, <2>6, <3>1 DEF CheckLatency, Moves, Racing
      <4> QED BY <4>1, <2>1, MovesKeep DEF StarterPcs
    <3> QED BY <3>1, <2>3, <2>6 DEF CheckLatency
  <2>7. CASE WaitToWrite(t)
    <3>0. To("register")
      BY <2>2, <2>7 DEF WaitToWrite, StarterPcs
    <3>1. Moves(t, "register", f, n)
      BY <1>0, <3>0, <2>7 DEF WaitToWrite, Moves, Racing
    <3> QED BY <3>1, <2>1, MovesKeep DEF StarterPcs
  <2>8. CASE TaskEnds(t)
    <3>0. To("unregister")
      BY <2>2, <2>8 DEF TaskEnds, StarterPcs
    <3>1. Moves(t, "unregister", f, n)
      BY <1>0, <3>0, <2>8 DEF TaskEnds, Moves
    <3> QED BY <3>1, <2>1, MovesKeep DEF StarterPcs
  <2> QED BY <1>4, <2>4, <2>5, <2>6, <2>7, <2>8
<1>5. ASSUME NEW t \in Starters, RegisterTask(t) PROVE GovernorInv'
  <2>1. t \in Racing /\ starter[t].needs \in Requirements
    BY <1>0, <1>5 DEF RegisterTask, Racing
  <2>2. runningTasks' \in Seq(Requirements) /\ Len(runningTasks') = Len(runningTasks) + 1
    BY <1>0, <1>5, <2>1 DEF RegisterTask
  <2>3. Moves(t, "idle", "start", LowNeeds)
    BY <1>0, <1>5, <2>1, <2>2 DEF RegisterTask, Moves
  <2> QED BY <2>3, <1>0, MovesKeep DEF StarterPcs
<1>6. ASSUME NEW t \in Starters, UnregisterTask(t) \/ UnregisterMissing(t) PROVE GovernorInv'
  <2>1. runningTasks' \in Seq(Requirements) /\ Len(runningTasks') <= Len(runningTasks)
    <3>1. CASE UNCHANGED runningTasks
      BY <3>1, <1>0
    <3>2. ASSUME NEW i \in DOMAIN runningTasks, runningTasks' = RemoveAt(runningTasks, i)
          PROVE  runningTasks' \in Seq(Requirements) /\ Len(runningTasks') <= Len(runningTasks)
      BY <3>2, <1>0 DEF RemoveAt
    <3> QED BY <3>1, <3>2, <1>6 DEF UnregisterTask, UnregisterMissing
  <2>2. Moves(t, "idle", "start", LowNeeds)
    BY <1>0, <1>6, <2>1 DEF UnregisterTask, UnregisterMissing, Moves
  <2> QED BY <2>2, <1>0, MovesKeep DEF StarterPcs
<1>7. Weather \/ (\E t \in Starters : ShouldPause(t)) \/ UNCHANGED governorVars => UNCHANGED <<starter, readers, runningTasks>>
  BY DEF Weather, ShouldPause, governorVars
<1> QED BY <1>1, <1>2, <1>3, <1>4, <1>5, <1>6, <1>7 DEF GovernorNext

(* Though a task is admitted under one lock and registered under another,  *)
(* the limit on tasks is exceeded by at most one task for each other       *)
(* starter, and no thread waits for a read lock while it holds it, for     *)
(* every number of threads, tasks and every limit.                         *)
THEOREM GovernorAlwaysBounded == GovernorSpec => [](OvershootBounded /\ NobodyWaitsForHimself)
<1>1. GovernorSpec => []GovernorInv
  BY GovernorStarts, GovernorSteps, PTL DEF GovernorSpec
<1>2. ASSUME GovernorInv PROVE OvershootBounded /\ NobodyWaitsForHimself
  <2>1. Len(runningTasks) \in Nat
    BY <1>2 DEF GovernorInv
  <2>2. OvershootBounded
    BY <2>1, <1>2, RacingCounted, GovernorAssumption DEF GovernorInv, OvershootBounded
  <2> QED BY <2>2, <1>2 DEF GovernorInv, NobodyWaitsForHimself
<1>3. GovernorInv => OvershootBounded /\ NobodyWaitsForHimself
  BY <1>2
<1> QED BY <1>1, <1>3, PTL

-----------------------------------------------------------------------------
(* The audit events.  Every event that is added, by the reader's own calls *)
(* too, moves the others away from the head of the list: the reader meets  *)
(* some twice and none never, because what it has passed is what the       *)
(* positions up to its cursor hold.                                        *)

PassedIsSeen(list, reading, bound) ==
    \A i \in 1..Len(list) : i <= bound /\ list[i] \in reading.before => list[i] \in reading.seen

AuditInv ==
    /\ audited \in Nat /\ audits \in Seq(0..audited)
    /\ auditor \in [pc : {"idle", "next", "done"}, cursor : Nat, seen : SUBSET Nat, before : SUBSET (0..audited)]
    /\ auditor.pc = "idle" => auditor.cursor = 0
    /\ auditor.pc # "idle" => 0 \in auditor.seen
    /\ auditor.pc = "next" => PassedIsSeen(audits, auditor, auditor.cursor)
    /\ auditor.pc = "done" => PassedIsSeen(audits, auditor, Len(audits))

LEMMA AuditedShifts ==
    ASSUME NEW m \in Nat, NEW s \in Seq(0..m), NEW n \in Nat, NEW k \in Nat, n <= k, m <= k
    PROVE  /\ Audited(s, n) \in Seq(0..k) /\ Len(Audited(s, n)) >= 1 /\ Audited(s, n)[1] = n
           /\ Len(Audited(s, n)) <= Len(s) + 1
           /\ \A i \in 1..Len(Audited(s, n)) : i > 1 => i - 1 \in 1..Len(s) /\ Audited(s, n)[i] = s[i - 1]
<1> DEFINE t == <<n>> \o s
           l == Least(Len(t), AuditMax)
<1>1. /\ t \in Seq(0..k) /\ Len(t) = Len(s) + 1 /\ t[1] = n
      /\ \A i \in 1..Len(t) : i > 1 => i - 1 \in 1..Len(s) /\ t[i] = s[i - 1]
  OBVIOUS
<1>2. l \in 1..Len(t)
  BY <1>1, TasksAssumption DEF Least
<1>3. Audited(s, n) = SubSeq(t, 1, l)
  BY DEF Audited, Keep
<1> HIDE DEF t, l
<1>4. SubSeq(t, 1, l) \in Seq(0..k) /\ Len(SubSeq(t, 1, l)) = l /\ \A i \in 1..l : SubSeq(t, 1, l)[i] = t[i]
  BY <1>1, <1>2
<1> QED BY <1>1, <1>2, <1>3, <1>4

LEMMA PageHolds ==
    ASSUME NEW m \in Nat, NEW s \in Seq(0..m), NEW c \in 0..Len(s)
    PROVE  /\ EventsOf(Page(s, c)) = {s[i] : i \in c + 1..Least(c + PageSize, Len(s))}
           /\ Len(Page(s, c)) = Least(c + PageSize, Len(s)) - c
           /\ Least(c + PageSize, Len(s)) \in c..Len(s)
           /\ c < Len(s) => Least(c + PageSize, Len(s)) > c
<1> DEFINE b == Least(c + PageSize, Len(s))
<1>1. b \in c..Len(s) /\ (c < Len(s) => b > c) /\ Len(s) \in Nat
  BY TasksAssumption DEF Least
<1> HIDE DEF b
<1>2. /\ Len(SubSeq(s, c + 1, b)) = b - c /\ DOMAIN SubSeq(s, c + 1, b) = 1..b - c
      /\ \A i \in 1..b - c : SubSeq(s, c + 1, b)[i] = s[c + i]
  BY <1>1
<1>3. Page(s, c) = SubSeq(s, c + 1, b)
  BY DEF Page, b
<1>4. {s[c + i] : i \in 1..b - c} = {s[i] : i \in c + 1..b}
  <2>1. ASSUME NEW i \in c + 1..b PROVE i - c \in 1..b - c /\ c + (i - c) = i
    BY <1>1
  <2>2. ASSUME NEW i \in 1..b - c PROVE c + i \in c + 1..b
    BY <1>1
  <2>3. ASSUME NEW i \in c + 1..b PROVE \E j \in 1..b - c : s[i] = s[c + j]
    BY <2>1, Zenon
  <2> QED BY <2>2, <2>3, Zenon
<1>5. EventsOf(Page(s, c)) = {s[c + i] : i \in 1..b - c}
  BY <1>2, <1>3 DEF EventsOf
<1> QED BY <1>1, <1>2, <1>3, <1>4, <1>5 DEF b

LEMMA AuditStarts == TasksInit => AuditInv
  BY DEF TasksInit, AuditInv, NewAuditor, PassedIsSeen

LEMMA AuditSteps == AuditInv /\ [TasksNext]_tasksVars => AuditInv'
<1> SUFFICES ASSUME AuditInv, [TasksNext]_tasksVars PROVE AuditInv'
  OBVIOUS
<1>1. CASE UNCHANGED <<audits, audited, auditor>>
  BY <1>1 DEF AuditInv, PassedIsSeen
<1>2. CASE AuditCall
  <2>1. audited' = audited + 1 /\ audits' = Audited(audits, audited + 1) /\ auditor' = auditor
    BY <1>2 DEF AuditCall
  <2>2. audited \in Nat /\ audits \in Seq(0..audited)
    BY DEF AuditInv
  <2>3. /\ audits' \in Seq(0..audited') /\ audits'[1] = audited + 1 /\ Len(audits') >= 1
        /\ Len(audits') <= Len(audits) + 1
        /\ \A i \in 1..Len(audits') : i > 1 => i - 1 \in 1..Len(audits) /\ audits'[i] = audits[i - 1]
    BY <2>1, <2>2, AuditedShifts
  <2>4. auditor.before \subseteq 0..audited /\ audited + 1 \notin auditor.before
        /\ auditor.before \subseteq 0..audited' /\ auditor.cursor \in Nat
    BY <2>1, <2>2 DEF AuditInv
  <2>5. ASSUME NEW b \in Nat, NEW d \in Nat, d <= b + 1, PassedIsSeen(audits, auditor, b)
        PROVE  PassedIsSeen(audits', auditor, d)
    <3> SUFFICES ASSUME NEW i \in 1..Len(audits'), i <= d, audits'[i] \in auditor.before PROVE audits'[i] \in auditor.seen
      BY DEF PassedIsSeen
    <3>1. i > 1
      BY <2>3, <2>4
    <3>2. i - 1 \in 1..Len(audits) /\ audits'[i] = audits[i - 1] /\ i - 1 <= b
      BY <3>1, <2>3, <2>5
    <3> QED BY <3>2, <2>5 DEF PassedIsSeen
  <2>6. auditor.pc = "next" => PassedIsSeen(audits', auditor, auditor.cursor)
    BY <2>4, <2>5 DEF AuditInv
  <2>7. auditor.pc = "done" => PassedIsSeen(audits', auditor, Len(audits'))
    <3>1. Len(audits) \in Nat /\ Len(audits') \in Nat
      BY <2>2, <2>3
    <3> QED BY <3>1, <2>3, <2>5 DEF AuditInv
  <2> QED BY <2>1, <2>2, <2>3, <2>4, <2>6, <2>7 DEF AuditInv
<1>3. CASE ListAuditEvents
  <2> DEFINE l == Audited(audits, 0)
             c == auditor.cursor
             b == Least(c + PageSize, Len(l))
  <2>1. audits' = l /\ audited' = audited /\ auditor.pc \in {"idle", "next"}
    BY <1>3 DEF ListAuditEvents
  <2>2. audited \in Nat /\ audits \in Seq(0..audited) /\ c \in Nat
    BY DEF AuditInv
  <2>3. /\ l \in Seq(0..audited) /\ l[1] = 0 /\ Len(l) >= 1
        /\ \A i \in 1..Len(l) : i > 1 => i - 1 \in 1..Len(audits) /\ l[i] = audits[i - 1]
    BY <2>2, AuditedShifts
  <2>4. CASE c > Len(l)
    <3>1. auditor' = NewAuditor
      BY <1>3, <2>4 DEF ListAuditEvents
    <3> QED BY <2>1, <2>2, <2>3, <3>1 DEF AuditInv, NewAuditor
  <2>5. CASE c <= Len(l)
    <3> DEFINE before == IF auditor.pc = "idle" THEN EventsOf(audits) ELSE auditor.before
               seen == auditor.seen \cup EventsOf(Page(l, c))
               next == NextCursor(l, c)
    <3>1. auditor' = [pc |-> IF next = 0 THEN "done" ELSE "next", cursor |-> next, seen |-> seen, before |-> before]
      <4>1. auditor' = [auditor EXCEPT !.before = before, !.seen = seen, !.cursor = next,
                                       !.pc = IF next = 0 THEN "done" ELSE "next"]
        BY <1>3, <2>5, <2>2, <2>3 DEF ListAuditEvents
      <4> QED BY <4>1 DEF AuditInv
    <3>2. c \in 0..Len(l) /\ Len(l) \in Nat
      BY <2>2, <2>3, <2>5
    <3>3. /\ EventsOf(Page(l, c)) = {l[i] : i \in c + 1..b} /\ Len(Page(l, c)) = b - c
          /\ b \in c..Len(l) /\ (c < Len(l) => b > c)
      BY <2>2, <2>3, <3>2, PageHolds
    <3>4. next = IF b < Len(l) THEN b ELSE 0
      BY <3>2, <3>3 DEF NextCursor
    <3> HIDE DEF next
    <3>5. 0 \in seen
      <4>1. CASE auditor.pc = "idle"
        <5>1. 1 \in c + 1..b
          BY <4>1, <3>2, <3>3, <2>3 DEF AuditInv
        <5> QED BY <5>1, <3>3, <2>3
      <4>2. CASE auditor.pc # "idle"
        BY <4>2 DEF AuditInv
      <4> QED BY <4>1, <4>2
    <3>6. ASSUME NEW i \in 1..Len(l), i <= b, l[i] \in before PROVE l[i] \in seen
      <4>1. CASE i > c
        <5>1. i \in c + 1..b
          BY <4>1, <3>6, <3>2, <3>3
        <5> QED BY <5>1, <3>3
      <4>2. CASE i <= c /\ i = 1
        BY <4>2, <3>5, <2>3
      <4>3. CASE i <= c /\ i > 1
        <5>1. i - 1 \in 1..Len(audits) /\ l[i] = audits[i - 1] /\ i - 1 <= c
          BY <4>3, <2>3, <3>2
        <5>2. auditor.pc = "next"
          BY <4>3, <2>1, <3>2 DEF AuditInv
        <5>3. PassedIsSeen(audits, auditor, c) /\ l[i] \in auditor.before
          BY <5>2, <3>6 DEF AuditInv
        <5> QED BY <5>1, <5>3 DEF PassedIsSeen
      <4> QED BY <4>1, <4>2, <4>3, <3>2
    <3>7. before \subseteq 0..audited
      <4>1. EventsOf(audits) \subseteq 0..audited
        BY <2>2 DEF EventsOf
      <4> QED BY <4>1 DEF AuditInv
    <3>8. seen \subseteq Nat /\ next \in Nat
      <4>1. ASSUME NEW i \in c + 1..b PROVE l[i] \in Nat
        <5>1. i \in 1..Len(l)
          BY <3>2, <3>3
        <5> QED BY <5>1, <2>2, <2>3
      <4>2. EventsOf(Page(l, c)) \subseteq Nat
        BY <4>1, <3>3, Zenon
      <4> QED BY <4>2, <3>2, <3>3, <3>4 DEF AuditInv
    <3> HIDE DEF before, seen
    <3>9. /\ auditor'.pc = (IF next = 0 THEN "done" ELSE "next") /\ auditor'.cursor = next
          /\ auditor'.seen = seen /\ auditor'.before = before
          /\ auditor' \in [pc : {"idle", "next", "done"}, cursor : Nat, seen : SUBSET Nat, before : SUBSET (0..audited)]
      BY <3>1, <3>7, <3>8
    <3>10. next # 0 => PassedIsSeen(l, auditor', next)
      BY <3>2, <3>3, <3>4, <3>6, <3>9 DEF PassedIsSeen
    <3>11. next = 0 => PassedIsSeen(l, auditor', Len(l))
      <4>1. next = 0 => b = Len(l)
        BY <3>2, <3>3, <3>4, <2>3
      <4> QED BY <4>1, <3>2, <3>6, <3>9 DEF PassedIsSeen
    <3> HIDE DEF l
    <3> QED BY <2>1, <2>2, <2>3, <3>5, <3>9, <3>10, <3>11 DEF AuditInv
  <2> QED BY <2>2, <2>3, <2>4, <2>5
<1>4. CASE AuditorLeaves
  <2>1. auditor' = NewAuditor /\ UNCHANGED <<audits, audited>>
    BY <1>4 DEF AuditorLeaves
  <2> QED BY <2>1 DEF AuditInv, NewAuditor
<1> QED
  BY <1>1, <1>2, <1>3, <1>4
     DEF TasksNext, tasksVars, StartExecution, RecordExecution, EndExecution, ListHistory, ListTasks, PagerLeaves, RegisterStaged

(* A reader of the audit events that follows the cursors to the end has    *)
(* seen every event that was there when it began and is still retained,    *)
(* although each of its own calls adds one and others go on, for every     *)
(* size of pages and of the list.                                          *)
THEOREM AuditAlwaysCovers == TasksSpec => []AuditCoversRetained
<1>1. TasksSpec => []AuditInv
  BY AuditStarts, AuditSteps, PTL DEF TasksSpec
<1>2. AuditInv => AuditCoversRetained
  BY DEF AuditInv, AuditCoversRetained, EventsOf, PassedIsSeen
<1> QED BY <1>1, <1>2, PTL
=============================================================================
