---------------------------- MODULE ServingState ----------------------------
(***************************************************************************)
(* The durable generation state of one replica and one scope:              *)
(* ServingStateStore in crates/storage/src/serving_state.rs.               *)
(*                                                                         *)
(* A record names the generation that serves (active), the one kept for    *)
(* rollback (previous) and the one being prepared (staged).  Beside it the *)
(* store keeps one checkpoint per generation and, per applied mutation,    *)
(* a marker under its sequence and a marker under its identity.  Every     *)
(* operation runs under one mutex and ends in at most one atomic batch, so *)
(* an operation is one step; callers interleave between steps in any order.*)
(***************************************************************************)
EXTENDS Integers, Sequences

CONSTANTS
    GenIds,      \* generation identifiers
    MutIds,      \* mutation identifiers
    Shas,        \* content digests, of manifests and of mutations
    Manifests,   \* the manifests callers present
    Mutations,   \* the mutation contracts callers present
    Commits,     \* the revision commits callers ask for
    Failures,    \* failure texts that validate_local_text accepts
    BadFailure,  \* one it refuses (empty, untrimmed, control characters)
    MaxSeq,      \* MAX_SAFE_JSON_INTEGER: no sequence exceeds it
    None

ASSUME MaxSeqAssumption == MaxSeq \in Nat \ {0}
ASSUME ManifestAssumption ==
    /\ Manifests \subseteq [id : GenIds, sha : Shas, base : 0..MaxSeq, target : 0..MaxSeq]
    /\ \A m \in Manifests : m.base <= m.target
ASSUME MutationAssumption ==
    Mutations \subseteq [gen : GenIds, id : MutIds, seq : 1..MaxSeq, sha : Shas]
ASSUME CommitAssumption ==
    Commits \subseteq [gen : GenIds, sha : Shas, target : Nat, tail : Seq(Mutations)]
(* No tail repeats a mutation identity: knowledge_mutations.mutation_id is *)
(* unique in the authority the tails are read from.                        *)
ASSUME TailAssumption ==
    \A c \in Commits : \A i, j \in 1..Len(c.tail) : c.tail[i].id = c.tail[j].id => i = j
ASSUME FailureAssumption == None \notin Failures /\ BadFailure \notin Failures

VARIABLES
    active, previous, staged,  \* the record's three roles
    ckpt,                      \* the checkpoint of each generation
    seqMark,                   \* mutation markers by (generation, sequence)
    idMark,                    \* mutation markers by (generation, mutation id)
    result                     \* what the last operation returned

record == <<active, previous, staged>>
durable == <<active, previous, staged, ckpt, seqMark, idMark>>
vars == <<active, previous, staged, ckpt, seqMark, idMark, result>>

-----------------------------------------------------------------------------
(* Data.                                                                   *)

LocalStates == {"Staged", "CatchingUp", "Ready", "Serving", "Failed"}

GenStates == [manifest : Manifests, applied : 0..MaxSeq, state : LocalStates,
              last_error : Failures \cup {None}]

Checkpoints == [sha : Shas, applied : 0..MaxSeq, state : LocalStates \ {"Staged"},
                last_error : Failures \cup {None}]

Markers == [id : MutIds, seq : 1..MaxSeq, sha : Shas]

Accepted == {"Ok", "Staged", "AlreadyStaged", "Applied", "Duplicate", "Verified"}

(* "CorruptRecord" is the CorruptState that validate_record raises, and    *)
(* "CorruptMarkers" the one raised by disagreeing mutation markers.        *)
Refused == {"StateNotFound", "StagedNotFound", "GenerationMismatch",
            "GenerationConflict", "InvalidTransition", "SequenceGap",
            "SequenceConflict", "MutationIdConflict", "ContentConflict",
            "NonPortableInteger", "CorruptRecord", "CorruptMarkers", "Storage"}

ASSUME NoneAssumption ==
    None \notin GenStates \cup Checkpoints \cup Markers \cup Accepted \cup Refused

Present(r, g) == r # None /\ r.manifest.id = g

(* A record is written by the first stage and never deleted, and from then *)
(* on some role is occupied: a missing record is three empty roles.        *)
NoRecord == active = None /\ previous = None /\ staged = None

CheckpointFor(s) == [sha |-> s.manifest.sha, applied |-> s.applied,
                     state |-> s.state, last_error |-> s.last_error]

WithCheckpoint(c, s) == [c EXCEPT ![s.manifest.id] = CheckpointFor(s)]

MarkerFor(m) == [id |-> m.id, seq |-> m.seq, sha |-> m.sha]

-----------------------------------------------------------------------------
(* validate_generation_state and validate_record.                          *)

ValidGeneration(s) ==
    /\ s.applied >= s.manifest.base
    /\ s.state \in {"Ready", "Serving"} => s.applied >= s.manifest.target
    /\ s.state = "Staged" => s.applied = s.manifest.base
    /\ s.state = "Failed" <=> s.last_error # None

DistinctRoles(a, p, s) ==
    /\ a # None /\ p # None => a.manifest.id # p.manifest.id
    /\ a # None /\ s # None => a.manifest.id # s.manifest.id
    /\ p # None /\ s # None => p.manifest.id # s.manifest.id

ValidRecord(a, p, s) ==
    /\ a # None => ValidGeneration(a) /\ a.state = "Serving"
    /\ p # None => ValidGeneration(p) /\ p.state = "Ready"
    /\ s # None => ValidGeneration(s) /\ s.state # "Serving"
    /\ DistinctRoles(a, p, s)
    /\ p # None => a # None

-----------------------------------------------------------------------------
(* How an operation ends: a value returned without a write, or one batch   *)
(* that is written whole or fails whole (StorageBackend::write_batch).     *)

Return(r) == result' = r /\ UNCHANGED durable

WriteBatch(a, p, s, c, sm, im, r) ==
    IF ~ValidRecord(a, p, s) THEN Return("CorruptRecord")
    ELSE \/ /\ active' = a /\ previous' = p /\ staged' = s
            /\ ckpt' = c /\ seqMark' = sm /\ idMark' = im
            /\ result' = r
         \/ Return("Storage")

PersistStaged(s) ==
    WriteBatch(active, previous, s, WithCheckpoint(ckpt, s), seqMark, idMark, "Ok")

(* generation_by_id_mut: active, then previous, then staged.               *)
Retained(g) == Present(active, g) \/ Present(previous, g) \/ Present(staged, g)

GenerationById(g) == IF Present(active, g) THEN active
                     ELSE IF Present(previous, g) THEN previous
                     ELSE staged

(* load_required_unlocked and staged_mut: why the staged slot cannot be    *)
(* handed out for generation g.                                            *)
StagedRefusal(g) == IF NoRecord THEN "StateNotFound"
                    ELSE IF staged = None THEN "StagedNotFound"
                    ELSE "GenerationMismatch"

-----------------------------------------------------------------------------
(* Operations.                                                             *)

StageGeneration(m) ==
    \/ /\ Present(active, m.id) \/ Present(previous, m.id)
       /\ Return("GenerationConflict")
    \/ /\ ~Present(active, m.id) /\ ~Present(previous, m.id)
       /\ staged # None
       /\ Return(IF staged.manifest = m THEN "AlreadyStaged" ELSE "GenerationConflict")
    \/ /\ ~Present(active, m.id) /\ ~Present(previous, m.id)
       /\ staged = None
       /\ WriteBatch(active, previous,
                     [manifest |-> m, applied |-> m.base, state |-> "Staged",
                      last_error |-> None],
                     ckpt, seqMark, idMark, "Staged")

MarkBundleLoaded(g) ==
    \/ /\ ~Present(staged, g)
       /\ Return(StagedRefusal(g))
    \/ /\ Present(staged, g) /\ staged.state # "Staged"
       /\ Return(IF staged.state = "CatchingUp" THEN "Ok" ELSE "InvalidTransition")
    \/ /\ Present(staged, g) /\ staged.state = "Staged"
       /\ PersistStaged([staged EXCEPT !.state = "CatchingUp"])

(* The markers are consulted before the record, so a redelivery is         *)
(* answered whatever the state of the generation.                          *)
MarkedOutcome(m) ==
    LET sm == seqMark[m.gen][m.seq] IN
    IF idMark[m.gen][sm.id] # sm THEN "CorruptMarkers"
    ELSE IF sm.id # m.id THEN "SequenceConflict"
    ELSE IF sm.sha # m.sha THEN "ContentConflict"
    ELSE "Duplicate"

ReplayRefusal(m) ==
    IF ~Present(staged, m.gen) THEN StagedRefusal(m.gen)
    ELSE IF staged.state # "CatchingUp" THEN "InvalidTransition"
    ELSE IF m.seq # staged.applied + 1 THEN "SequenceGap"
    ELSE IF m.seq > staged.manifest.target THEN "InvalidTransition"
    ELSE None

ApplyMutation(m) ==
    \/ /\ seqMark[m.gen][m.seq] # None
       /\ Return(MarkedOutcome(m))
    \/ /\ seqMark[m.gen][m.seq] = None
       /\ idMark[m.gen][m.id] # None
       /\ Return(IF idMark[m.gen][m.id].seq # m.seq THEN "MutationIdConflict"
                 ELSE "CorruptMarkers")
    \/ /\ seqMark[m.gen][m.seq] = None
       /\ idMark[m.gen][m.id] = None
       /\ ReplayRefusal(m) # None
       /\ Return(ReplayRefusal(m))
    \/ /\ seqMark[m.gen][m.seq] = None
       /\ idMark[m.gen][m.id] = None
       /\ ReplayRefusal(m) = None
       /\ LET next == [staged EXCEPT !.applied = m.seq] IN
          WriteBatch(active, previous, next, WithCheckpoint(ckpt, next),
                     [seqMark EXCEPT ![m.gen][m.seq] = MarkerFor(m)],
                     [idMark EXCEPT ![m.gen][m.id] = MarkerFor(m)],
                     "Applied")

VerifyAppliedMutation(m) ==
    \/ /\ ~Retained(m.gen)
       /\ Return(IF NoRecord THEN "StateNotFound" ELSE "GenerationMismatch")
    \/ /\ Retained(m.gen)
       /\ LET gen == GenerationById(m.gen) IN
          Return(IF m.seq <= gen.manifest.target \/ m.seq > gen.applied
                 THEN "InvalidTransition"
                 ELSE IF seqMark[m.gen][m.seq] = MarkerFor(m)
                         /\ idMark[m.gen][m.id] = MarkerFor(m)
                 THEN "Verified" ELSE "ContentConflict")

(* The checks a revision commit makes of the mutation at one position.     *)
MutationRefusal(gen, i, m) ==
    LET g  == gen.manifest.id
        sm == seqMark[g][m.seq]
        im == idMark[g][m.id]
    IN  IF m.gen # g THEN "GenerationMismatch"
        ELSE IF m.seq # gen.manifest.target + i THEN "SequenceGap"
        ELSE IF sm # None /\ im # None THEN
             IF sm # im THEN "CorruptMarkers"
             ELSE IF sm.id # m.id THEN "SequenceConflict"
             ELSE IF sm.sha # m.sha THEN "ContentConflict"
             ELSE None
        ELSE IF sm # None \/ im # None \/ m.seq <= gen.applied THEN "CorruptMarkers"
        ELSE None

(* The loop stops at the first mutation it refuses.                        *)
TailRefusal(gen, t) ==
    LET bad == {i \in 1..Len(t) : MutationRefusal(gen, i, t[i]) # None} IN
    IF bad = {} THEN None
    ELSE LET i == CHOOSE i \in bad : \A j \in bad : i <= j
         IN  MutationRefusal(gen, i, t[i])

CommitRefusal(gen, sha, n, t) ==
    IF gen.manifest.sha # sha THEN "GenerationConflict"
    ELSE IF gen.state \notin {"Ready", "Serving"} THEN "InvalidTransition"
    ELSE IF n < gen.applied \/ n <= gen.manifest.target THEN "InvalidTransition"
    ELSE IF Len(t) # n - gen.manifest.target THEN "SequenceGap"
    ELSE TailRefusal(gen, t)

(* A put for every mutation without markers, in tail order: of two puts    *)
(* under one key the later one stays.                                      *)
(* Mutant: the sequence marker of the last mutation is not written.        *)
SeqMarkersButLast(g, t) ==
    [k \in 1..MaxSeq |->
        IF seqMark[g][k] = None /\ \E i \in 1..(Len(t) - 1) : t[i].seq = k
        THEN MarkerFor(t[CHOOSE i \in 1..Len(t) : t[i].seq = k])
        ELSE seqMark[g][k]]

(* Mutant: the revision's markers replace the generation's history.        *)
SeqMarkersOnly(g, t) ==
    [k \in 1..MaxSeq |->
        IF \E i \in 1..Len(t) : t[i].seq = k
        THEN MarkerFor(t[CHOOSE i \in 1..Len(t) : t[i].seq = k])
        ELSE None]

SeqMarkersWith(g, t) ==
    [k \in 1..MaxSeq |->
        IF seqMark[g][k] = None /\ \E i \in 1..Len(t) : t[i].seq = k
        THEN MarkerFor(t[CHOOSE i \in 1..Len(t) : t[i].seq = k])
        ELSE seqMark[g][k]]

LastWith(t, id) == CHOOSE i \in 1..Len(t) :
                      /\ t[i].id = id
                      /\ \A j \in 1..Len(t) : t[j].id = id => j <= i

IdMarkersWith(g, t) ==
    [id \in MutIds |->
        IF idMark[g][id] = None /\ \E i \in 1..Len(t) : t[i].id = id
        THEN MarkerFor(t[LastWith(t, id)])
        ELSE idMark[g][id]]

Replace(r, s) == IF Present(r, s.manifest.id) THEN s ELSE r

CommitGenerationRevision(g, sha, n, t) ==
    \/ /\ n > MaxSeq
       /\ Return("NonPortableInteger")
    \/ /\ n <= MaxSeq /\ ~Retained(g)
       /\ Return(IF NoRecord THEN "StateNotFound" ELSE "GenerationMismatch")
    \/ /\ n <= MaxSeq /\ Retained(g)
       /\ LET gen == GenerationById(g) IN
          /\ CommitRefusal(gen, sha, n, t) # None
          /\ Return(CommitRefusal(gen, sha, n, t))
    \/ /\ n <= MaxSeq /\ Retained(g)
       /\ LET gen  == GenerationById(g)
              next == [gen EXCEPT !.applied = n, !.last_error = None]
          IN  /\ CommitRefusal(gen, sha, n, t) = None
              /\ IF n = gen.applied THEN Return("Duplicate")
                 ELSE WriteBatch(Replace(active, next), Replace(previous, next),
                                 Replace(staged, next), WithCheckpoint(ckpt, next),
                                 [seqMark EXCEPT ![g] = SeqMarkersWith(g, t)],
                                 [idMark EXCEPT ![g] = IdMarkersWith(g, t)],
                                 "Applied")

MarkReady(g) ==
    \/ /\ ~Present(staged, g)
       /\ Return(StagedRefusal(g))
    \/ /\ Present(staged, g) /\ staged.state = "Ready"
       /\ Return("Ok")
    \/ /\ Present(staged, g) /\ staged.state # "Ready"
       /\ staged.state # "CatchingUp" \/ staged.applied # staged.manifest.target
       /\ Return("InvalidTransition")
    \/ /\ Present(staged, g) /\ staged.state = "CatchingUp"
       /\ staged.applied = staged.manifest.target
       /\ PersistStaged([staged EXCEPT !.state = "Ready"])

As(s, state) == [s EXCEPT !.state = state, !.last_error = None]

(* The former active generation becomes the rollback target, and whatever  *)
(* was the rollback target leaves the record.                              *)
Activate(g) ==
    \/ /\ Present(active, g)
       /\ Return("Ok")
    \/ /\ ~Present(active, g) /\ ~Present(staged, g)
       /\ Return(StagedRefusal(g))
    \/ /\ ~Present(active, g) /\ Present(staged, g)
       /\ staged.state # "Ready"
       /\ Return("InvalidTransition")
    \/ /\ ~Present(active, g) /\ Present(staged, g)
       /\ staged.state = "Ready"
       /\ LET next == As(staged, "Serving") IN
          IF active = None
          THEN WriteBatch(next, previous, None, WithCheckpoint(ckpt, next),
                          seqMark, idMark, "Ok")
          ELSE LET former == As(active, "Ready") IN
               WriteBatch(next, former, None,
                          WithCheckpoint(WithCheckpoint(ckpt, former), next),
                          seqMark, idMark, "Ok")

Rollback(g) ==
    \/ /\ Present(active, g)
       /\ Return("Ok")
    \/ /\ ~Present(active, g) /\ ~Present(previous, g)
       /\ Return(IF NoRecord THEN "StateNotFound"
                 ELSE IF previous = None THEN "InvalidTransition"
                 ELSE "GenerationMismatch")
    \/ /\ ~Present(active, g) /\ Present(previous, g)
       /\ IF active = None THEN Return("CorruptRecord")
          ELSE LET target == As(previous, "Serving")
                   former == As(active, "Ready")
               IN  WriteBatch(target, former, staged,
                              WithCheckpoint(WithCheckpoint(ckpt, target), former),
                              seqMark, idMark, "Ok")

FailStaged(g, f) ==
    \/ /\ f \notin Failures
       /\ Return("InvalidTransition")
    \/ /\ f \in Failures /\ ~Present(staged, g)
       /\ Return(StagedRefusal(g))
    \/ /\ f \in Failures /\ Present(staged, g)
       /\ IF staged.state = "Serving" THEN Return("InvalidTransition")
          ELSE IF staged.state = "Failed" /\ staged.last_error = f THEN Return("Ok")
          ELSE PersistStaged([staged EXCEPT !.state = "Failed", !.last_error = f])

-----------------------------------------------------------------------------
Init ==
    /\ active = None /\ previous = None /\ staged = None
    /\ ckpt = [g \in GenIds |-> None]
    /\ seqMark = [g \in GenIds |-> [n \in 1..MaxSeq |-> None]]
    /\ idMark = [g \in GenIds |-> [id \in MutIds |-> None]]
    /\ result = "Ok"

Next ==
    \/ \E m \in Manifests : StageGeneration(m)
    \/ \E g \in GenIds : MarkBundleLoaded(g)
    \/ \E m \in Mutations : ApplyMutation(m)
    \/ \E m \in Mutations : VerifyAppliedMutation(m)
    \/ \E c \in Commits : CommitGenerationRevision(c.gen, c.sha, c.target, c.tail)
    \/ \E g \in GenIds : MarkReady(g)
    \/ \E g \in GenIds : Activate(g)
    \/ \E g \in GenIds : Rollback(g)
    \/ \E g \in GenIds, f \in Failures \cup {BadFailure} : FailStaged(g, f)

Spec == Init /\ [][Next]_vars

-----------------------------------------------------------------------------
(* Properties.                                                             *)

Roles == {active, previous, staged} \ {None}

(* Type correctness of the durable record, checkpoints and markers.  A     *)
(* checkpoint is never in state Staged: checkpoint_for refuses to build it.*)
TypeOK ==
    /\ active \in GenStates \cup {None}
    /\ previous \in GenStates \cup {None}
    /\ staged \in GenStates \cup {None}
    /\ ckpt \in [GenIds -> Checkpoints \cup {None}]
    /\ seqMark \in [GenIds -> [1..MaxSeq -> Markers \cup {None}]]
    /\ idMark \in [GenIds -> [MutIds -> Markers \cup {None}]]
    /\ result \in Accepted \cup Refused

(* No sequence of calls, failed batches included, builds a record that     *)
(* validate_record refuses: the check before every batch never fires, and  *)
(* a replica never finds its own record unreadable after a restart.        *)
RecordNeverRefused == ValidRecord(active, previous, staged) /\ result # "CorruptRecord"

(* The marker under a sequence and the marker under the mutation's         *)
(* identity name each other: a mutation owns one sequence, a sequence one  *)
(* mutation.  apply_mutation and commit_generation_revision both read the  *)
(* pair and report corruption when it disagrees.                           *)
MarkersPaired ==
    \A g \in GenIds :
        /\ \A n \in 1..MaxSeq : seqMark[g][n] # None =>
              seqMark[g][n].seq = n /\ idMark[g][seqMark[g][n].id] = seqMark[g][n]
        /\ \A id \in MutIds : idMark[g][id] # None =>
              idMark[g][id].id = id /\ seqMark[g][idMark[g][id].seq] = idMark[g][id]

(* Whatever sequence a retained generation claims to have applied, every   *)
(* mutation after its bundle's base up to there has a durable marker, so   *)
(* verify_applied_mutation and a retried revision can check the history.   *)
AppliedIsMarked ==
    \A r \in Roles : \A n \in (r.manifest.base + 1)..r.applied :
        seqMark[r.manifest.id][n] # None

(* The checkpoint of every retained generation whose bundle is loaded says *)
(* what the record says, and only the active generation has a checkpoint   *)
(* that reports Serving, across activation, rollback and eviction.         *)
CheckpointsTruthful ==
    /\ \A r \in Roles : r.state # "Staged" => ckpt[r.manifest.id] = CheckpointFor(r)
    /\ \A g \in GenIds : ckpt[g] # None /\ ckpt[g].state = "Serving" => Present(active, g)

(* Applied history is never rewritten: a marker, once written, outlives    *)
(* activation, rollback, failure, eviction and re-staging unchanged.       *)
HistoryKept ==
    [][\A g \in GenIds :
          /\ \A n \in 1..MaxSeq : seqMark[g][n] # None => seqMark'[g][n] = seqMark[g][n]
          /\ \A id \in MutIds : idMark[g][id] # None => idMark'[g][id] = idMark[g][id]]_vars

(* While a generation is retained, in whichever role, its manifest is      *)
(* immutable and its applied sequence never goes back.                     *)
ProgressKept ==
    [][\A g \in GenIds : Retained(g) /\ Retained(g)' =>
          /\ GenerationById(g)'.manifest = GenerationById(g).manifest
          /\ GenerationById(g)'.applied >= GenerationById(g).applied]_vars

(* The serving pointer moves only to a generation that was Ready, keeps    *)
(* the generation it leaves as the rollback target, and is never cleared.  *)
Handover ==
    [][\/ active' = active
       \/ /\ active # None /\ active' # None
          /\ active'.manifest = active.manifest
       \/ /\ active' # None
          /\ \E r \in {staged, previous} : r # None /\ active' = As(r, "Serving") /\ r.state = "Ready"
          /\ active # None => previous' = As(active, "Ready")]_vars

(* The durable record, the checkpoints and the mutation markers of a       *)
(* replica agree after every sequence of calls, refused and failed ones    *)
(* included.                                                               *)
RecordSound ==
    /\ TypeOK
    /\ RecordNeverRefused
    /\ MarkersPaired
    /\ AppliedIsMarked
    /\ CheckpointsTruthful
=============================================================================
