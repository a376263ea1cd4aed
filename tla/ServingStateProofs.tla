------------------------- MODULE ServingStateProofs -------------------------
(***************************************************************************)
(* Proofs about ServingState for every set of generations, manifests,      *)
(* mutations and commits and every sequence bound.                         *)
(***************************************************************************)
EXTENDS ServingState, TLAPS, WellFoundedInduction

-----------------------------------------------------------------------------
(* Least and greatest elements of sets of positions.                       *)

LEMMA LeastExists ==
    ASSUME NEW T, T \subseteq Nat, T # {}
    PROVE  \E n \in T : \A k \in T : n <= k
<1>1. PICK n \in T : ~ \E k \in T : <<k, n>> \in OpToRel(<, Nat)
  BY WFMin, NatLessThanWellFounded, Zenon
<1>2. \A k \in T : ~ (k < n)
  BY <1>1, Zenon DEF OpToRel
<1> QED
  BY <1>2

LEMMA GreatestExists ==
    ASSUME NEW L \in Nat, NEW S, S \subseteq 1..L, S # {}
    PROVE  \E n \in S : \A k \in S : k <= n
<1> DEFINE T == {L - i : i \in S}
<1>0. T \subseteq Nat /\ T # {}
  <2>1. \A i \in S : L - i \in Nat
    OBVIOUS
  <2>2. PICK e \in S : TRUE
    OBVIOUS
  <2>3. L - e \in T
    BY <2>2
  <2> QED
    BY <2>1, <2>3
<1>1. PICK n \in T : \A k \in T : n <= k
  BY <1>0, LeastExists
<1>2. PICK i \in S : n = L - i
  BY <1>1
<1>3. ASSUME NEW k \in S PROVE k <= i
  <2>1. L - k \in T
    OBVIOUS
  <2>2. L - i <= L - k
    BY <1>1, <1>2, <2>1, Zenon
  <2>3. k \in Int /\ i \in Int
    OBVIOUS
  <2> HIDE DEF T
  <2> QED
    BY <2>2, <2>3
<1> QED
  BY <1>3

-----------------------------------------------------------------------------
(* Type correctness.                                                       *)

OptionalGen == GenStates \cup {None}
CkptType == [GenIds -> Checkpoints \cup {None}]
SeqMarkType == [GenIds -> [1..MaxSeq -> Markers \cup {None}]]
IdMarkType == [GenIds -> [MutIds -> Markers \cup {None}]]
Results == Accepted \cup Refused

(* An operation that returns without a batch keeps the types.              *)
LEMMA ReturnType ==
    ASSUME TypeOK, NEW r \in Results, Return(r)
    PROVE  TypeOK'
BY DEF TypeOK, Return, durable, Results

(* A batch of well-typed values keeps the types.                           *)
LEMMA WriteBatchType ==
    ASSUME TypeOK,
           NEW a \in OptionalGen, NEW p \in OptionalGen, NEW s \in OptionalGen,
           NEW c \in CkptType, NEW sm \in SeqMarkType, NEW im \in IdMarkType,
           NEW r \in Results, WriteBatch(a, p, s, c, sm, im, r)
    PROVE  TypeOK'
<1>1. CASE Return("CorruptRecord")
  BY <1>1, ReturnType DEF Results, Refused
<1>2. CASE Return("Storage")
  BY <1>2, ReturnType DEF Results, Refused
<1>3. CASE /\ active' = a /\ previous' = p /\ staged' = s
           /\ ckpt' = c /\ seqMark' = sm /\ idMark' = im
           /\ result' = r
  BY <1>3 DEF TypeOK, OptionalGen, CkptType, SeqMarkType, IdMarkType, Results
<1> QED
  BY <1>1, <1>2, <1>3 DEF WriteBatch

(* The checkpoint of a generation past staging is well typed, and so is a  *)
(* checkpoint table updated with it.                                       *)
LEMMA WithCheckpointType ==
    ASSUME NEW c \in CkptType, NEW s \in GenStates, s.state # "Staged"
    PROVE  WithCheckpoint(c, s) \in CkptType
<1>1. s.manifest.id \in GenIds /\ s.manifest.sha \in Shas
  BY ManifestAssumption DEF GenStates
<1>2. CheckpointFor(s) \in Checkpoints
  BY <1>1 DEF GenStates, Checkpoints, CheckpointFor, LocalStates
<1> QED
  BY <1>1, <1>2 DEF WithCheckpoint, CkptType

(* A record role updated in place stays a generation state.                *)
LEMMA AsType ==
    ASSUME NEW s \in GenStates, NEW state \in LocalStates
    PROVE  As(s, state) \in GenStates /\ As(s, state).state = state
           /\ As(s, state).manifest = s.manifest /\ As(s, state).applied = s.applied
           /\ As(s, state).last_error = None
BY DEF As, GenStates

(* So does one that a revision advances.                                   *)
Revised(s, n) == [s EXCEPT !.applied = n, !.last_error = None]

LEMMA RevisedType ==
    ASSUME NEW s \in GenStates, NEW n \in 0..MaxSeq
    PROVE  /\ Revised(s, n) \in GenStates
           /\ Revised(s, n).state = s.state /\ Revised(s, n).manifest = s.manifest
           /\ Revised(s, n).applied = n /\ Revised(s, n).last_error = None
BY DEF GenStates, Revised

(* What PersistStaged writes is well typed.                                *)
LEMMA PersistStagedType ==
    ASSUME TypeOK, NEW s \in GenStates, s.state # "Staged", PersistStaged(s)
    PROVE  TypeOK'
<1>1. WithCheckpoint(ckpt, s) \in CkptType
  BY WithCheckpointType DEF TypeOK, CkptType
<1> QED
  BY <1>1, WriteBatchType
     DEF PersistStaged, TypeOK, OptionalGen, SeqMarkType, IdMarkType, Results, Accepted

(* Why the staged slot is refused is one of the errors.                    *)
LEMMA StagedRefusalType ==
    ASSUME NEW g PROVE StagedRefusal(g) \in Results
BY DEF StagedRefusal, Results, Refused

(* The refusals are error names, never None.                               *)
LEMMA StagedRefusalNotNone ==
    ASSUME NEW g PROVE StagedRefusal(g) # None
BY NoneAssumption DEF StagedRefusal, Refused

LEMMA StageGenerationType ==
    ASSUME TypeOK, NEW m \in Manifests, StageGeneration(m) PROVE TypeOK'
<1> DEFINE new == [manifest |-> m, applied |-> m.base, state |-> "Staged",
                   last_error |-> None]
<1>1. new \in GenStates
  BY ManifestAssumption DEF GenStates, LocalStates
<1>2. CASE Return("GenerationConflict")
  BY <1>2, ReturnType DEF Results, Refused
<1>3. CASE Return("AlreadyStaged")
  BY <1>3, ReturnType DEF Results, Accepted
<1>4. CASE WriteBatch(active, previous, new, ckpt, seqMark, idMark, "Staged")
  BY <1>1, <1>4, WriteBatchType
     DEF TypeOK, OptionalGen, CkptType, SeqMarkType, IdMarkType, Results, Accepted
<1> QED
  BY <1>2, <1>3, <1>4 DEF StageGeneration

LEMMA MarkBundleLoadedType ==
    ASSUME TypeOK, NEW g \in GenIds, MarkBundleLoaded(g) PROVE TypeOK'
<1>1. CASE Return(StagedRefusal(g))
  BY <1>1, ReturnType, StagedRefusalType
<1>2. CASE Return("Ok") \/ Return("InvalidTransition")
  BY <1>2, ReturnType DEF Results, Accepted, Refused
<1>3. CASE /\ Present(staged, g)
           /\ PersistStaged([staged EXCEPT !.state = "CatchingUp"])
  <2>1. staged \in GenStates
    BY <1>3 DEF TypeOK, Present
  <2>2. /\ [staged EXCEPT !.state = "CatchingUp"] \in GenStates
        /\ [staged EXCEPT !.state = "CatchingUp"].state # "Staged"
    BY <2>1 DEF GenStates, LocalStates
  <2> QED
    BY <1>3, <2>2, PersistStagedType
<1> QED
  BY <1>1, <1>2, <1>3 DEF MarkBundleLoaded

LEMMA MarkReadyType ==
    ASSUME TypeOK, NEW g \in GenIds, MarkReady(g) PROVE TypeOK'
<1>1. CASE Return(StagedRefusal(g))
  BY <1>1, ReturnType, StagedRefusalType
<1>2. CASE Return("Ok") \/ Return("InvalidTransition")
  BY <1>2, ReturnType DEF Results, Accepted, Refused
<1>3. CASE /\ Present(staged, g)
           /\ PersistStaged([staged EXCEPT !.state = "Ready"])
  <2>1. staged \in GenStates
    BY <1>3 DEF TypeOK, Present
  <2>2. /\ [staged EXCEPT !.state = "Ready"] \in GenStates
        /\ [staged EXCEPT !.state = "Ready"].state # "Staged"
    BY <2>1 DEF GenStates, LocalStates
  <2> QED
    BY <1>3, <2>2, PersistStagedType
<1> QED
  BY <1>1, <1>2, <1>3 DEF MarkReady

LEMMA FailStagedType ==
    ASSUME TypeOK, NEW g \in GenIds, NEW f, FailStaged(g, f) PROVE TypeOK'
<1>1. CASE Return(StagedRefusal(g))
  BY <1>1, ReturnType, StagedRefusalType
<1>2. CASE Return("Ok") \/ Return("InvalidTransition")
  BY <1>2, ReturnType DEF Results, Accepted, Refused
<1>3. CASE /\ f \in Failures /\ Present(staged, g)
           /\ PersistStaged([staged EXCEPT !.state = "Failed", !.last_error = f])
  <2>1. staged \in GenStates
    BY <1>3 DEF TypeOK, Present
  <2>2. /\ [staged EXCEPT !.state = "Failed", !.last_error = f] \in GenStates
        /\ [staged EXCEPT !.state = "Failed", !.last_error = f].state # "Staged"
    BY <1>3, <2>1 DEF GenStates, LocalStates
  <2> QED
    BY <1>3, <2>2, PersistStagedType
<1> QED
  BY <1>1, <1>2, <1>3 DEF FailStaged

LEMMA ApplyMutationType ==
    ASSUME TypeOK, NEW m \in Mutations, ApplyMutation(m) PROVE TypeOK'
<1>m. m \in [gen : GenIds, id : MutIds, seq : 1..MaxSeq, sha : Shas]
  BY MutationAssumption
<1>1. CASE Return(MarkedOutcome(m))
  BY <1>1, ReturnType DEF MarkedOutcome, Results, Accepted, Refused
<1>2. CASE Return("MutationIdConflict") \/ Return("CorruptMarkers")
  BY <1>2, ReturnType DEF Results, Refused
<1>3. CASE ReplayRefusal(m) # None /\ Return(ReplayRefusal(m))
  <2>1. ReplayRefusal(m) \in Results
    BY <1>3, StagedRefusalType DEF ReplayRefusal, Results, Refused
  <2> QED
    BY <1>3, <2>1, ReturnType
<1>4. ASSUME ReplayRefusal(m) = None,
             WriteBatch(active, previous, [staged EXCEPT !.applied = m.seq],
                        WithCheckpoint(ckpt, [staged EXCEPT !.applied = m.seq]),
                        [seqMark EXCEPT ![m.gen][m.seq] = MarkerFor(m)],
                        [idMark EXCEPT ![m.gen][m.id] = MarkerFor(m)], "Applied")
      PROVE  TypeOK'
  <2> DEFINE next == [staged EXCEPT !.applied = m.seq]
  <2>1. staged \in GenStates /\ staged.state = "CatchingUp"
    BY <1>4, StagedRefusalNotNone, NoneAssumption DEF TypeOK, ReplayRefusal, Present, Refused
  <2>2. next \in GenStates /\ next.state # "Staged"
    BY <1>m, <2>1, MaxSeqAssumption DEF GenStates
  <2>3. WithCheckpoint(ckpt, next) \in CkptType
    BY <2>2, WithCheckpointType DEF TypeOK, CkptType
  <2>4. MarkerFor(m) \in Markers
    BY <1>m DEF MarkerFor, Markers
  <2>5. /\ [seqMark EXCEPT ![m.gen][m.seq] = MarkerFor(m)] \in SeqMarkType
        /\ [idMark EXCEPT ![m.gen][m.id] = MarkerFor(m)] \in IdMarkType
    BY <1>m, <2>4 DEF TypeOK, SeqMarkType, IdMarkType
  <2> QED
    BY <1>4, <2>2, <2>3, <2>5, WriteBatchType DEF TypeOK, OptionalGen, Results, Accepted
<1> QED
  BY <1>1, <1>2, <1>3, <1>4 DEF ApplyMutation

(* A generation found by its identifier is a generation state.             *)
LEMMA GenerationByIdType ==
    ASSUME TypeOK, NEW g, Retained(g)
    PROVE  /\ GenerationById(g) \in GenStates
           /\ GenerationById(g).manifest.id = g
           /\ GenerationById(g) \in Roles
BY DEF TypeOK, Retained, GenerationById, Present, Roles

LEMMA VerifyAppliedMutationType ==
    ASSUME TypeOK, NEW m \in Mutations, VerifyAppliedMutation(m) PROVE TypeOK'
<1>1. ASSUME NEW r, Return(r),
             r \in {"StateNotFound", "GenerationMismatch", "InvalidTransition", "Verified",
                    "ContentConflict"}
      PROVE  TypeOK'
  BY <1>1, ReturnType DEF Results, Accepted, Refused
<1> QED
  BY <1>1 DEF VerifyAppliedMutation

(* The refusals of a commit are error names or None.                       *)
LEMMA CommitRefusalType ==
    ASSUME NEW gen, NEW sha, NEW n, NEW t
    PROVE  CommitRefusal(gen, sha, n, t) \in Refused \cup {None}
<1>1. ASSUME NEW i, NEW m PROVE MutationRefusal(gen, i, m) \in Refused \cup {None}
  BY DEF MutationRefusal, Refused
<1>2. TailRefusal(gen, t) \in Refused \cup {None}
  BY <1>1 DEF TailRefusal
<1> QED
  BY <1>2 DEF CommitRefusal, Refused

(* Of the positions that carry an identity there is a last one.            *)
LEMMA LastWithExists ==
    ASSUME NEW t \in Seq(Mutations), NEW id, \E i \in 1..Len(t) : t[i].id = id
    PROVE  LastWith(t, id) \in 1..Len(t) /\ t[LastWith(t, id)].id = id
<1> DEFINE S == {i \in 1..Len(t) : t[i].id = id}
<1>0. S \subseteq 1..Len(t) /\ S # {} /\ Len(t) \in Nat
  OBVIOUS
<1>1. PICK n \in S : \A k \in S : k <= n
  BY <1>0, GreatestExists
<1> QED
  BY <1>1 DEF LastWith

(* The marker tables a commit writes are well typed.                       *)
LEMMA MarkersWithType ==
    ASSUME TypeOK, NEW g \in GenIds, NEW t \in Seq(Mutations)
    PROVE  /\ SeqMarkersWith(g, t) \in [1..MaxSeq -> Markers \cup {None}]
           /\ IdMarkersWith(g, t) \in [MutIds -> Markers \cup {None}]
<1>1. \A i \in 1..Len(t) : MarkerFor(t[i]) \in Markers
  BY MutationAssumption DEF MarkerFor, Markers
<1>2. SeqMarkersWith(g, t) \in [1..MaxSeq -> Markers \cup {None}]
  <2> DEFINE at(k) == CHOOSE i \in 1..Len(t) : t[i].seq = k
  <2>1. ASSUME NEW k \in 1..MaxSeq, \E i \in 1..Len(t) : t[i].seq = k
        PROVE  at(k) \in 1..Len(t)
    BY <2>1
  <2>2. seqMark[g] \in [1..MaxSeq -> Markers \cup {None}]
    BY DEF TypeOK
  <2>3. SeqMarkersWith(g, t) =
          [k \in 1..MaxSeq |->
             IF seqMark[g][k] = None /\ \E i \in 1..Len(t) : t[i].seq = k
             THEN MarkerFor(t[at(k)]) ELSE seqMark[g][k]]
    BY DEF SeqMarkersWith
  <2> HIDE DEF at
  <2>4. ASSUME NEW k \in 1..MaxSeq
        PROVE  (IF seqMark[g][k] = None /\ \E i \in 1..Len(t) : t[i].seq = k
                THEN MarkerFor(t[at(k)]) ELSE seqMark[g][k]) \in Markers \cup {None}
    BY <1>1, <2>1, <2>2
  <2> QED
    BY <2>3, <2>4
<1>3. IdMarkersWith(g, t) \in [MutIds -> Markers \cup {None}]
  <2>1. ASSUME NEW id \in MutIds, \E i \in 1..Len(t) : t[i].id = id
        PROVE  LastWith(t, id) \in 1..Len(t)
    BY <2>1, LastWithExists
  <2> QED
    BY <1>1, <2>1 DEF IdMarkersWith, TypeOK
<1> QED
  BY <1>2, <1>3

LEMMA CommitGenerationRevisionType ==
    ASSUME TypeOK, NEW c \in Commits,
           CommitGenerationRevision(c.gen, c.sha, c.target, c.tail)
    PROVE  TypeOK'
<1> DEFINE g == c.gen
           n == c.target
           t == c.tail
           gen == GenerationById(g)
           next == [gen EXCEPT !.applied = n, !.last_error = None]
           refusal == CommitRefusal(gen, c.sha, n, t)
<1>c. g \in GenIds /\ n \in Nat /\ t \in Seq(Mutations)
  BY CommitAssumption
<1>1. CASE \E r \in {"NonPortableInteger", "StateNotFound", "GenerationMismatch", "Duplicate"} :
             Return(r)
  BY <1>1, ReturnType DEF Results, Accepted, Refused
<1>2. CASE refusal # None /\ Return(refusal)
  BY <1>2, ReturnType, CommitRefusalType DEF Results
<1>3. ASSUME n <= MaxSeq, Retained(g), refusal = None,
             WriteBatch(Replace(active, next), Replace(previous, next),
                        Replace(staged, next), WithCheckpoint(ckpt, next),
                        [seqMark EXCEPT ![g] = SeqMarkersWith(g, t)],
                        [idMark EXCEPT ![g] = IdMarkersWith(g, t)], "Applied")
      PROVE  TypeOK'
  <2>1. gen \in GenStates
    BY <1>3, GenerationByIdType
  <2>2. gen.state \in {"Ready", "Serving"}
    BY <1>3, NoneAssumption DEF CommitRefusal, Refused
  <2>3. next \in GenStates /\ next.state # "Staged"
    <3>1. n \in 0..MaxSeq
      BY <1>c, <1>3, MaxSeqAssumption
    <3>2. next = Revised(gen, n)
      BY DEF Revised
    <3> HIDE DEF gen, n, next
    <3>3. next \in GenStates /\ next.state = gen.state
      BY <2>1, <3>1, <3>2, RevisedType
    <3> QED
      BY <2>2, <3>3
  <2>4. WithCheckpoint(ckpt, next) \in CkptType
    BY <2>3, WithCheckpointType DEF TypeOK, CkptType
  <2>5. /\ [seqMark EXCEPT ![g] = SeqMarkersWith(g, t)] \in SeqMarkType
        /\ [idMark EXCEPT ![g] = IdMarkersWith(g, t)] \in IdMarkType
    BY <1>c, MarkersWithType DEF TypeOK, SeqMarkType, IdMarkType
  <2>6. ASSUME NEW r \in OptionalGen PROVE Replace(r, next) \in OptionalGen
    BY <2>3 DEF Replace, OptionalGen
  <2> HIDE DEF next
  <2> QED
    BY <1>3, <2>4, <2>5, <2>6, WriteBatchType DEF TypeOK, OptionalGen, Results, Accepted
<1> QED
  BY <1>1, <1>2, <1>3 DEF CommitGenerationRevision

LEMMA ActivateType ==
    ASSUME TypeOK, NEW g \in GenIds, Activate(g) PROVE TypeOK'
<1>1. CASE Return("Ok") \/ Return("InvalidTransition")
  BY <1>1, ReturnType DEF Results, Accepted, Refused
<1>2. CASE Return(StagedRefusal(g))
  BY <1>2, ReturnType, StagedRefusalType
<1>3. CASE Present(staged, g)
  <2> DEFINE next == As(staged, "Serving")
             former == As(active, "Ready")
  <2>1. next \in GenStates /\ next.state # "Staged"
    BY <1>3, AsType DEF TypeOK, Present, LocalStates
  <2>2. WithCheckpoint(ckpt, next) \in CkptType
    BY <2>1, WithCheckpointType DEF TypeOK, CkptType
  <2>3. CASE WriteBatch(next, previous, None, WithCheckpoint(ckpt, next),
                        seqMark, idMark, "Ok")
    BY <2>1, <2>2, <2>3, WriteBatchType
       DEF TypeOK, OptionalGen, SeqMarkType, IdMarkType, Results, Accepted
  <2>4. CASE /\ active # None
             /\ WriteBatch(next, former, None,
                           WithCheckpoint(WithCheckpoint(ckpt, former), next),
                           seqMark, idMark, "Ok")
    <3>1. former \in GenStates /\ former.state # "Staged"
      BY <2>4, AsType DEF TypeOK, LocalStates
    <3>2. WithCheckpoint(WithCheckpoint(ckpt, former), next) \in CkptType
      BY <2>1, <3>1, WithCheckpointType DEF TypeOK, CkptType
    <3> QED
      BY <2>1, <2>4, <3>1, <3>2, WriteBatchType
         DEF TypeOK, OptionalGen, SeqMarkType, IdMarkType, Results, Accepted
  <2> QED
    BY <1>1, <1>2, <2>3, <2>4 DEF Activate
<1> QED
  BY <1>1, <1>2, <1>3 DEF Activate

LEMMA RollbackType ==
    ASSUME TypeOK, NEW g \in GenIds, Rollback(g) PROVE TypeOK'
<1>1. CASE \E r \in {"Ok", "StateNotFound", "InvalidTransition", "GenerationMismatch",
                      "CorruptRecord"} : Return(r)
  BY <1>1, ReturnType DEF Results, Accepted, Refused
<1>2. CASE /\ Present(previous, g) /\ active # None
           /\ WriteBatch(As(previous, "Serving"), As(active, "Ready"), staged,
                WithCheckpoint(WithCheckpoint(ckpt, As(previous, "Serving")), As(active, "Ready")),
                seqMark, idMark, "Ok")
  <2> DEFINE target == As(previous, "Serving")
             former == As(active, "Ready")
  <2>1. target \in GenStates /\ target.state # "Staged"
    BY <1>2, AsType DEF TypeOK, Present, LocalStates
  <2>2. former \in GenStates /\ former.state # "Staged"
    BY <1>2, AsType DEF TypeOK, LocalStates
  <2>3. WithCheckpoint(WithCheckpoint(ckpt, target), former) \in CkptType
    BY <2>1, <2>2, WithCheckpointType DEF TypeOK, CkptType
  <2> QED
    BY <1>2, <2>1, <2>2, <2>3, WriteBatchType
       DEF TypeOK, OptionalGen, SeqMarkType, IdMarkType, Results, Accepted
<1> QED
  BY <1>1, <1>2 DEF Rollback

LEMMA InitType == Init => TypeOK
BY DEF Init, TypeOK, Accepted

LEMMA NextType == TypeOK /\ [Next]_vars => TypeOK'
<1> SUFFICES ASSUME TypeOK, [Next]_vars PROVE TypeOK'
  OBVIOUS
<1>1. ASSUME NEW m \in Manifests, StageGeneration(m) PROVE TypeOK'
  BY <1>1, StageGenerationType
<1>2. ASSUME NEW g \in GenIds, MarkBundleLoaded(g) PROVE TypeOK'
  BY <1>2, MarkBundleLoadedType
<1>3. ASSUME NEW m \in Mutations, ApplyMutation(m) PROVE TypeOK'
  BY <1>3, ApplyMutationType
<1>4. ASSUME NEW m \in Mutations, VerifyAppliedMutation(m) PROVE TypeOK'
  BY <1>4, VerifyAppliedMutationType
<1>5. ASSUME NEW c \in Commits, CommitGenerationRevision(c.gen, c.sha, c.target, c.tail)
      PROVE  TypeOK'
  BY <1>5, CommitGenerationRevisionType
<1>6. ASSUME NEW g \in GenIds, MarkReady(g) PROVE TypeOK'
  BY <1>6, MarkReadyType
<1>7. ASSUME NEW g \in GenIds, Activate(g) PROVE TypeOK'
  BY <1>7, ActivateType
<1>8. ASSUME NEW g \in GenIds, Rollback(g) PROVE TypeOK'
  BY <1>8, RollbackType
<1>9. ASSUME NEW g \in GenIds, NEW f \in Failures \cup {BadFailure}, FailStaged(g, f)
      PROVE  TypeOK'
  BY <1>9, FailStagedType
<1>10. CASE UNCHANGED vars
  BY <1>10 DEF TypeOK, vars
<1> QED
  BY <1>1, <1>2, <1>3, <1>4, <1>5, <1>6, <1>7, <1>8, <1>9, <1>10 DEF Next

(* The record, checkpoints and markers of the store keep their types       *)
(* whatever sequence of operations, refused or failed, is run on it.       *)
THEOREM TypeCorrect == Spec => []TypeOK
BY InitType, NextType, PTL DEF Spec

-----------------------------------------------------------------------------
(* validate_record.  Every operation builds its batch from a record that   *)
(* passed the check before; that is all it takes for the next to pass.     *)

LEMMA ReturnRecord ==
    ASSUME RecordNeverRefused, NEW r, r # "CorruptRecord", Return(r)
    PROVE  RecordNeverRefused'
BY DEF RecordNeverRefused, Return, durable, ValidRecord

LEMMA WriteBatchRecord ==
    ASSUME RecordNeverRefused, NEW a, NEW p, NEW s, NEW c, NEW sm, NEW im,
           NEW r, r # "CorruptRecord",
           ValidRecord(a, p, s), WriteBatch(a, p, s, c, sm, im, r)
    PROVE  RecordNeverRefused'
<1>1. CASE Return("Storage")
  BY <1>1, ReturnRecord
<1>2. CASE active' = a /\ previous' = p /\ staged' = s /\ result' = r
  BY <1>2 DEF RecordNeverRefused
<1> QED
  BY <1>1, <1>2 DEF WriteBatch

(* A staged generation replaced by one with the same identity keeps the    *)
(* record valid.                                                           *)
LEMMA PersistStagedRecord ==
    ASSUME RecordNeverRefused, NEW s, staged # None,
           s.manifest = staged.manifest, ValidGeneration(s), s.state # "Serving",
           PersistStaged(s)
    PROVE  RecordNeverRefused'
<1>1. ValidRecord(active, previous, s)
  BY DEF RecordNeverRefused, ValidRecord, DistinctRoles
<1> QED
  BY <1>1, WriteBatchRecord DEF PersistStaged

(* Refusals of the staged slot are not the refusal of a record.            *)
LEMMA StagedRefusalRecord ==
    ASSUME NEW g PROVE StagedRefusal(g) # "CorruptRecord"
BY DEF StagedRefusal

LEMMA StageGenerationRecord ==
    ASSUME TypeOK, RecordNeverRefused, NEW m \in Manifests, StageGeneration(m)
    PROVE  RecordNeverRefused'
<1> DEFINE new == [manifest |-> m, applied |-> m.base, state |-> "Staged",
                   last_error |-> None]
<1>1. CASE \E r \in {"GenerationConflict", "AlreadyStaged"} : Return(r)
  BY <1>1, ReturnRecord
<1>2. CASE /\ ~Present(active, m.id) /\ ~Present(previous, m.id)
           /\ WriteBatch(active, previous, new, ckpt, seqMark, idMark, "Staged")
  <2>1. ValidGeneration(new)
    BY ManifestAssumption DEF ValidGeneration
  <2>2. ValidRecord(active, previous, new)
    BY <1>2, <2>1 DEF RecordNeverRefused, ValidRecord, DistinctRoles, Present
  <2> QED
    BY <1>2, <2>2, WriteBatchRecord
<1> QED
  BY <1>1, <1>2 DEF StageGeneration

LEMMA MarkBundleLoadedRecord ==
    ASSUME TypeOK, RecordNeverRefused, NEW g \in GenIds, MarkBundleLoaded(g)
    PROVE  RecordNeverRefused'
<1>1. CASE Return(StagedRefusal(g))
  BY <1>1, ReturnRecord, StagedRefusalRecord
<1>2. CASE \E r \in {"Ok", "InvalidTransition"} : Return(r)
  BY <1>2, ReturnRecord
<1>3. CASE /\ Present(staged, g) /\ staged.state = "Staged"
           /\ PersistStaged([staged EXCEPT !.state = "CatchingUp"])
  <2> DEFINE next == [staged EXCEPT !.state = "CatchingUp"]
  <2>1. staged \in GenStates /\ ValidGeneration(staged)
    BY <1>3 DEF TypeOK, Present, RecordNeverRefused, ValidRecord
  <2>2. /\ next.manifest = staged.manifest /\ next.applied = staged.applied
        /\ next.state = "CatchingUp" /\ next.last_error = staged.last_error
    BY <2>1 DEF GenStates
  <2>3. ValidGeneration(next)
    BY <1>3, <2>1, <2>2 DEF ValidGeneration
  <2> QED
    BY <1>3, <2>2, <2>3, PersistStagedRecord DEF Present
<1> QED
  BY <1>1, <1>2, <1>3 DEF MarkBundleLoaded

LEMMA MarkReadyRecord ==
    ASSUME TypeOK, RecordNeverRefused, NEW g \in GenIds, MarkReady(g)
    PROVE  RecordNeverRefused'
<1>1. CASE Return(StagedRefusal(g))
  BY <1>1, ReturnRecord, StagedRefusalRecord
<1>2. CASE \E r \in {"Ok", "InvalidTransition"} : Return(r)
  BY <1>2, ReturnRecord
<1>3. CASE /\ Present(staged, g) /\ staged.state = "CatchingUp"
           /\ staged.applied = staged.manifest.target
           /\ PersistStaged([staged EXCEPT !.state = "Ready"])
  <2> DEFINE next == [staged EXCEPT !.state = "Ready"]
  <2>1. staged \in GenStates /\ ValidGeneration(staged)
    BY <1>3 DEF TypeOK, Present, RecordNeverRefused, ValidRecord
  <2>2. /\ next.manifest = staged.manifest /\ next.applied = staged.applied
        /\ next.state = "Ready" /\ next.last_error = staged.last_error
    BY <2>1 DEF GenStates
  <2>3. staged.applied >= staged.manifest.target
    BY <1>3, <2>1, ManifestAssumption DEF GenStates
  <2>4. ValidGeneration(next)
    BY <1>3, <2>1, <2>2, <2>3 DEF ValidGeneration
  <2> QED
    BY <1>3, <2>2, <2>4, PersistStagedRecord DEF Present
<1> QED
  BY <1>1, <1>2, <1>3 DEF MarkReady

LEMMA FailStagedRecord ==
    ASSUME TypeOK, RecordNeverRefused, NEW g \in GenIds, NEW f, FailStaged(g, f)
    PROVE  RecordNeverRefused'
<1>1. CASE Return(StagedRefusal(g))
  BY <1>1, ReturnRecord, StagedRefusalRecord
<1>2. CASE \E r \in {"Ok", "InvalidTransition"} : Return(r)
  BY <1>2, ReturnRecord
<1>3. CASE /\ f \in Failures /\ Present(staged, g)
           /\ PersistStaged([staged EXCEPT !.state = "Failed", !.last_error = f])
  <2> DEFINE next == [staged EXCEPT !.state = "Failed", !.last_error = f]
  <2>1. staged \in GenStates /\ ValidGeneration(staged)
    BY <1>3 DEF TypeOK, Present, RecordNeverRefused, ValidRecord
  <2>2. /\ next.manifest = staged.manifest /\ next.applied = staged.applied
        /\ next.state = "Failed" /\ next.last_error = f
    BY <2>1 DEF GenStates
  <2>3. ValidGeneration(next)
    BY <1>3, <2>1, <2>2, FailureAssumption DEF ValidGeneration
  <2> QED
    BY <1>3, <2>2, <2>3, PersistStagedRecord DEF Present
<1> QED
  BY <1>1, <1>2, <1>3 DEF FailStaged

LEMMA ApplyMutationRecord ==
    ASSUME TypeOK, RecordNeverRefused, NEW m \in Mutations, ApplyMutation(m)
    PROVE  RecordNeverRefused'
<1>1. CASE Return(MarkedOutcome(m))
  BY <1>1, ReturnRecord DEF MarkedOutcome
<1>2. CASE \E r \in {"MutationIdConflict", "CorruptMarkers"} : Return(r)
  BY <1>2, ReturnRecord
<1>3. CASE ReplayRefusal(m) # None /\ Return(ReplayRefusal(m))
  <2>1. ReplayRefusal(m) # "CorruptRecord"
    BY <1>3, StagedRefusalRecord DEF ReplayRefusal
  <2> QED
    BY <1>3, <2>1, ReturnRecord
<1>4. ASSUME ReplayRefusal(m) = None, NEW sm, NEW im,
             WriteBatch(active, previous, [staged EXCEPT !.applied = m.seq],
                        WithCheckpoint(ckpt, [staged EXCEPT !.applied = m.seq]),
                        sm, im, "Applied")
      PROVE  RecordNeverRefused'
  <2> DEFINE next == [staged EXCEPT !.applied = m.seq]
  <2>1. /\ staged \in GenStates /\ staged # None /\ staged.state = "CatchingUp"
        /\ m.seq = staged.applied + 1
    BY <1>4, StagedRefusalNotNone, NoneAssumption DEF TypeOK, ReplayRefusal, Present, Refused
  <2>2. ValidGeneration(staged)
    BY <2>1 DEF RecordNeverRefused, ValidRecord
  <2>3. /\ next.manifest = staged.manifest /\ next.applied = m.seq
        /\ next.state = "CatchingUp" /\ next.last_error = staged.last_error
    BY <2>1 DEF GenStates
  <2>4. m.seq >= staged.manifest.base
    BY <2>1, <2>2, ManifestAssumption DEF GenStates, ValidGeneration
  <2>5. ValidGeneration(next)
    BY <2>1, <2>2, <2>3, <2>4 DEF ValidGeneration
  <2>6. ValidRecord(active, previous, next)
    BY <2>1, <2>3, <2>5 DEF RecordNeverRefused, ValidRecord, DistinctRoles
  <2> HIDE DEF next
  <2> QED
    BY <1>4, <2>6, WriteBatchRecord DEF next
<1> QED
  BY <1>1, <1>2, <1>3, <1>4 DEF ApplyMutation

LEMMA VerifyAppliedMutationRecord ==
    ASSUME TypeOK, RecordNeverRefused, NEW m \in Mutations, VerifyAppliedMutation(m)
    PROVE  RecordNeverRefused'
<1>1. ASSUME NEW r, Return(r),
             r \in {"StateNotFound", "GenerationMismatch", "InvalidTransition", "Verified",
                    "ContentConflict"}
      PROVE  RecordNeverRefused'
  BY <1>1, ReturnRecord
<1> QED
  BY <1>1 DEF VerifyAppliedMutation

(* The refusals of a commit are not the refusal of a record.               *)
LEMMA CommitRefusalRecord ==
    ASSUME NEW gen, NEW sha, NEW n, NEW t, CommitRefusal(gen, sha, n, t) # None
    PROVE  CommitRefusal(gen, sha, n, t) # "CorruptRecord"
<1>1. ASSUME NEW i, NEW m PROVE MutationRefusal(gen, i, m) # "CorruptRecord"
  BY NoneAssumption DEF MutationRefusal, Refused
<1>2. TailRefusal(gen, t) # "CorruptRecord"
  BY <1>1, NoneAssumption DEF TailRefusal, Refused
<1> QED
  BY <1>2 DEF CommitRefusal

(* Replacing the retained generation g by one of the same manifest and     *)
(* state touches exactly one role and keeps the record valid.              *)
LEMMA ReplaceRecord ==
    ASSUME ValidRecord(active, previous, staged), NEW g, Retained(g),
           NEW next, next # None, next.manifest = GenerationById(g).manifest,
           next.state = GenerationById(g).state, ValidGeneration(next)
    PROVE  ValidRecord(Replace(active, next), Replace(previous, next), Replace(staged, next))
<1>1. next.manifest.id = g
  BY DEF Retained, GenerationById, Present
<1>2. CASE Present(active, g)
  <2>1. /\ Replace(active, next) = next
        /\ Replace(previous, next) = previous /\ Replace(staged, next) = staged
    BY <1>1, <1>2 DEF Replace, Present, ValidRecord, DistinctRoles
  <2>2. GenerationById(g) = active
    BY <1>2 DEF GenerationById
  <2> QED
    BY <1>1, <1>2, <2>1, <2>2 DEF ValidRecord, DistinctRoles, Present
<1>3. CASE ~Present(active, g) /\ Present(previous, g)
  <2>1. /\ Replace(active, next) = active
        /\ Replace(previous, next) = next /\ Replace(staged, next) = staged
    BY <1>1, <1>3 DEF Replace, Present, ValidRecord, DistinctRoles
  <2>2. GenerationById(g) = previous
    BY <1>3 DEF GenerationById
  <2> QED
    BY <1>1, <1>3, <2>1, <2>2 DEF ValidRecord, DistinctRoles, Present
<1>4. CASE ~Present(active, g) /\ ~Present(previous, g) /\ Present(staged, g)
  <2>1. /\ Replace(active, next) = active
        /\ Replace(previous, next) = previous /\ Replace(staged, next) = next
    BY <1>1, <1>4 DEF Replace, Present, ValidRecord, DistinctRoles
  <2>2. GenerationById(g) = staged
    BY <1>4 DEF GenerationById
  <2> QED
    BY <1>1, <1>4, <2>1, <2>2 DEF ValidRecord, DistinctRoles, Present
<1> QED
  BY <1>2, <1>3, <1>4 DEF Retained

LEMMA CommitGenerationRevisionRecord ==
    ASSUME TypeOK, RecordNeverRefused, NEW c \in Commits,
           CommitGenerationRevision(c.gen, c.sha, c.target, c.tail)
    PROVE  RecordNeverRefused'
<1> DEFINE g == c.gen
           n == c.target
           gen == GenerationById(g)
           next == [gen EXCEPT !.applied = n, !.last_error = None]
           refusal == CommitRefusal(gen, c.sha, n, c.tail)
<1>c. g \in GenIds /\ n \in Nat
  BY CommitAssumption
<1>1. CASE \E r \in {"NonPortableInteger", "StateNotFound", "GenerationMismatch", "Duplicate"} :
             Return(r)
  BY <1>1, ReturnRecord
<1>2. CASE refusal # None /\ Return(refusal)
  BY <1>2, ReturnRecord, CommitRefusalRecord
<1>3. ASSUME n <= MaxSeq, Retained(g), refusal = None, NEW sm, NEW im,
             WriteBatch(Replace(active, next), Replace(previous, next),
                        Replace(staged, next), WithCheckpoint(ckpt, next), sm, im, "Applied")
      PROVE  RecordNeverRefused'
  <2>1. gen \in GenStates /\ gen \in Roles
    BY <1>3, GenerationByIdType
  <2>2. ValidGeneration(gen)
    BY <2>1 DEF Roles, RecordNeverRefused, ValidRecord
  <2>3. gen.state \in {"Ready", "Serving"} /\ ~(n < gen.applied)
    BY <1>3, NoneAssumption DEF CommitRefusal, Refused
  <2>4. n \in 0..MaxSeq
    BY <1>c, <1>3, MaxSeqAssumption
  <2>5. /\ next \in GenStates /\ next.state = gen.state /\ next.manifest = gen.manifest
        /\ next.applied = n /\ next.last_error = None
    <3>1. next = Revised(gen, n)
      BY DEF Revised
    <3> HIDE DEF gen, n, next
    <3> QED
      BY <2>1, <2>4, <3>1, RevisedType
  <2> HIDE DEF gen, n, next
  <2>6. /\ next.applied >= next.manifest.base /\ next.applied >= next.manifest.target
    BY <2>1, <2>2, <2>3, <2>4, <2>5, ManifestAssumption DEF GenStates, ValidGeneration
  <2>7. ValidGeneration(next)
    BY <2>3, <2>5, <2>6 DEF ValidGeneration
  <2>8. next # None
    BY <2>5, NoneAssumption
  <2>9. ValidRecord(Replace(active, next), Replace(previous, next), Replace(staged, next))
    BY <1>3, <2>5, <2>7, <2>8, ReplaceRecord DEF gen, RecordNeverRefused
  <2> QED
    BY <1>3, <2>9, WriteBatchRecord
<1> QED
  BY <1>1, <1>2, <1>3 DEF CommitGenerationRevision

(* A generation that becomes Serving or Ready again stays valid.           *)
LEMMA AsValid ==
    ASSUME NEW s \in GenStates, ValidGeneration(s), s.state \in {"Ready", "Serving"},
           NEW state \in {"Ready", "Serving"}
    PROVE  /\ ValidGeneration(As(s, state)) /\ As(s, state).state = state
           /\ As(s, state).manifest = s.manifest /\ As(s, state) # None
<1>1. /\ As(s, state) \in GenStates /\ As(s, state).state = state
      /\ As(s, state).manifest = s.manifest /\ As(s, state).applied = s.applied
      /\ As(s, state).last_error = None
  BY AsType DEF LocalStates
<1> QED
  BY <1>1, NoneAssumption DEF ValidGeneration

LEMMA ActivateRecord ==
    ASSUME TypeOK, RecordNeverRefused, NEW g \in GenIds, Activate(g)
    PROVE  RecordNeverRefused'
<1>1. CASE Return(StagedRefusal(g))
  BY <1>1, ReturnRecord, StagedRefusalRecord
<1>2. CASE \E r \in {"Ok", "InvalidTransition"} : Return(r)
  BY <1>2, ReturnRecord
<1>3. CASE Present(staged, g) /\ staged.state = "Ready"
  <2> DEFINE next == As(staged, "Serving")
             former == As(active, "Ready")
  <2>0. staged # None /\ staged \in GenStates /\ ValidGeneration(staged)
    BY <1>3 DEF TypeOK, Present, RecordNeverRefused, ValidRecord
  <2>1. /\ ValidGeneration(next) /\ next.state = "Serving"
        /\ next.manifest = staged.manifest /\ next # None
    BY <1>3, <2>0, AsValid
  <2>2. ASSUME active = None, NEW c,
               WriteBatch(next, previous, None, c, seqMark, idMark, "Ok")
        PROVE  RecordNeverRefused'
    <3> HIDE DEF next
    <3>1. previous = None
      BY <2>2 DEF RecordNeverRefused, ValidRecord
    <3>2. ValidRecord(next, previous, None)
      BY <2>1, <3>1 DEF ValidRecord, DistinctRoles
    <3> QED
      BY <2>2, <3>2, WriteBatchRecord
  <2>3. ASSUME active # None, NEW c,
               WriteBatch(next, former, None, c, seqMark, idMark, "Ok")
        PROVE  RecordNeverRefused'
    <3>1. active \in GenStates /\ ValidGeneration(active) /\ active.state = "Serving"
      BY <2>3 DEF TypeOK, RecordNeverRefused, ValidRecord
    <3>2. /\ ValidGeneration(former) /\ former.state = "Ready"
          /\ former.manifest = active.manifest /\ former # None
      BY <3>1, AsValid
    <3>3. active.manifest.id # staged.manifest.id
      BY <2>0, <2>3 DEF RecordNeverRefused, ValidRecord, DistinctRoles
    <3> HIDE DEF next, former
    <3>4. ValidRecord(next, former, None)
      BY <2>1, <3>2, <3>3 DEF ValidRecord, DistinctRoles
    <3> QED
      BY <2>3, <3>4, WriteBatchRecord
  <2> QED
    BY <1>1, <1>2, <2>2, <2>3 DEF Activate
<1> QED
  BY <1>1, <1>2, <1>3 DEF Activate

LEMMA RollbackRecord ==
    ASSUME TypeOK, RecordNeverRefused, NEW g \in GenIds, Rollback(g)
    PROVE  RecordNeverRefused'
<1>1. CASE \E r \in {"Ok", "StateNotFound", "InvalidTransition", "GenerationMismatch"} :
             Return(r)
  BY <1>1, ReturnRecord
<1>2. CASE Present(previous, g)
  <2> DEFINE target == As(previous, "Serving")
             former == As(active, "Ready")
  <2>1. /\ previous # None /\ active # None
        /\ previous \in GenStates /\ ValidGeneration(previous) /\ previous.state = "Ready"
        /\ active \in GenStates /\ ValidGeneration(active) /\ active.state = "Serving"
    BY <1>2 DEF TypeOK, Present, RecordNeverRefused, ValidRecord
  <2>2. /\ ValidGeneration(target) /\ target.state = "Serving"
        /\ target.manifest = previous.manifest /\ target # None
    BY <2>1, AsValid
  <2>3. /\ ValidGeneration(former) /\ former.state = "Ready"
        /\ former.manifest = active.manifest /\ former # None
    BY <2>1, AsValid
  <2>4. ASSUME NEW c, WriteBatch(target, former, staged, c, seqMark, idMark, "Ok")
        PROVE  RecordNeverRefused'
    <3> HIDE DEF target, former
    <3>1. ValidRecord(target, former, staged)
      BY <2>1, <2>2, <2>3 DEF RecordNeverRefused, ValidRecord, DistinctRoles
    <3> QED
      BY <2>4, <3>1, WriteBatchRecord
  <2> QED
    BY <1>1, <2>1, <2>4 DEF Rollback
<1> QED
  BY <1>1, <1>2 DEF Rollback

LEMMA NextRecord == TypeOK /\ RecordNeverRefused /\ [Next]_vars => RecordNeverRefused'
<1> SUFFICES ASSUME TypeOK, RecordNeverRefused, [Next]_vars PROVE RecordNeverRefused'
  OBVIOUS
<1>1. ASSUME NEW m \in Manifests, StageGeneration(m) PROVE RecordNeverRefused'
  BY <1>1, StageGenerationRecord
<1>2. ASSUME NEW g \in GenIds, MarkBundleLoaded(g) PROVE RecordNeverRefused'
  BY <1>2, MarkBundleLoadedRecord
<1>3. ASSUME NEW m \in Mutations, ApplyMutation(m) PROVE RecordNeverRefused'
  BY <1>3, ApplyMutationRecord
<1>4. ASSUME NEW m \in Mutations, VerifyAppliedMutation(m) PROVE RecordNeverRefused'
  BY <1>4, VerifyAppliedMutationRecord
<1>5. ASSUME NEW c \in Commits, CommitGenerationRevision(c.gen, c.sha, c.target, c.tail)
      PROVE  RecordNeverRefused'
  BY <1>5, CommitGenerationRevisionRecord
<1>6. ASSUME NEW g \in GenIds, MarkReady(g) PROVE RecordNeverRefused'
  BY <1>6, MarkReadyRecord
<1>7. ASSUME NEW g \in GenIds, Activate(g) PROVE RecordNeverRefused'
  BY <1>7, ActivateRecord
<1>8. ASSUME NEW g \in GenIds, Rollback(g) PROVE RecordNeverRefused'
  BY <1>8, RollbackRecord
<1>9. ASSUME NEW g \in GenIds, NEW f \in Failures \cup {BadFailure}, FailStaged(g, f)
      PROVE  RecordNeverRefused'
  BY <1>9, FailStagedRecord
<1>10. CASE UNCHANGED vars
  BY <1>10 DEF RecordNeverRefused, ValidRecord, vars
<1> QED
  BY <1>1, <1>2, <1>3, <1>4, <1>5, <1>6, <1>7, <1>8, <1>9, <1>10 DEF Next

(* No sequence of calls makes validate_record refuse what an operation     *)
(* built, so its check before every batch never fires.                     *)
THEOREM RecordAlwaysAccepted == Spec => []RecordNeverRefused
<1>1. Init => RecordNeverRefused
  BY DEF Init, RecordNeverRefused, ValidRecord, DistinctRoles
<1> QED
  BY <1>1, NextRecord, TypeCorrect, PTL DEF Spec

-----------------------------------------------------------------------------
(* Applied history.  Markers are only ever put where there was none.       *)

HistoryStep ==
    \A g \in GenIds :
        /\ \A n \in 1..MaxSeq : seqMark[g][n] # None => seqMark'[g][n] = seqMark[g][n]
        /\ \A id \in MutIds : idMark[g][id] # None => idMark'[g][id] = idMark[g][id]

(* A marker table that keeps every marker of the one before.               *)
SeqKept(sm) == \A g \in GenIds : \A n \in 1..MaxSeq :
                  seqMark[g][n] # None => sm[g][n] = seqMark[g][n]
IdKept(im) == \A g \in GenIds : \A id \in MutIds :
                  idMark[g][id] # None => im[g][id] = idMark[g][id]

LEMMA ReturnHistory ==
    ASSUME NEW r, Return(r) PROVE HistoryStep
BY DEF Return, durable, HistoryStep

LEMMA WriteBatchHistory ==
    ASSUME NEW a, NEW p, NEW s, NEW c, NEW sm, NEW im, NEW r,
           SeqKept(sm), IdKept(im), WriteBatch(a, p, s, c, sm, im, r)
    PROVE  HistoryStep
<1>1. CASE \E x \in {"CorruptRecord", "Storage"} : Return(x)
  BY <1>1, ReturnHistory
<1>2. CASE seqMark' = sm /\ idMark' = im
  BY <1>2 DEF HistoryStep, SeqKept, IdKept
<1> QED
  BY <1>1, <1>2 DEF WriteBatch

(* Operations that hand the marker tables through unchanged.               *)
LEMMA SameMarkersHistory ==
    ASSUME NEW a, NEW p, NEW s, NEW c, NEW r,
           WriteBatch(a, p, s, c, seqMark, idMark, r)
    PROVE  HistoryStep
<1>1. SeqKept(seqMark) /\ IdKept(idMark)
  BY DEF SeqKept, IdKept
<1> QED
  BY <1>1, WriteBatchHistory

LEMMA ApplyMutationHistory ==
    ASSUME TypeOK, NEW m \in Mutations, ApplyMutation(m) PROVE HistoryStep
<1>m. m.gen \in GenIds /\ m.id \in MutIds /\ m.seq \in 1..MaxSeq
  BY MutationAssumption
<1>1. CASE \E r : Return(r)
  BY <1>1, ReturnHistory
<1>2. ASSUME seqMark[m.gen][m.seq] = None, idMark[m.gen][m.id] = None, NEW s, NEW c,
             WriteBatch(active, previous, s, c,
                        [seqMark EXCEPT ![m.gen][m.seq] = MarkerFor(m)],
                        [idMark EXCEPT ![m.gen][m.id] = MarkerFor(m)], "Applied")
      PROVE  HistoryStep
  <2>1. SeqKept([seqMark EXCEPT ![m.gen][m.seq] = MarkerFor(m)])
    BY <1>m, <1>2 DEF TypeOK, SeqKept
  <2>2. IdKept([idMark EXCEPT ![m.gen][m.id] = MarkerFor(m)])
    BY <1>m, <1>2 DEF TypeOK, IdKept
  <2> QED
    BY <1>2, <2>1, <2>2, WriteBatchHistory
<1> QED
  BY <1>1, <1>2 DEF ApplyMutation

LEMMA CommitGenerationRevisionHistory ==
    ASSUME TypeOK, NEW c \in Commits,
           CommitGenerationRevision(c.gen, c.sha, c.target, c.tail)
    PROVE  HistoryStep
<1>c. c.gen \in GenIds
  BY CommitAssumption
<1>1. CASE \E r : Return(r)
  BY <1>1, ReturnHistory
<1>2. ASSUME NEW a, NEW p, NEW s, NEW k,
             WriteBatch(a, p, s, k,
                        [seqMark EXCEPT ![c.gen] = SeqMarkersWith(c.gen, c.tail)],
                        [idMark EXCEPT ![c.gen] = IdMarkersWith(c.gen, c.tail)], "Applied")
      PROVE  HistoryStep
  <2>1. \A n \in 1..MaxSeq : seqMark[c.gen][n] # None
            => SeqMarkersWith(c.gen, c.tail)[n] = seqMark[c.gen][n]
    BY DEF SeqMarkersWith
  <2>2. \A id \in MutIds : idMark[c.gen][id] # None
            => IdMarkersWith(c.gen, c.tail)[id] = idMark[c.gen][id]
    BY DEF IdMarkersWith
  <2>3. SeqKept([seqMark EXCEPT ![c.gen] = SeqMarkersWith(c.gen, c.tail)])
    BY <1>c, <2>1 DEF TypeOK, SeqKept
  <2>4. IdKept([idMark EXCEPT ![c.gen] = IdMarkersWith(c.gen, c.tail)])
    BY <1>c, <2>2 DEF TypeOK, IdKept
  <2> QED
    BY <1>2, <2>3, <2>4, WriteBatchHistory
<1> QED
  BY <1>1, <1>2 DEF CommitGenerationRevision

LEMMA NextHistory == TypeOK /\ [Next]_vars => [HistoryStep]_vars
<1> SUFFICES ASSUME TypeOK, Next PROVE HistoryStep
  OBVIOUS
<1>1. ASSUME NEW m \in Manifests, StageGeneration(m) PROVE HistoryStep
  BY <1>1, ReturnHistory, SameMarkersHistory DEF StageGeneration
<1>2. ASSUME NEW g \in GenIds, MarkBundleLoaded(g) PROVE HistoryStep
  BY <1>2, ReturnHistory, SameMarkersHistory DEF MarkBundleLoaded, PersistStaged
<1>3. ASSUME NEW m \in Mutations, ApplyMutation(m) PROVE HistoryStep
  BY <1>3, ApplyMutationHistory
<1>4. ASSUME NEW m \in Mutations, VerifyAppliedMutation(m) PROVE HistoryStep
  BY <1>4, ReturnHistory DEF VerifyAppliedMutation
<1>5. ASSUME NEW c \in Commits, CommitGenerationRevision(c.gen, c.sha, c.target, c.tail)
      PROVE  HistoryStep
  BY <1>5, CommitGenerationRevisionHistory
<1>6. ASSUME NEW g \in GenIds, MarkReady(g) PROVE HistoryStep
  BY <1>6, ReturnHistory, SameMarkersHistory DEF MarkReady, PersistStaged
<1>7. ASSUME NEW g \in GenIds, Activate(g) PROVE HistoryStep
  BY <1>7, ReturnHistory, SameMarkersHistory DEF Activate
<1>8. ASSUME NEW g \in GenIds, Rollback(g) PROVE HistoryStep
  BY <1>8, ReturnHistory, SameMarkersHistory DEF Rollback
<1>9. ASSUME NEW g \in GenIds, NEW f \in Failures \cup {BadFailure}, FailStaged(g, f)
      PROVE  HistoryStep
  BY <1>9, ReturnHistory, SameMarkersHistory DEF FailStaged, PersistStaged
<1> QED
  BY <1>1, <1>2, <1>3, <1>4, <1>5, <1>6, <1>7, <1>8, <1>9 DEF Next

(* A mutation marker, once written, is never rewritten or removed, by any  *)
(* operation on any generation.                                            *)
THEOREM HistoryNeverRewritten == Spec => HistoryKept
BY TypeCorrect, NextHistory, PTL DEF Spec, HistoryKept, HistoryStep

-----------------------------------------------------------------------------
(* The record, the checkpoints and the mutation markers tell one story.    *)
(* The parts of RecordSound are one inductive invariant: AppliedIsMarked   *)
(* needs the record to be valid (a generation that takes a revision has    *)
(* applied its bundle), MarkersPaired needs that no tail repeats an        *)
(* identity, CheckpointsTruthful needs the roles to be distinct.           *)

(* The parts by role and table, so that a step names what it changes.      *)
Paired(sm, im) ==
    \A g \in GenIds :
        /\ \A n \in 1..MaxSeq : sm[g][n] # None =>
              sm[g][n].seq = n /\ im[g][sm[g][n].id] = sm[g][n]
        /\ \A id \in MutIds : im[g][id] # None =>
              im[g][id].id = id /\ sm[g][im[g][id].seq] = im[g][id]
RoleMarked(r, sm) ==
    r # None => \A n \in (r.manifest.base + 1)..r.applied : sm[r.manifest.id][n] # None
RoleTruthful(r, c) ==
    r # None /\ r.state # "Staged" => c[r.manifest.id] = CheckpointFor(r)
OneServing(a, c) == \A g \in GenIds : c[g] # None /\ c[g].state = "Serving" => Present(a, g)

Story(a, p, s, c, sm, im) ==
    /\ Paired(sm, im)
    /\ RoleMarked(a, sm) /\ RoleMarked(p, sm) /\ RoleMarked(s, sm)
    /\ RoleTruthful(a, c) /\ RoleTruthful(p, c) /\ RoleTruthful(s, c)
    /\ OneServing(a, c)
Told == Story(active, previous, staged, ckpt, seqMark, idMark)

(* The story is what the properties say.                                   *)
LEMMA ToldIsSound ==
    ASSUME TypeOK, RecordNeverRefused, Told PROVE RecordSound
<1>1. MarkersPaired
  BY DEF Told, Story, Paired, MarkersPaired
<1>2. AppliedIsMarked
  BY DEF Told, Story, RoleMarked, AppliedIsMarked, Roles
<1>3. CheckpointsTruthful
  BY DEF Told, Story, RoleTruthful, OneServing, CheckpointsTruthful, Roles
<1> QED
  BY <1>1, <1>2, <1>3 DEF RecordSound

(* An operation ends without a write or with its batch.                    *)
LEMMA ReturnTold == ASSUME Told, NEW r, Return(r) PROVE Told'
BY DEF Return, durable, Told

LEMMA WriteBatchTold ==
    ASSUME Told, NEW a, NEW p, NEW s, NEW c, NEW sm, NEW im, NEW r,
           Story(a, p, s, c, sm, im), WriteBatch(a, p, s, c, sm, im, r)
    PROVE  Told'
<1>1. CASE \E x \in {"CorruptRecord", "Storage"} : Return(x)
  BY <1>1, ReturnTold
<1>2. CASE active' = a /\ previous' = p /\ staged' = s /\ ckpt' = c /\ seqMark' = sm /\ idMark' = im
  BY <1>2 DEF Told
<1> QED
  BY <1>1, <1>2 DEF WriteBatch

(* What a checkpoint table says after one generation's was written.        *)
LEMMA CheckpointAt ==
    ASSUME NEW c \in CkptType, NEW s \in GenStates, NEW g \in GenIds
    PROVE  /\ s.manifest.id \in GenIds
           /\ WithCheckpoint(c, s)[g] = IF g = s.manifest.id THEN CheckpointFor(s) ELSE c[g]
<1>1. s.manifest.id \in GenIds
  BY ManifestAssumption DEF GenStates
<1> QED
  BY <1>1 DEF WithCheckpoint, CkptType

LEMMA StageGenerationTold ==
    ASSUME TypeOK, Told, NEW m \in Manifests, StageGeneration(m) PROVE Told'
<1> DEFINE new == [manifest |-> m, applied |-> m.base, state |-> "Staged", last_error |-> None]
<1>1. CASE \E r : Return(r)
  BY <1>1, ReturnTold
<1>2. CASE WriteBatch(active, previous, new, ckpt, seqMark, idMark, "Staged")
  <2>1. RoleMarked(new, seqMark)
    BY ManifestAssumption, MaxSeqAssumption DEF RoleMarked
  <2>2. RoleTruthful(new, ckpt)
    BY DEF RoleTruthful
  <2>3. Story(active, previous, new, ckpt, seqMark, idMark)
    BY <2>1, <2>2 DEF Told, Story
  <2> QED
    BY <1>2, <2>3, WriteBatchTold
<1> QED
  BY <1>1, <1>2 DEF StageGeneration

(* A staged generation that changes its state keeps its markers; its       *)
(* checkpoint follows, and the other roles have other generations.         *)
LEMMA PersistStagedTold ==
    ASSUME TypeOK, RecordNeverRefused, Told, staged # None, NEW s \in GenStates,
           s.manifest = staged.manifest, s.applied = staged.applied,
           s.state # "Serving", PersistStaged(s)
    PROVE  Told'
<1> DEFINE c == WithCheckpoint(ckpt, s)
<1>0. ckpt \in CkptType /\ active \in OptionalGen /\ previous \in OptionalGen
  BY DEF TypeOK, CkptType, OptionalGen
<1>1. \A g \in GenIds : c[g] = IF g = s.manifest.id THEN CheckpointFor(s) ELSE ckpt[g]
  BY <1>0, CheckpointAt
<1>2. /\ active # None => active.manifest.id \in GenIds /\ active.manifest.id # s.manifest.id
      /\ previous # None => previous.manifest.id \in GenIds /\ previous.manifest.id # s.manifest.id
  BY <1>0, ManifestAssumption DEF OptionalGen, GenStates, RecordNeverRefused, ValidRecord, DistinctRoles
<1>3. s.manifest.id \in GenIds
  BY ManifestAssumption DEF GenStates
<1> HIDE DEF c
<1>4. RoleTruthful(active, c) /\ RoleTruthful(previous, c) /\ RoleTruthful(s, c)
  BY <1>1, <1>2, <1>3 DEF Told, Story, RoleTruthful
<1>5. OneServing(active, c)
  BY <1>1, <1>3 DEF Told, Story, OneServing, CheckpointFor
<1>6. RoleMarked(s, seqMark)
  BY NoneAssumption DEF Told, Story, RoleMarked
<1>7. Story(active, previous, s, c, seqMark, idMark)
  BY <1>4, <1>5, <1>6 DEF Told, Story
<1> QED
  BY <1>7, WriteBatchTold DEF PersistStaged, c

LEMMA MarkBundleLoadedTold ==
    ASSUME TypeOK, RecordNeverRefused, Told, NEW g \in GenIds, MarkBundleLoaded(g) PROVE Told'
<1>1. CASE \E r : Return(r)
  BY <1>1, ReturnTold
<1>2. CASE Present(staged, g) /\ PersistStaged([staged EXCEPT !.state = "CatchingUp"])
  <2>1. staged \in GenStates /\ staged # None
    BY <1>2 DEF TypeOK, Present
  <2> DEFINE s == [staged EXCEPT !.state = "CatchingUp"]
  <2>2. s \in GenStates /\ s.manifest = staged.manifest /\ s.applied = staged.applied /\ s.state = "CatchingUp"
    BY <2>1 DEF GenStates, LocalStates
  <2> QED
    BY <1>2, <2>1, <2>2, PersistStagedTold
<1> QED
  BY <1>1, <1>2 DEF MarkBundleLoaded

LEMMA MarkReadyTold ==
    ASSUME TypeOK, RecordNeverRefused, Told, NEW g \in GenIds, MarkReady(g) PROVE Told'
<1>1. CASE \E r : Return(r)
  BY <1>1, ReturnTold
<1>2. CASE Present(staged, g) /\ PersistStaged([staged EXCEPT !.state = "Ready"])
  <2>1. staged \in GenStates /\ staged # None
    BY <1>2 DEF TypeOK, Present
  <2> DEFINE s == [staged EXCEPT !.state = "Ready"]
  <2>2. s \in GenStates /\ s.manifest = staged.manifest /\ s.applied = staged.applied /\ s.state = "Ready"
    BY <2>1 DEF GenStates, LocalStates
  <2> QED
    BY <1>2, <2>1, <2>2, PersistStagedTold
<1> QED
  BY <1>1, <1>2 DEF MarkReady

LEMMA FailStagedTold ==
    ASSUME TypeOK, RecordNeverRefused, Told, NEW g \in GenIds, NEW f, FailStaged(g, f) PROVE Told'
<1>1. CASE \E r : Return(r)
  BY <1>1, ReturnTold
<1>2. CASE f \in Failures /\ Present(staged, g)
           /\ PersistStaged([staged EXCEPT !.state = "Failed", !.last_error = f])
  <2>1. staged \in GenStates /\ staged # None
    BY <1>2 DEF TypeOK, Present
  <2> DEFINE s == [staged EXCEPT !.state = "Failed", !.last_error = f]
  <2>2. s \in GenStates /\ s.manifest = staged.manifest /\ s.applied = staged.applied /\ s.state = "Failed"
    BY <1>2, <2>1 DEF GenStates, LocalStates
  <2> QED
    BY <1>2, <2>1, <2>2, PersistStagedTold
<1> QED
  BY <1>1, <1>2 DEF FailStaged

-----------------------------------------------------------------------------
(* Mutations: a batch writes the two markers of a mutation together.       *)

LEMMA ApplyMutationTold ==
    ASSUME TypeOK, RecordNeverRefused, Told, NEW m \in Mutations, ApplyMutation(m) PROVE Told'
<1>m. m.gen \in GenIds /\ m.id \in MutIds /\ m.seq \in 1..MaxSeq /\ m.sha \in Shas
  BY MutationAssumption
<1>1. CASE \E r : Return(r)
  BY <1>1, ReturnTold
<1>2. ASSUME seqMark[m.gen][m.seq] = None, idMark[m.gen][m.id] = None, ReplayRefusal(m) = None,
             WriteBatch(active, previous, [staged EXCEPT !.applied = m.seq],
                        WithCheckpoint(ckpt, [staged EXCEPT !.applied = m.seq]),
                        [seqMark EXCEPT ![m.gen][m.seq] = MarkerFor(m)],
                        [idMark EXCEPT ![m.gen][m.id] = MarkerFor(m)], "Applied")
      PROVE  Told'
  <2> DEFINE next == [staged EXCEPT !.applied = m.seq]
             c == WithCheckpoint(ckpt, next)
             sm == [seqMark EXCEPT ![m.gen][m.seq] = MarkerFor(m)]
             im == [idMark EXCEPT ![m.gen][m.id] = MarkerFor(m)]
  <2>1. /\ staged \in GenStates /\ staged # None /\ staged.manifest.id = m.gen
        /\ staged.state = "CatchingUp" /\ m.seq = staged.applied + 1
    BY <1>2, StagedRefusalNotNone, NoneAssumption DEF TypeOK, ReplayRefusal, Present, Refused
  <2>2. /\ next \in GenStates /\ next.manifest = staged.manifest /\ next.applied = m.seq
        /\ next.state = "CatchingUp" /\ next # None
    BY <1>m, <2>1, MaxSeqAssumption, NoneAssumption DEF GenStates
  <2>3. MarkerFor(m) \in Markers /\ MarkerFor(m) # None /\ MarkerFor(m).id = m.id
        /\ MarkerFor(m).seq = m.seq
    BY <1>m, NoneAssumption DEF MarkerFor, Markers
  <2>4. \A g \in GenIds : \A k \in 1..MaxSeq :
           sm[g][k] = IF g = m.gen /\ k = m.seq THEN MarkerFor(m) ELSE seqMark[g][k]
    BY <1>m DEF TypeOK
  <2>5. \A g \in GenIds : \A id \in MutIds :
           im[g][id] = IF g = m.gen /\ id = m.id THEN MarkerFor(m) ELSE idMark[g][id]
    BY <1>m DEF TypeOK
  <2>t. /\ \A g \in GenIds : \A k \in 1..MaxSeq : seqMark[g][k] \in Markers \cup {None}
        /\ \A g \in GenIds : \A id \in MutIds : idMark[g][id] \in Markers \cup {None}
    BY DEF TypeOK
  <2>0. ckpt \in CkptType /\ active \in OptionalGen /\ previous \in OptionalGen
    BY DEF TypeOK, CkptType, OptionalGen
  <2>6. \A g \in GenIds : c[g] = IF g = m.gen THEN CheckpointFor(next) ELSE ckpt[g]
    <3>1. next.manifest.id = m.gen
      BY <2>1, <2>2
    <3> HIDE DEF next
    <3> QED
      BY <2>0, <2>2, <3>1, CheckpointAt
  <2>7. /\ active # None => active \in GenStates /\ active.manifest.id \in GenIds
                            /\ active.manifest.id # m.gen
        /\ previous # None => previous \in GenStates /\ previous.manifest.id \in GenIds
                              /\ previous.manifest.id # m.gen
    BY <2>0, <2>1, ManifestAssumption
       DEF OptionalGen, GenStates, RecordNeverRefused, ValidRecord, DistinctRoles
  <2> HIDE DEF next, c, sm, im
  <2>8. Paired(sm, im)
    <3> SUFFICES ASSUME NEW g \in GenIds
                 PROVE  /\ \A n \in 1..MaxSeq : sm[g][n] # None =>
                              sm[g][n].seq = n /\ im[g][sm[g][n].id] = sm[g][n]
                        /\ \A id \in MutIds : im[g][id] # None =>
                              im[g][id].id = id /\ sm[g][im[g][id].seq] = im[g][id]
      BY DEF Paired
    <3>p. /\ \A n \in 1..MaxSeq : seqMark[g][n] # None =>
                seqMark[g][n].seq = n /\ idMark[g][seqMark[g][n].id] = seqMark[g][n]
          /\ \A id \in MutIds : idMark[g][id] # None =>
                idMark[g][id].id = id /\ seqMark[g][idMark[g][id].seq] = idMark[g][id]
      BY DEF Told, Story, Paired
    <3>1. ASSUME NEW n \in 1..MaxSeq, sm[g][n] # None
          PROVE  sm[g][n].seq = n /\ im[g][sm[g][n].id] = sm[g][n]
      <4>1. CASE g = m.gen /\ n = m.seq
        BY <1>m, <4>1, <2>3, <2>4, <2>5
      <4>2. CASE ~(g = m.gen /\ n = m.seq)
        <5>1. sm[g][n] = seqMark[g][n] /\ seqMark[g][n] \in Markers
          BY <3>1, <4>2, <2>4, <2>t
        <5>2. seqMark[g][n].id \in MutIds /\ idMark[g][seqMark[g][n].id] = seqMark[g][n]
          BY <3>p, <3>1, <5>1 DEF Markers
        <5>3. ~(g = m.gen /\ seqMark[g][n].id = m.id)
          BY <1>2, <3>1, <5>1, <5>2
        <5> QED
          BY <2>5, <3>p, <3>1, <5>1, <5>2, <5>3
      <4> QED
        BY <4>1, <4>2
    <3>2. ASSUME NEW id \in MutIds, im[g][id] # None
          PROVE  im[g][id].id = id /\ sm[g][im[g][id].seq] = im[g][id]
      <4>1. CASE g = m.gen /\ id = m.id
        BY <1>m, <4>1, <2>3, <2>4, <2>5
      <4>2. CASE ~(g = m.gen /\ id = m.id)
        <5>1. im[g][id] = idMark[g][id] /\ idMark[g][id] \in Markers
          BY <3>2, <4>2, <2>5, <2>t
        <5>2. idMark[g][id].seq \in 1..MaxSeq /\ seqMark[g][idMark[g][id].seq] = idMark[g][id]
          BY <3>p, <3>2, <5>1 DEF Markers
        <5>3. ~(g = m.gen /\ idMark[g][id].seq = m.seq)
          BY <1>2, <3>2, <5>1, <5>2
        <5> QED
          BY <2>4, <3>p, <3>2, <5>1, <5>2, <5>3
      <4> QED
        BY <4>1, <4>2
    <3> QED
      BY <3>1, <3>2
  <2>9. RoleMarked(active, sm) /\ RoleMarked(previous, sm)
    <3>1. ASSUME NEW r \in GenStates, r.manifest.id # m.gen, RoleMarked(r, seqMark)
          PROVE  RoleMarked(r, sm)
      <4>1. r.manifest.id \in GenIds /\ r.manifest.base \in Nat /\ r.applied \in 0..MaxSeq
        BY <3>1, ManifestAssumption DEF GenStates
      <4>2. \A n \in (r.manifest.base + 1)..r.applied : n \in 1..MaxSeq
        BY <4>1, MaxSeqAssumption
      <4> QED
        BY <2>4, <3>1, <4>1, <4>2 DEF RoleMarked
    <3> QED
      BY <2>7, <3>1 DEF Told, Story, RoleMarked
  <2>10. RoleMarked(next, sm)
    <3>1. /\ staged.manifest.base \in Nat /\ staged.applied \in 0..MaxSeq
      BY <2>1, ManifestAssumption DEF GenStates
    <3>2. ASSUME NEW n \in (next.manifest.base + 1)..next.applied
          PROVE  sm[next.manifest.id][n] # None
      <4>1. n \in 1..MaxSeq
        BY <1>m, <2>2, <3>1, <3>2, MaxSeqAssumption
      <4>2. CASE n = m.seq
        BY <1>m, <2>1, <2>2, <2>3, <2>4, <4>2
      <4>3. CASE n # m.seq
        <5>1. n \in (staged.manifest.base + 1)..staged.applied
          BY <1>m, <2>1, <2>2, <3>1, <3>2, <4>3, MaxSeqAssumption
        <5>2. seqMark[m.gen][n] # None
          BY <2>1, <5>1 DEF Told, Story, RoleMarked
        <5> QED
          BY <1>m, <2>1, <2>2, <2>4, <4>1, <4>3, <5>2
      <4> QED
        BY <4>2, <4>3
    <3> QED
      BY <3>2 DEF RoleMarked
  <2>11. RoleTruthful(active, c) /\ RoleTruthful(previous, c) /\ RoleTruthful(next, c)
    BY <1>m, <2>1, <2>2, <2>6, <2>7 DEF Told, Story, RoleTruthful
  <2>12. OneServing(active, c)
    BY <2>2, <2>6 DEF Told, Story, OneServing, CheckpointFor
  <2>13. Story(active, previous, next, c, sm, im)
    BY <2>8, <2>9, <2>10, <2>11, <2>12 DEF Story
  <2> QED
    BY <1>2, <2>13, WriteBatchTold DEF next, c, sm, im
<1> QED
  BY <1>1, <1>2 DEF ApplyMutation

(* What an accepted commit has checked of every position of its tail.      *)
LEMMA CommitAccepted ==
    ASSUME NEW gen, NEW sha, NEW n, NEW t, CommitRefusal(gen, sha, n, t) = None
    PROVE  /\ gen.state \in {"Ready", "Serving"} /\ ~(n < gen.applied) /\ ~(n <= gen.manifest.target)
           /\ Len(t) = n - gen.manifest.target
           /\ \A i \in 1..Len(t) : MutationRefusal(gen, i, t[i]) = None
<1>1. /\ gen.state \in {"Ready", "Serving"} /\ ~(n < gen.applied) /\ ~(n <= gen.manifest.target)
      /\ Len(t) = n - gen.manifest.target /\ TailRefusal(gen, t) = None
  BY NoneAssumption DEF CommitRefusal, Refused
<1>2. ASSUME NEW i \in 1..Len(t), MutationRefusal(gen, i, t[i]) # None PROVE FALSE
  <2> DEFINE bad == {j \in 1..Len(t) : MutationRefusal(gen, j, t[j]) # None}
  <2>1. bad # {}
    BY <1>2
  <2>2. bad \subseteq Nat
    OBVIOUS
  <2>3. \E j \in bad : \A k \in bad : j <= k
    BY <2>1, <2>2, LeastExists
  <2> DEFINE j == CHOOSE j \in bad : \A k \in bad : j <= k
  <2>4. j \in bad
    BY <2>3
  <2>5. TailRefusal(gen, t) = MutationRefusal(gen, j, t[j])
    BY <2>1 DEF TailRefusal
  <2> QED
    BY <1>1, <2>4, <2>5
<1> QED
  BY <1>1, <1>2

LEMMA MutationAccepted ==
    ASSUME NEW gen, NEW i, NEW m, MutationRefusal(gen, i, m) = None
    PROVE  /\ m.gen = gen.manifest.id /\ m.seq = gen.manifest.target + i
           /\ \/ /\ seqMark[m.gen][m.seq] # None /\ idMark[m.gen][m.id] # None
                 /\ seqMark[m.gen][m.seq] = idMark[m.gen][m.id]
                 /\ seqMark[m.gen][m.seq].id = m.id
              \/ seqMark[m.gen][m.seq] = None /\ idMark[m.gen][m.id] = None
BY NoneAssumption DEF MutationRefusal, Refused

(* The marker tables a commit writes: markers that were there stay, and    *)
(* every mutation of an accepted tail has both of its own or none before.  *)
LEMMA TailMarkers ==
    ASSUME TypeOK, NEW c \in Commits, NEW T \in Nat,
           \A i \in 1..Len(c.tail) : c.tail[i].seq = T + i
    PROVE  /\ \A k \in 1..MaxSeq : seqMark[c.gen][k] # None =>
                 SeqMarkersWith(c.gen, c.tail)[k] = seqMark[c.gen][k]
           /\ \A id \in MutIds : idMark[c.gen][id] # None =>
                 IdMarkersWith(c.gen, c.tail)[id] = idMark[c.gen][id]
           /\ \A i \in 1..Len(c.tail) : seqMark[c.gen][c.tail[i].seq] = None =>
                 SeqMarkersWith(c.gen, c.tail)[c.tail[i].seq] = MarkerFor(c.tail[i])
           /\ \A i \in 1..Len(c.tail) : idMark[c.gen][c.tail[i].id] = None =>
                 IdMarkersWith(c.gen, c.tail)[c.tail[i].id] = MarkerFor(c.tail[i])
           /\ \A k \in 1..MaxSeq : SeqMarkersWith(c.gen, c.tail)[k] # seqMark[c.gen][k] =>
                 \E i \in 1..Len(c.tail) : c.tail[i].seq = k /\ seqMark[c.gen][k] = None
           /\ \A id \in MutIds : IdMarkersWith(c.gen, c.tail)[id] # idMark[c.gen][id] =>
                 \E i \in 1..Len(c.tail) : c.tail[i].id = id /\ idMark[c.gen][id] = None
<1> DEFINE t == c.tail
           g == c.gen
<1>1. t \in Seq(Mutations) /\ Len(t) \in Nat
  BY CommitAssumption
<1>2. \A i \in 1..Len(t) : t[i].seq \in 1..MaxSeq /\ t[i].id \in MutIds
  BY <1>1, MutationAssumption
<1>3. \A k \in 1..MaxSeq : SeqMarkersWith(g, t)[k] =
         IF seqMark[g][k] = None /\ \E i \in 1..Len(t) : t[i].seq = k
         THEN MarkerFor(t[CHOOSE i \in 1..Len(t) : t[i].seq = k])
         ELSE seqMark[g][k]
  BY DEF SeqMarkersWith
<1>4. \A id \in MutIds : IdMarkersWith(g, t)[id] =
         IF idMark[g][id] = None /\ \E i \in 1..Len(t) : t[i].id = id
         THEN MarkerFor(t[LastWith(t, id)])
         ELSE idMark[g][id]
  BY DEF IdMarkersWith
<1>5. ASSUME NEW i \in 1..Len(t)
      PROVE  (CHOOSE j \in 1..Len(t) : t[j].seq = t[i].seq) = i
  <2> DEFINE j == CHOOSE j \in 1..Len(t) : t[j].seq = t[i].seq
  <2>1. j \in 1..Len(t) /\ t[j].seq = t[i].seq
    OBVIOUS
  <2> HIDE DEF j
  <2>2. T + j = T + i
    BY <2>1
  <2> QED
    BY <1>1, <2>1, <2>2 DEF j
<1>6. ASSUME NEW i \in 1..Len(t)
      PROVE  LastWith(t, t[i].id) = i
  <2>1. LastWith(t, t[i].id) \in 1..Len(t) /\ t[LastWith(t, t[i].id)].id = t[i].id
    BY <1>1, LastWithExists
  <2> QED
    BY <2>1, TailAssumption
<1> HIDE DEF t, g
<1>7. \A i \in 1..Len(t) : seqMark[g][t[i].seq] = None => SeqMarkersWith(g, t)[t[i].seq] = MarkerFor(t[i])
  BY <1>2, <1>3, <1>5
<1>8. \A i \in 1..Len(t) : idMark[g][t[i].id] = None => IdMarkersWith(g, t)[t[i].id] = MarkerFor(t[i])
  BY <1>2, <1>4, <1>6
<1>9. /\ \A k \in 1..MaxSeq : seqMark[g][k] # None => SeqMarkersWith(g, t)[k] = seqMark[g][k]
      /\ \A k \in 1..MaxSeq : SeqMarkersWith(g, t)[k] # seqMark[g][k] =>
            \E i \in 1..Len(t) : t[i].seq = k /\ seqMark[g][k] = None
  BY <1>3
<1>10. /\ \A id \in MutIds : idMark[g][id] # None => IdMarkersWith(g, t)[id] = idMark[g][id]
       /\ \A id \in MutIds : IdMarkersWith(g, t)[id] # idMark[g][id] =>
             \E i \in 1..Len(t) : t[i].id = id /\ idMark[g][id] = None
  BY <1>4
<1> QED
  BY <1>7, <1>8, <1>9, <1>10 DEF t, g

(* A commit's two tables name each other again.                            *)
LEMMA TailPaired ==
    ASSUME TypeOK, Paired(seqMark, idMark), NEW c \in Commits, NEW T \in Nat,
           \A i \in 1..Len(c.tail) :
              /\ c.tail[i].seq = T + i
              /\ seqMark[c.gen][c.tail[i].seq] = None <=> idMark[c.gen][c.tail[i].id] = None
    PROVE  Paired([seqMark EXCEPT ![c.gen] = SeqMarkersWith(c.gen, c.tail)],
                  [idMark EXCEPT ![c.gen] = IdMarkersWith(c.gen, c.tail)])
<1> DEFINE t == c.tail
           SM == SeqMarkersWith(c.gen, c.tail)
           IM == IdMarkersWith(c.gen, c.tail)
           sm == [seqMark EXCEPT ![c.gen] = SM]
           im == [idMark EXCEPT ![c.gen] = IM]
<1>0. t \in Seq(Mutations) /\ c.gen \in GenIds
  BY CommitAssumption
<1>1. \A i \in 1..Len(t) : /\ t[i].seq \in 1..MaxSeq /\ t[i].id \in MutIds
                           /\ MarkerFor(t[i]).seq = t[i].seq /\ MarkerFor(t[i]).id = t[i].id
  BY <1>0, MutationAssumption DEF MarkerFor
<1>2. /\ \A g \in GenIds : sm[g] = IF g = c.gen THEN SM ELSE seqMark[g]
      /\ \A g \in GenIds : im[g] = IF g = c.gen THEN IM ELSE idMark[g]
  BY <1>0 DEF TypeOK
<1>3. /\ \A k \in 1..MaxSeq : seqMark[c.gen][k] # None => SM[k] = seqMark[c.gen][k]
      /\ \A id \in MutIds : idMark[c.gen][id] # None => IM[id] = idMark[c.gen][id]
      /\ \A i \in 1..Len(t) : seqMark[c.gen][t[i].seq] = None => SM[t[i].seq] = MarkerFor(t[i])
      /\ \A i \in 1..Len(t) : idMark[c.gen][t[i].id] = None => IM[t[i].id] = MarkerFor(t[i])
      /\ \A k \in 1..MaxSeq : SM[k] # seqMark[c.gen][k] =>
            \E i \in 1..Len(t) : t[i].seq = k /\ seqMark[c.gen][k] = None
      /\ \A id \in MutIds : IM[id] # idMark[c.gen][id] =>
            \E i \in 1..Len(t) : t[i].id = id /\ idMark[c.gen][id] = None
  BY TailMarkers
<1>4. /\ \A g \in GenIds : \A k \in 1..MaxSeq : seqMark[g][k] \in Markers \cup {None}
      /\ \A g \in GenIds : \A id \in MutIds : idMark[g][id] \in Markers \cup {None}
  BY DEF TypeOK
<1>5. \A mk \in Markers : mk.id \in MutIds /\ mk.seq \in 1..MaxSeq
  BY DEF Markers
<1>6. \A i \in 1..Len(t) : seqMark[c.gen][t[i].seq] = None <=> idMark[c.gen][t[i].id] = None
  OBVIOUS
<1> HIDE DEF t, SM, IM, sm, im
<1>7. ASSUME NEW k \in 1..MaxSeq, SM[k] # None
      PROVE  SM[k].seq = k /\ IM[SM[k].id] = SM[k]
  <2>1. CASE SM[k] = seqMark[c.gen][k]
    <3>1. seqMark[c.gen][k] \in Markers /\ seqMark[c.gen][k].id \in MutIds
      BY <1>0, <1>4, <1>5, <1>7, <2>1
    <3>2. seqMark[c.gen][k].seq = k /\ idMark[c.gen][seqMark[c.gen][k].id] = seqMark[c.gen][k]
      BY <1>0, <1>7, <2>1 DEF Paired
    <3> QED
      BY <1>3, <1>7, <2>1, <3>1, <3>2
  <2>2. CASE SM[k] # seqMark[c.gen][k]
    <3>1. PICK i \in 1..Len(t) : t[i].seq = k /\ seqMark[c.gen][k] = None
      BY <1>3, <2>2
    <3>2. SM[k] = MarkerFor(t[i]) /\ idMark[c.gen][t[i].id] = None
      BY <1>3, <1>6, <3>1
    <3> QED
      BY <1>1, <1>3, <3>1, <3>2
  <2> QED
    BY <2>1, <2>2
<1>8. ASSUME NEW id \in MutIds, IM[id] # None
      PROVE  IM[id].id = id /\ SM[IM[id].seq] = IM[id]
  <2>1. CASE IM[id] = idMark[c.gen][id]
    <3>1. idMark[c.gen][id] \in Markers /\ idMark[c.gen][id].seq \in 1..MaxSeq
      BY <1>0, <1>4, <1>5, <1>8, <2>1
    <3>2. idMark[c.gen][id].id = id /\ seqMark[c.gen][idMark[c.gen][id].seq] = idMark[c.gen][id]
      BY <1>0, <1>8, <2>1 DEF Paired
    <3> QED
      BY <1>3, <1>8, <2>1, <3>1, <3>2
  <2>2. CASE IM[id] # idMark[c.gen][id]
    <3>1. PICK i \in 1..Len(t) : t[i].id = id /\ idMark[c.gen][id] = None
      BY <1>3, <2>2
    <3>2. IM[id] = MarkerFor(t[i]) /\ seqMark[c.gen][t[i].seq] = None
      BY <1>3, <1>6, <3>1
    <3> QED
      BY <1>1, <1>3, <3>1, <3>2
  <2> QED
    BY <2>1, <2>2
<1>9. Paired(sm, im)
  <2> SUFFICES ASSUME NEW g \in GenIds
               PROVE  /\ \A n \in 1..MaxSeq : sm[g][n] # None =>
                            sm[g][n].seq = n /\ im[g][sm[g][n].id] = sm[g][n]
                      /\ \A id \in MutIds : im[g][id] # None =>
                            im[g][id].id = id /\ sm[g][im[g][id].seq] = im[g][id]
    BY DEF Paired
  <2>1. CASE g = c.gen
    BY <1>2, <1>7, <1>8, <2>1
  <2>2. CASE g # c.gen
    BY <1>2, <2>2 DEF Paired
  <2> QED
    BY <2>1, <2>2
<1> QED
  BY <1>9 DEF sm, im, SM, IM

(* A commit marks the tail it applies, keeps every other marker, and       *)
(* replaces exactly the generation it revises.                             *)
LEMMA CommitGenerationRevisionTold ==
    ASSUME TypeOK, RecordNeverRefused, Told, NEW c \in Commits,
           CommitGenerationRevision(c.gen, c.sha, c.target, c.tail)
    PROVE  Told'
<1> DEFINE g == c.gen
           n == c.target
           t == c.tail
           gen == GenerationById(g)
           next == [gen EXCEPT !.applied = n, !.last_error = None]
           refusal == CommitRefusal(gen, c.sha, n, t)
           k == WithCheckpoint(ckpt, next)
           SM == SeqMarkersWith(g, t)
           sm == [seqMark EXCEPT ![g] = SM]
           im == [idMark EXCEPT ![g] = IdMarkersWith(g, t)]
<1>c. g \in GenIds /\ n \in Nat /\ t \in Seq(Mutations) /\ Len(t) \in Nat
  BY CommitAssumption
<1>1. CASE \E r : Return(r)
  BY <1>1, ReturnTold
<1>2. ASSUME n <= MaxSeq, Retained(g), refusal = None,
             WriteBatch(Replace(active, next), Replace(previous, next), Replace(staged, next),
                        k, sm, im, "Applied")
      PROVE  Told'
  <2>1. gen \in GenStates /\ gen \in Roles /\ gen.manifest.id = g
    BY <1>2, GenerationByIdType
  <2>2. /\ gen.state \in {"Ready", "Serving"} /\ ~(n < gen.applied) /\ ~(n <= gen.manifest.target)
        /\ Len(t) = n - gen.manifest.target
        /\ \A i \in 1..Len(t) : MutationRefusal(gen, i, t[i]) = None
    BY <1>2, CommitAccepted
  <2>3. \A i \in 1..Len(t) :
           /\ t[i].gen = g /\ t[i].seq = gen.manifest.target + i
           /\ seqMark[g][t[i].seq] = None <=> idMark[g][t[i].id] = None
    BY <2>1, <2>2, MutationAccepted
  <2>4. n \in 0..MaxSeq
    BY <1>c, <1>2, MaxSeqAssumption
  <2>5. /\ next \in GenStates /\ next.state = gen.state /\ next.manifest = gen.manifest
        /\ next.applied = n /\ next # None
    <3>1. next = Revised(gen, n)
      BY DEF Revised
    <3> HIDE DEF gen, n, next
    <3>2. /\ next \in GenStates /\ next.state = gen.state /\ next.manifest = gen.manifest
          /\ next.applied = n
      BY <2>1, <2>4, <3>1, RevisedType
    <3> QED
      BY <3>2, NoneAssumption
  <2>6. /\ gen.manifest.base \in Nat /\ gen.manifest.target \in Nat /\ gen.applied \in 0..MaxSeq
        /\ gen.manifest.base <= gen.manifest.target
    BY <2>1, ManifestAssumption DEF GenStates
  <2>7. gen.applied >= gen.manifest.target
    BY <2>1, <2>2 DEF Roles, RecordNeverRefused, ValidRecord, ValidGeneration
  <2>8. gen.state = "Serving" => gen = active
    BY <2>1 DEF Roles, RecordNeverRefused, ValidRecord
  <2>9. Paired(sm, im)
    BY <2>3, <2>6, TailPaired DEF Told, Story
  <2>10. /\ \A j \in 1..MaxSeq : seqMark[g][j] # None => SM[j] = seqMark[g][j]
         /\ \A i \in 1..Len(t) : seqMark[g][t[i].seq] = None => SM[t[i].seq] = MarkerFor(t[i])
    BY <2>3, <2>6, TailMarkers
  <2>11. \A h \in GenIds : sm[h] = IF h = g THEN SM ELSE seqMark[h]
    BY <1>c DEF TypeOK
  <2>12. \A h \in GenIds : k[h] = IF h = g THEN CheckpointFor(next) ELSE ckpt[h]
    <3>1. ckpt \in CkptType
      BY DEF TypeOK, CkptType
    <3>2. next.manifest.id = g
      BY <2>1, <2>5
    <3> HIDE DEF next
    <3> QED
      BY <2>5, <3>1, <3>2, CheckpointAt DEF k
  <2>13. \A i \in 1..Len(t) : MarkerFor(t[i]) # None
    <3>1. \A i \in 1..Len(t) : MarkerFor(t[i]) \in Markers
      BY <1>c, MutationAssumption DEF MarkerFor, Markers
    <3> QED
      BY <3>1, NoneAssumption
  <2>14. next.manifest.id = g
    BY <2>1, <2>5
  <2>15. /\ active \in OptionalGen /\ previous \in OptionalGen /\ staged \in OptionalGen
         /\ gen # None /\ RoleMarked(gen, seqMark)
    BY <2>1 DEF TypeOK, OptionalGen, Roles, Told, Story
  <2> HIDE DEF g, n, t, gen, next, k, SM, sm, im
  <2>16. ASSUME NEW r \in OptionalGen, RoleMarked(r, seqMark) PROVE RoleMarked(r, sm)
    <3> SUFFICES ASSUME r # None, NEW j \in (r.manifest.base + 1)..r.applied
                 PROVE  sm[r.manifest.id][j] # None
      BY DEF RoleMarked
    <3>1. r.manifest.id \in GenIds /\ r.manifest.base \in Nat /\ r.applied \in 0..MaxSeq
      BY ManifestAssumption DEF OptionalGen, GenStates
    <3>2. j \in 1..MaxSeq /\ seqMark[r.manifest.id][j] # None
      BY <2>16, <3>1, MaxSeqAssumption DEF RoleMarked
    <3> QED
      BY <2>10, <2>11, <3>1, <3>2
  <2>17. RoleMarked(next, sm)
    <3> SUFFICES ASSUME NEW j \in (gen.manifest.base + 1)..n PROVE SM[j] # None
      BY <1>c, <2>5, <2>11, <2>14 DEF RoleMarked
    <3>1. j \in 1..MaxSeq
      BY <2>4, <2>6, MaxSeqAssumption
    <3>2. CASE j <= gen.applied
      <4>1. j \in (gen.manifest.base + 1)..gen.applied
        BY <2>6, <3>1, <3>2, <2>4
      <4>2. seqMark[g][j] # None
        BY <2>1, <2>15, <4>1 DEF RoleMarked
      <4> QED
        BY <2>10, <3>1, <4>2
    <3>3. CASE ~(j <= gen.applied)
      <4> DEFINE i == j - gen.manifest.target
      <4>1. i \in 1..Len(t) /\ gen.manifest.target + i = j
        BY <1>c, <2>2, <2>4, <2>6, <2>7, <3>1, <3>3
      <4> HIDE DEF i
      <4>2. t[i].seq = j
        BY <2>3, <4>1
      <4> QED
        BY <2>10, <2>13, <3>1, <4>1, <4>2
    <3> QED
      BY <3>2, <3>3
  <2>18. ASSUME NEW r \in OptionalGen, RoleTruthful(r, ckpt)
         PROVE  RoleTruthful(Replace(r, next), k)
    <3>1. r # None => r.manifest.id \in GenIds
      BY ManifestAssumption DEF OptionalGen, GenStates
    <3>2. CASE Present(r, g)
      BY <1>c, <2>12, <2>14, <3>2 DEF Replace, RoleTruthful
    <3>3. CASE ~Present(r, g)
      BY <2>12, <2>14, <2>18, <3>1, <3>3 DEF Replace, RoleTruthful, Present
    <3> QED
      BY <3>2, <3>3
  <2>19. ASSUME NEW r \in OptionalGen, RoleMarked(r, seqMark) PROVE RoleMarked(Replace(r, next), sm)
    BY <2>16, <2>17, <2>19 DEF Replace
  <2>20. OneServing(Replace(active, next), k)
    <3> SUFFICES ASSUME NEW h \in GenIds, k[h] # None, k[h].state = "Serving"
                 PROVE  Present(Replace(active, next), h)
      BY DEF OneServing
    <3>1. CASE h = g
      <4>1. gen = active
        BY <2>5, <2>8, <2>12, <3>1 DEF CheckpointFor
      <4> QED
        BY <2>1, <2>5, <2>14, <2>15, <3>1, <4>1 DEF Replace, Present
    <3>2. CASE h # g
      <4>1. Present(active, h)
        BY <2>12, <3>2 DEF Told, Story, OneServing
      <4> QED
        BY <2>14, <3>2, <4>1 DEF Replace, Present
    <3> QED
      BY <3>1, <3>2
  <2>21. Story(Replace(active, next), Replace(previous, next), Replace(staged, next), k, sm, im)
    BY <2>9, <2>15, <2>18, <2>19, <2>20 DEF Told, Story
  <2> QED
    BY <1>2, <2>21, WriteBatchTold
<1> QED
  BY <1>1, <1>2 DEF CommitGenerationRevision

-----------------------------------------------------------------------------
(* Activation and rollback write two checkpoints: of the two generations   *)
(* that change places, only the new active one reports Serving.            *)

LEMMA AsMarked ==
    ASSUME NEW s \in GenStates, NEW state \in {"Ready", "Serving"}, RoleMarked(s, seqMark)
    PROVE  RoleMarked(As(s, state), seqMark)
<1>1. As(s, state).manifest = s.manifest /\ As(s, state).applied = s.applied /\ s # None
  BY AsType, NoneAssumption DEF LocalStates
<1> QED
  BY <1>1 DEF RoleMarked

(* The checkpoints after the generation new took over from old.            *)
LEMMA SwapTruthful ==
    ASSUME TypeOK, Told, NEW new \in GenStates, NEW old \in GenStates, NEW k,
           active # None, old.manifest = active.manifest, new.manifest.id # old.manifest.id,
           new.state = "Serving", old.state = "Ready",
           \A h \in GenIds : k[h] = IF h = new.manifest.id THEN CheckpointFor(new)
                                    ELSE IF h = old.manifest.id THEN CheckpointFor(old)
                                    ELSE ckpt[h]
    PROVE  RoleTruthful(new, k) /\ RoleTruthful(old, k) /\ OneServing(new, k)
<1>1. new.manifest.id \in GenIds /\ old.manifest.id \in GenIds /\ new # None
  BY ManifestAssumption, NoneAssumption DEF GenStates
<1>2. RoleTruthful(new, k) /\ RoleTruthful(old, k)
  BY <1>1 DEF RoleTruthful
<1>3. OneServing(new, k)
  <2> SUFFICES ASSUME NEW h \in GenIds, k[h] # None, k[h].state = "Serving", h # new.manifest.id
               PROVE  FALSE
    BY <1>1 DEF OneServing, Present
  <2>1. h # old.manifest.id
    BY DEF CheckpointFor
  <2>2. Present(active, h)
    BY <2>1 DEF Told, Story, OneServing
  <2> QED
    BY <2>1, <2>2 DEF Present
<1> QED
  BY <1>2, <1>3

LEMMA ActivateTold ==
    ASSUME TypeOK, RecordNeverRefused, Told, NEW g \in GenIds, Activate(g) PROVE Told'
<1> DEFINE next == As(staged, "Serving")
           former == As(active, "Ready")
<1>1. CASE \E r : Return(r)
  BY <1>1, ReturnTold
<1>2. CASE Present(staged, g) /\ staged.state = "Ready" /\ ~(\E r : Return(r))
  <2>0. ckpt \in CkptType /\ staged \in GenStates /\ staged # None
    BY <1>2 DEF TypeOK, CkptType, Present
  <2>1. next \in GenStates /\ next.state = "Serving" /\ next.manifest = staged.manifest /\ next # None
    BY <2>0, AsType, NoneAssumption DEF LocalStates
  <2>2. RoleMarked(next, seqMark)
    BY <2>0, AsMarked DEF Told, Story
  <2>3. Paired(seqMark, idMark) /\ RoleMarked(None, seqMark) /\ \A k : RoleTruthful(None, k)
    BY DEF Told, Story, RoleMarked, RoleTruthful
  <2> HIDE DEF next
  <2>4. ASSUME active = None,
               WriteBatch(next, previous, None, WithCheckpoint(ckpt, next), seqMark, idMark, "Ok")
        PROVE  Told'
    <3> DEFINE k == WithCheckpoint(ckpt, next)
    <3>1. previous = None
      BY <2>4 DEF RecordNeverRefused, ValidRecord
    <3>2. next.manifest.id \in GenIds
          /\ \A h \in GenIds : k[h] = IF h = next.manifest.id THEN CheckpointFor(next) ELSE ckpt[h]
      BY <2>0, <2>1, CheckpointAt
    <3> HIDE DEF k
    <3>3. RoleTruthful(next, k)
      BY <3>2 DEF RoleTruthful
    <3>4. OneServing(next, k)
      BY <2>1, <2>4, <3>2 DEF Told, Story, OneServing, Present
    <3>5. Story(next, previous, None, k, seqMark, idMark)
      BY <2>2, <2>3, <3>1, <3>3, <3>4 DEF Story
    <3> QED
      BY <2>4, <3>5, WriteBatchTold DEF k
  <2>5. ASSUME active # None,
               WriteBatch(next, former, None, WithCheckpoint(WithCheckpoint(ckpt, former), next),
                          seqMark, idMark, "Ok")
        PROVE  Told'
    <3> DEFINE k1 == WithCheckpoint(ckpt, former)
               k == WithCheckpoint(k1, next)
    <3>1. active \in GenStates /\ active.manifest.id # staged.manifest.id
      BY <2>0, <2>5 DEF TypeOK, RecordNeverRefused, ValidRecord, DistinctRoles
    <3>2. former \in GenStates /\ former.state = "Ready" /\ former.manifest = active.manifest
      BY <3>1, AsType DEF LocalStates
    <3>3. RoleMarked(former, seqMark)
      BY <3>1, AsMarked DEF Told, Story
    <3> HIDE DEF former
    <3>4. k1 \in CkptType
      BY <2>0, <3>2, WithCheckpointType
    <3>5. \A h \in GenIds : k1[h] = IF h = former.manifest.id THEN CheckpointFor(former) ELSE ckpt[h]
      BY <2>0, <3>2, CheckpointAt
    <3> HIDE DEF k1
    <3>6. \A h \in GenIds : k[h] = IF h = next.manifest.id THEN CheckpointFor(next) ELSE k1[h]
      BY <2>1, <3>4, CheckpointAt
    <3> HIDE DEF k
    <3>7. RoleTruthful(next, k) /\ RoleTruthful(former, k) /\ OneServing(next, k)
      BY <2>1, <2>5, <3>1, <3>2, <3>5, <3>6, SwapTruthful
    <3>8. Story(next, former, None, k, seqMark, idMark)
      BY <2>2, <2>3, <3>3, <3>7 DEF Story
    <3> QED
      BY <2>5, <3>8, WriteBatchTold DEF k, k1
  <2> QED
    BY <1>2, <2>4, <2>5 DEF Activate, next
<1> QED
  BY <1>1, <1>2 DEF Activate

LEMMA RollbackTold ==
    ASSUME TypeOK, RecordNeverRefused, Told, NEW g \in GenIds, Rollback(g) PROVE Told'
<1> DEFINE target == As(previous, "Serving")
           former == As(active, "Ready")
           k1 == WithCheckpoint(ckpt, target)
           k == WithCheckpoint(k1, former)
<1>1. CASE \E r : Return(r)
  BY <1>1, ReturnTold
<1>2. CASE /\ Present(previous, g) /\ active # None
           /\ WriteBatch(target, former, staged, k, seqMark, idMark, "Ok")
  <2>1. /\ ckpt \in CkptType /\ active \in GenStates /\ previous \in GenStates
        /\ previous # None /\ staged \in OptionalGen
    BY <1>2 DEF TypeOK, CkptType, OptionalGen, Present
  <2>2. /\ active.manifest.id # previous.manifest.id
        /\ staged # None => /\ staged.manifest.id \in GenIds
                            /\ staged.manifest.id # active.manifest.id
                            /\ staged.manifest.id # previous.manifest.id
    BY <1>2, <2>1, ManifestAssumption
       DEF RecordNeverRefused, ValidRecord, DistinctRoles, OptionalGen, GenStates
  <2>3. target \in GenStates /\ target.state = "Serving" /\ target.manifest = previous.manifest
    BY <2>1, AsType DEF LocalStates
  <2>4. former \in GenStates /\ former.state = "Ready" /\ former.manifest = active.manifest
    BY <2>1, AsType DEF LocalStates
  <2>5. RoleMarked(target, seqMark) /\ RoleMarked(former, seqMark)
    BY <2>1, AsMarked DEF Told, Story
  <2> HIDE DEF target, former
  <2>6. k1 \in CkptType
    BY <2>1, <2>3, WithCheckpointType
  <2>7. \A h \in GenIds : k1[h] = IF h = target.manifest.id THEN CheckpointFor(target) ELSE ckpt[h]
    BY <2>1, <2>3, CheckpointAt
  <2> HIDE DEF k1
  <2>8. \A h \in GenIds : k[h] = IF h = former.manifest.id THEN CheckpointFor(former) ELSE k1[h]
    BY <2>4, <2>6, CheckpointAt
  <2> HIDE DEF k
  <2>9. \A h \in GenIds : k[h] = IF h = target.manifest.id THEN CheckpointFor(target)
                                 ELSE IF h = former.manifest.id THEN CheckpointFor(former)
                                 ELSE ckpt[h]
    BY <2>2, <2>3, <2>4, <2>7, <2>8
  <2>10. RoleTruthful(target, k) /\ RoleTruthful(former, k) /\ OneServing(target, k)
    BY <1>2, <2>2, <2>3, <2>4, <2>9, SwapTruthful
  <2>11. RoleTruthful(staged, k)
    BY <2>2, <2>3, <2>4, <2>9 DEF Told, Story, RoleTruthful
  <2>12. Story(target, former, staged, k, seqMark, idMark)
    BY <2>5, <2>10, <2>11 DEF Told, Story
  <2> QED
    BY <1>2, <2>12, WriteBatchTold
<1> QED
  BY <1>1, <1>2 DEF Rollback

-----------------------------------------------------------------------------
LEMMA NextTold == TypeOK /\ RecordNeverRefused /\ Told /\ [Next]_vars => Told'
<1> SUFFICES ASSUME TypeOK, RecordNeverRefused, Told, [Next]_vars PROVE Told'
  OBVIOUS
<1>1. ASSUME NEW m \in Manifests, StageGeneration(m) PROVE Told'
  BY <1>1, StageGenerationTold
<1>2. ASSUME NEW g \in GenIds, MarkBundleLoaded(g) PROVE Told'
  BY <1>2, MarkBundleLoadedTold
<1>3. ASSUME NEW m \in Mutations, ApplyMutation(m) PROVE Told'
  BY <1>3, ApplyMutationTold
<1>4. ASSUME NEW m \in Mutations, VerifyAppliedMutation(m) PROVE Told'
  BY <1>4, ReturnTold DEF VerifyAppliedMutation
<1>5. ASSUME NEW c \in Commits, CommitGenerationRevision(c.gen, c.sha, c.target, c.tail) PROVE Told'
  BY <1>5, CommitGenerationRevisionTold
<1>6. ASSUME NEW g \in GenIds, MarkReady(g) PROVE Told'
  BY <1>6, MarkReadyTold
<1>7. ASSUME NEW g \in GenIds, Activate(g) PROVE Told'
  BY <1>7, ActivateTold
<1>8. ASSUME NEW g \in GenIds, Rollback(g) PROVE Told'
  BY <1>8, RollbackTold
<1>9. ASSUME NEW g \in GenIds, NEW f \in Failures \cup {BadFailure}, FailStaged(g, f) PROVE Told'
  BY <1>9, FailStagedTold
<1>10. CASE UNCHANGED vars
  BY <1>10 DEF Told, vars
<1> QED
  BY <1>1, <1>2, <1>3, <1>4, <1>5, <1>6, <1>7, <1>8, <1>9, <1>10 DEF Next

LEMMA InitTold == Init => Told
BY DEF Init, Told, Story, Paired, RoleMarked, RoleTruthful, OneServing

(* After every sequence of calls, refused and failed ones included, the    *)
(* record is one validate_record accepts, both marker tables name each     *)
(* other, every applied sequence is marked and every checkpoint says what  *)
(* the record says.                                                        *)
THEOREM RecordAlwaysSound == Spec => []RecordSound
<1>1. TypeOK /\ RecordNeverRefused /\ Told => RecordSound
  BY ToldIsSound
<1> QED
  BY <1>1, InitTold, NextTold, TypeCorrect, RecordAlwaysAccepted, PTL DEF Spec

-----------------------------------------------------------------------------
(* What a step does to the roles.  Among the generations before and after  *)
(* it, those with one identity have one manifest and no less applied.      *)

Follows(r) == r # None => \A q \in Roles : q.manifest.id = r.manifest.id =>
                 r.manifest = q.manifest /\ r.applied >= q.applied
ProgressStep == \A g \in GenIds : Retained(g) /\ Retained(g)' =>
                   /\ GenerationById(g)'.manifest = GenerationById(g).manifest
                   /\ GenerationById(g)'.applied >= GenerationById(g).applied

(* A role that keeps its generation, or changes only state and error.      *)
LEMMA SameFollows ==
    ASSUME TypeOK, RecordNeverRefused, NEW r \in Roles, NEW s,
           s.manifest = r.manifest, s.applied = r.applied
    PROVE  Follows(s)
<1>1. \A q \in Roles : q \in GenStates /\ (q.manifest.id = r.manifest.id => q = r)
  BY DEF Roles, TypeOK, RecordNeverRefused, ValidRecord, DistinctRoles
<1>2. r.applied >= r.applied
  BY <1>1 DEF GenStates
<1> QED
  BY <1>1, <1>2 DEF Follows

LEMMA NoneFollows == Follows(None)
BY DEF Follows

LEMMA RolesFollow ==
    ASSUME TypeOK, RecordNeverRefused
    PROVE  Follows(active) /\ Follows(previous) /\ Follows(staged)
<1>1. ASSUME NEW r \in {active, previous, staged} PROVE Follows(r)
  <2>1. CASE r = None
    BY <2>1, NoneFollows
  <2>2. CASE r # None
    BY <2>2, SameFollows DEF Roles
  <2> QED
    BY <2>1, <2>2
<1> QED
  BY <1>1

LEMMA ReturnProgress == ASSUME TypeOK, NEW r, Return(r) PROVE ProgressStep
<1>1. ASSUME NEW g \in GenIds, Retained(g)
      PROVE  GenerationById(g).applied >= GenerationById(g).applied
  BY <1>1, GenerationByIdType DEF GenStates
<1>2. \A g : GenerationById(g)' = GenerationById(g)
  BY DEF Return, durable, GenerationById, Present
<1> QED
  BY <1>1, <1>2 DEF ProgressStep

LEMMA WriteBatchProgress ==
    ASSUME TypeOK, NEW a, NEW p, NEW s, NEW c, NEW sm, NEW im, NEW r,
           Follows(a), Follows(p), Follows(s), WriteBatch(a, p, s, c, sm, im, r)
    PROVE  ProgressStep
<1>1. CASE \E x \in {"CorruptRecord", "Storage"} : Return(x)
  BY <1>1, ReturnProgress
<1>2. CASE active' = a /\ previous' = p /\ staged' = s
  <2> SUFFICES ASSUME NEW g \in GenIds, Retained(g), Retained(g)'
               PROVE  /\ GenerationById(g)'.manifest = GenerationById(g).manifest
                      /\ GenerationById(g)'.applied >= GenerationById(g).applied
    BY DEF ProgressStep
  <2>1. GenerationById(g) \in Roles /\ GenerationById(g).manifest.id = g
    BY GenerationByIdType
  <2>2. /\ GenerationById(g)' # None /\ GenerationById(g)'.manifest.id = g
        /\ GenerationById(g)' \in {a, p, s}
    BY <1>2 DEF Retained, GenerationById, Present
  <2>3. Follows(GenerationById(g)')
    BY <2>2
  <2> QED
    BY <2>1, <2>2, <2>3 DEF Follows
<1> QED
  BY <1>1, <1>2 DEF WriteBatch

(* The staged slot changes state, error or nothing.                        *)
LEMMA PersistStagedProgress ==
    ASSUME TypeOK, RecordNeverRefused, staged # None, NEW s,
           s.manifest = staged.manifest, s.applied = staged.applied, PersistStaged(s)
    PROVE  ProgressStep
<1>1. Follows(s)
  BY SameFollows DEF Roles
<1> QED
  BY <1>1, RolesFollow, WriteBatchProgress DEF PersistStaged

LEMMA NextProgress == TypeOK /\ RecordNeverRefused /\ [Next]_vars => [ProgressStep]_vars
<1> SUFFICES ASSUME TypeOK, RecordNeverRefused, Next PROVE ProgressStep
  OBVIOUS
<1>r. \A r : Return(r) => ProgressStep
  BY ReturnProgress
<1>f. Follows(active) /\ Follows(previous) /\ Follows(staged)
  BY RolesFollow
<1>1. ASSUME NEW m \in Manifests, StageGeneration(m) PROVE ProgressStep
  <2> DEFINE new == [manifest |-> m, applied |-> m.base, state |-> "Staged", last_error |-> None]
  <2>1. ASSUME ~Present(active, m.id), ~Present(previous, m.id), staged = None PROVE Follows(new)
    BY <2>1 DEF Follows, Roles, Present
  <2>2. ASSUME ~Present(active, m.id), ~Present(previous, m.id), staged = None,
               WriteBatch(active, previous, new, ckpt, seqMark, idMark, "Staged")
        PROVE  ProgressStep
    <3>1. Follows(new)
      BY <2>1, <2>2
    <3> QED
      BY <1>f, <2>2, <3>1, WriteBatchProgress
  <2> QED
    BY <1>1, <1>r, <2>2 DEF StageGeneration
<1>2. ASSUME NEW g \in GenIds, MarkBundleLoaded(g) PROVE ProgressStep
  <2>1. ASSUME Present(staged, g), PersistStaged([staged EXCEPT !.state = "CatchingUp"])
        PROVE  ProgressStep
    <3>1. staged # None /\ staged \in GenStates
      BY <2>1 DEF TypeOK, Present
    <3> DEFINE s == [staged EXCEPT !.state = "CatchingUp"]
    <3>2. s.manifest = staged.manifest /\ s.applied = staged.applied
      BY <3>1 DEF GenStates
    <3> QED
      BY <2>1, <3>1, <3>2, PersistStagedProgress
  <2> QED
    BY <1>2, <1>r, <2>1 DEF MarkBundleLoaded
<1>3. ASSUME NEW m \in Mutations, ApplyMutation(m) PROVE ProgressStep
  <2>1. ASSUME ReplayRefusal(m) = None, NEW c, NEW sm, NEW im,
               WriteBatch(active, previous, [staged EXCEPT !.applied = m.seq], c, sm, im, "Applied")
        PROVE  ProgressStep
    <3> DEFINE next == [staged EXCEPT !.applied = m.seq]
    <3>1. staged \in GenStates /\ staged # None /\ m.seq = staged.applied + 1
      BY <2>1, StagedRefusalNotNone, NoneAssumption DEF TypeOK, ReplayRefusal, Present, Refused
    <3>2. next.manifest = staged.manifest /\ next.applied = m.seq
      BY <3>1 DEF GenStates
    <3>3. \A q \in Roles : q.manifest.id = staged.manifest.id => q = staged
      BY <3>1 DEF Roles, RecordNeverRefused, ValidRecord, DistinctRoles
    <3>4. m.seq >= staged.applied
      BY <3>1 DEF GenStates
    <3>5. Follows(next)
      BY <3>2, <3>3, <3>4 DEF Follows
    <3> HIDE DEF next
    <3> QED
      BY <1>f, <2>1, <3>5, WriteBatchProgress DEF next
  <2> QED
    BY <1>3, <1>r, <2>1 DEF ApplyMutation
<1>4. ASSUME NEW m \in Mutations, VerifyAppliedMutation(m) PROVE ProgressStep
  BY <1>4, <1>r DEF VerifyAppliedMutation
<1>5. ASSUME NEW c \in Commits, CommitGenerationRevision(c.gen, c.sha, c.target, c.tail)
      PROVE  ProgressStep
  <2> DEFINE gen == GenerationById(c.gen)
             next == [gen EXCEPT !.applied = c.target, !.last_error = None]
  <2>1. ASSUME Retained(c.gen), CommitRefusal(gen, c.sha, c.target, c.tail) = None,
               c.target <= MaxSeq, NEW k, NEW sm, NEW im,
               WriteBatch(Replace(active, next), Replace(previous, next), Replace(staged, next),
                          k, sm, im, "Applied")
        PROVE  ProgressStep
    <3>1. gen \in GenStates /\ gen \in Roles
      BY <2>1, GenerationByIdType
    <3>2. ~(c.target < gen.applied) /\ c.target \in 0..MaxSeq
      BY <2>1, CommitAccepted, CommitAssumption, MaxSeqAssumption
    <3>3. next.manifest = gen.manifest /\ next.applied = c.target
      <4>1. next = Revised(gen, c.target)
        BY DEF Revised
      <4> HIDE DEF gen, next
      <4> QED
        BY <3>1, <3>2, <4>1, RevisedType
    <3> HIDE DEF gen, next
    <3>4. \A q \in Roles : q.manifest.id = gen.manifest.id => q = gen
      BY <3>1 DEF Roles, RecordNeverRefused, ValidRecord, DistinctRoles
    <3>5. c.target >= gen.applied
      BY <3>1, <3>2 DEF GenStates
    <3>6. Follows(next)
      BY <3>3, <3>4, <3>5 DEF Follows
    <3>7. Follows(Replace(active, next)) /\ Follows(Replace(previous, next))
          /\ Follows(Replace(staged, next))
      BY <1>f, <3>6 DEF Replace
    <3> QED
      BY <2>1, <3>7, WriteBatchProgress
  <2> QED
    BY <1>5, <1>r, <2>1 DEF CommitGenerationRevision
<1>6. ASSUME NEW g \in GenIds, MarkReady(g) PROVE ProgressStep
  <2>1. ASSUME Present(staged, g), PersistStaged([staged EXCEPT !.state = "Ready"])
        PROVE  ProgressStep
    <3>1. staged # None /\ staged \in GenStates
      BY <2>1 DEF TypeOK, Present
    <3> DEFINE s == [staged EXCEPT !.state = "Ready"]
    <3>2. s.manifest = staged.manifest /\ s.applied = staged.applied
      BY <3>1 DEF GenStates
    <3> QED
      BY <2>1, <3>1, <3>2, PersistStagedProgress
  <2> QED
    BY <1>6, <1>r, <2>1 DEF MarkReady
<1>7. ASSUME NEW q \in Roles, NEW state \in {"Ready", "Serving"} PROVE Follows(As(q, state))
  <2>1. q \in GenStates
    BY DEF TypeOK, Roles
  <2>2. As(q, state).manifest = q.manifest /\ As(q, state).applied = q.applied
    BY <2>1, AsType DEF LocalStates
  <2> QED
    BY <2>2, SameFollows
<1>8. ASSUME NEW g \in GenIds, Activate(g) PROVE ProgressStep
  <2>1. ASSUME Present(staged, g), active = None, NEW c,
               WriteBatch(As(staged, "Serving"), previous, None, c, seqMark, idMark, "Ok")
        PROVE  ProgressStep
    <3>1. Follows(As(staged, "Serving"))
      BY <1>7, <2>1 DEF Roles, Present
    <3> QED
      BY <1>f, <2>1, <3>1, NoneFollows, WriteBatchProgress
  <2>2. ASSUME Present(staged, g), active # None, NEW c,
               WriteBatch(As(staged, "Serving"), As(active, "Ready"), None, c, seqMark, idMark, "Ok")
        PROVE  ProgressStep
    <3>1. Follows(As(staged, "Serving")) /\ Follows(As(active, "Ready"))
      BY <1>7, <2>2 DEF Roles, Present
    <3> QED
      BY <2>2, <3>1, NoneFollows, WriteBatchProgress
  <2> QED
    BY <1>8, <1>r, <2>1, <2>2 DEF Activate
<1>9. ASSUME NEW g \in GenIds, Rollback(g) PROVE ProgressStep
  <2>1. ASSUME Present(previous, g), active # None, NEW c,
               WriteBatch(As(previous, "Serving"), As(active, "Ready"), staged, c, seqMark, idMark, "Ok")
        PROVE  ProgressStep
    <3>1. Follows(As(previous, "Serving")) /\ Follows(As(active, "Ready"))
      BY <1>7, <2>1 DEF Roles, Present
    <3> QED
      BY <1>f, <2>1, <3>1, WriteBatchProgress
  <2> QED
    BY <1>9, <1>r, <2>1 DEF Rollback
<1>10. ASSUME NEW g \in GenIds, NEW f \in Failures \cup {BadFailure}, FailStaged(g, f)
       PROVE  ProgressStep
  <2>1. ASSUME Present(staged, g),
               PersistStaged([staged EXCEPT !.state = "Failed", !.last_error = f])
        PROVE  ProgressStep
    <3>1. staged # None /\ staged \in GenStates
      BY <2>1 DEF TypeOK, Present
    <3> DEFINE s == [staged EXCEPT !.state = "Failed", !.last_error = f]
    <3>2. s.manifest = staged.manifest /\ s.applied = staged.applied
      BY <3>1 DEF GenStates
    <3> QED
      BY <2>1, <3>1, <3>2, PersistStagedProgress
  <2> QED
    BY <1>10, <1>r, <2>1 DEF FailStaged
<1> QED
  BY <1>1, <1>2, <1>3, <1>4, <1>5, <1>6, <1>8, <1>9, <1>10 DEF Next

(* A retained generation keeps its manifest and never loses what it has    *)
(* applied, whichever role it moves to.                                    *)
THEOREM ProgressNeverLost == Spec => ProgressKept
BY TypeCorrect, RecordAlwaysAccepted, NextProgress, PTL DEF Spec, ProgressKept, ProgressStep

(* The serving pointer and what a step may do to it.                       *)
HandoverStep ==
    \/ active' = active
    \/ /\ active # None /\ active' # None
       /\ active'.manifest = active.manifest
    \/ /\ active' # None
       /\ \E r \in {staged, previous} : r # None /\ active' = As(r, "Serving") /\ r.state = "Ready"
       /\ active # None => previous' = As(active, "Ready")

LEMMA NextHandover == TypeOK /\ RecordNeverRefused /\ [Next]_vars => [HandoverStep]_vars
<1> SUFFICES ASSUME TypeOK, RecordNeverRefused, Next PROVE HandoverStep
  OBVIOUS
<1>r. \A r : Return(r) => HandoverStep
  BY DEF Return, durable, HandoverStep
<1>s. \A p, s, c, sm, im, r : WriteBatch(active, p, s, c, sm, im, r) => HandoverStep
  BY <1>r DEF WriteBatch, HandoverStep
<1>1. ASSUME NEW m \in Manifests, StageGeneration(m) PROVE HandoverStep
  BY <1>1, <1>r, <1>s DEF StageGeneration
<1>2. ASSUME NEW g \in GenIds, MarkBundleLoaded(g) PROVE HandoverStep
  BY <1>2, <1>r, <1>s DEF MarkBundleLoaded, PersistStaged
<1>3. ASSUME NEW m \in Mutations, ApplyMutation(m) PROVE HandoverStep
  BY <1>3, <1>r, <1>s DEF ApplyMutation
<1>4. ASSUME NEW m \in Mutations, VerifyAppliedMutation(m) PROVE HandoverStep
  BY <1>4, <1>r DEF VerifyAppliedMutation
<1>5. ASSUME NEW c \in Commits, CommitGenerationRevision(c.gen, c.sha, c.target, c.tail)
      PROVE  HandoverStep
  <2> DEFINE gen == GenerationById(c.gen)
             next == [gen EXCEPT !.applied = c.target, !.last_error = None]
  <2>1. ASSUME Retained(c.gen), c.target <= MaxSeq, NEW p, NEW s, NEW k, NEW sm, NEW im,
               WriteBatch(Replace(active, next), p, s, k, sm, im, "Applied")
        PROVE  HandoverStep
    <3>1. gen \in GenStates /\ gen \in Roles /\ gen.manifest.id = c.gen
      BY <2>1, GenerationByIdType
    <3>2. c.target \in 0..MaxSeq
      BY <2>1, CommitAssumption, MaxSeqAssumption
    <3>3. next \in GenStates /\ next.manifest = gen.manifest
      <4>1. next = Revised(gen, c.target)
        BY DEF Revised
      <4> HIDE DEF gen, next
      <4> QED
        BY <3>1, <3>2, <4>1, RevisedType
    <3>4. Present(active, c.gen) => gen = active
      BY DEF GenerationById
    <3> HIDE DEF gen, next
    <3>5. \/ Replace(active, next) = active
          \/ active # None /\ Replace(active, next) # None
             /\ Replace(active, next).manifest = active.manifest
      BY <3>1, <3>3, <3>4, NoneAssumption DEF Replace, Present
    <3>6. CASE active' = Replace(active, next)
      BY <3>5, <3>6 DEF HandoverStep
    <3> QED
      BY <1>r, <2>1, <3>6 DEF WriteBatch
  <2> QED
    BY <1>5, <1>r, <2>1 DEF CommitGenerationRevision
<1>6. ASSUME NEW g \in GenIds, MarkReady(g) PROVE HandoverStep
  BY <1>6, <1>r, <1>s DEF MarkReady, PersistStaged
<1>7. ASSUME NEW q \in {staged, previous}, q # None, q.state = "Ready", NEW p, NEW s, NEW c,
             active # None => p = As(active, "Ready"),
             WriteBatch(As(q, "Serving"), p, s, c, seqMark, idMark, "Ok")
      PROVE  HandoverStep
  <2>1. As(q, "Serving") # None
    BY <1>7, AsType, NoneAssumption DEF TypeOK, LocalStates
  <2>2. CASE active' = As(q, "Serving") /\ previous' = p
    BY <1>7, <2>1, <2>2 DEF HandoverStep
  <2> QED
    BY <1>7, <1>r, <2>2 DEF WriteBatch
<1>8. ASSUME NEW g \in GenIds, Activate(g) PROVE HandoverStep
  <2>1. ASSUME Present(staged, g), staged.state = "Ready", NEW p, NEW c,
               active # None => p = As(active, "Ready"),
               WriteBatch(As(staged, "Serving"), p, None, c, seqMark, idMark, "Ok")
        PROVE  HandoverStep
    BY <1>7, <2>1 DEF Present
  <2> QED
    BY <1>8, <1>r, <2>1 DEF Activate
<1>9. ASSUME NEW g \in GenIds, Rollback(g) PROVE HandoverStep
  <2>1. ASSUME Present(previous, g), NEW c,
               WriteBatch(As(previous, "Serving"), As(active, "Ready"), staged, c, seqMark, idMark, "Ok")
        PROVE  HandoverStep
    <3>1. previous # None /\ previous.state = "Ready"
      BY <2>1 DEF Present, RecordNeverRefused, ValidRecord
    <3> QED
      BY <1>7, <2>1, <3>1
  <2> QED
    BY <1>9, <1>r, <2>1 DEF Rollback
<1>10. ASSUME NEW g \in GenIds, NEW f \in Failures \cup {BadFailure}, FailStaged(g, f)
       PROVE  HandoverStep
  BY <1>10, <1>r, <1>s DEF FailStaged, PersistStaged
<1> QED
  BY <1>1, <1>2, <1>3, <1>4, <1>5, <1>6, <1>8, <1>9, <1>10 DEF Next

(* The serving pointer moves only to a generation that was Ready, keeps    *)
(* the one it leaves for a rollback, and is never cleared.                 *)
THEOREM HandoverAlwaysSafe == Spec => Handover
BY TypeCorrect, RecordAlwaysAccepted, NextHandover, PTL DEF Spec, Handover, HandoverStep
=============================================================================
