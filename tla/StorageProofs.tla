--------------------------- MODULE StorageProofs ----------------------------
(***************************************************************************)
(* What holds of the write-ahead log for every number of appends, of an    *)
(* index rebuild for every number of writers, ids, indices and writes, of  *)
(* the directories of generations for every number of power cuts and       *)
(* deaths, and of the two stores of snapshots for every number of files,   *)
(* parts, callers and lost answers.                                        *)
(***************************************************************************)
EXTENDS WriteAheadLog, IndexRebuild, Snapshots, GenerationFiles, TLAPS, WellFoundedInduction, FiniteSetTheorems, SequenceTheorems

-----------------------------------------------------------------------------
(* The write-ahead log.  LogSafe is not inductive: it says nothing of what *)
(* is written and not synced, nor of the number the next entry gets.       *)

Units == [kind : {"entry", "cut", "magic"}, lsn : Nat, n : Nat]

WalTypes ==
    /\ syncMode \in {"Sync", "BatchSync"}
    /\ walFile \in Seq(Units) /\ walBuffer \in Seq(Units)
    /\ currentLsn \in Nat /\ appends \in Nat
    /\ walWriter \in {"open", "closed", "down"}
    /\ walStep \in [at : {"no", "temp", "rename", "reopen"}, lsn : Nat]

(* Buffered entries wait for an open writer that does not sync each one; a *)
(* truncation has closed it; the temporary file holds what it keeps.       *)
WalShape ==
    /\ walWriter # "open" => walBuffer = <<>>
    /\ syncMode = "Sync" => walBuffer = <<>>
    /\ walStep # NotTruncating => walWriter = "closed"
    /\ walStep.at = "rename" => walTemp = EntriesAfter(walFile, walStep.lsn)

(* What a reader would get of a file, were all that is written in it.      *)
Ordered(units) == \A j, k \in Readable(units) : j < k => units[j].lsn < units[k].lsn
Below(units, bound) == \A k \in Readable(units) : units[k].lsn < bound

WalOnward ==
    /\ Ordered(walFile \o walBuffer)
    /\ walWriter # "down" => Below(walFile \o walBuffer, currentLsn)
    /\ Below(walFile \o walBuffer, appends + 1) /\ currentLsn <= appends + 1

WalInv == WalTypes /\ WalShape /\ WalOnward /\ AckedIsRead

-----------------------------------------------------------------------------
(* The reader.                                                             *)

(* Whether a unit is read depends on it and on what stands before it.      *)
LEMMA ReadsByPrefix ==
    ASSUME NEW u \in Seq(Units), NEW w \in Seq(Units), NEW k \in 1..Len(u), k <= Len(w),
           \A j \in 1..k : u[j] = w[j], k \in Readable(u)
    PROVE  k \in Readable(w)
<1>1. ASSUME NEW m \in 1..k PROVE InStep(u, m) <=> InStep(w, m)
  <2>1. \A s \in 0..m - 1 : /\ s > 0 => s \in 1..k
                            /\ \A j \in s + 1..m - 1 : j \in 1..k
    OBVIOUS
  <2> QED
    BY <2>1, Zenon DEF InStep
<1>2. k \in 1..Len(w) /\ \A m \in 1..k - 1 : m \in 1..k
  OBVIOUS
<1>3. k \in 1..k
  OBVIOUS
<1>4. Aligned(u, k) /\ u[k].kind = "entry"
  BY DEF Readable
<1> QED
  BY <1>1, <1>2, <1>3, <1>4, Zenon DEF Readable, Aligned

(* A reader gets a whole entry with nothing torn before it.                *)
LEMMA CleanIsRead ==
    ASSUME NEW u \in Seq(Units), NEW k \in 1..Len(u), \A j \in 1..k : u[j].kind = "entry"
    PROVE  k \in Readable(u)
<1>1. InStep(u, k)
  <2>1. k - 1 \in 0..k - 1 /\ (k - 1 - (k - 1)) % 2 = 0
    OBVIOUS
  <2>2. \A j \in (k - 1) + 1..k - 1 : u[j].kind # "entry"
    OBVIOUS
  <2>3. k - 1 > 0 => u[k - 1].kind = "entry"
    OBVIOUS
  <2> QED
    BY <2>1, <2>2, <2>3, Zenon DEF InStep
<1>2. \A m \in 1..k - 1 : u[m].kind # "magic"
  OBVIOUS
<1>3. u[k].kind = "entry"
  OBVIOUS
<1> QED
  BY <1>1, <1>2, <1>3 DEF Readable, Aligned

(* What is read of a sequence that goes on is what was read of it, and     *)
(* some of what was added.                                                 *)
LEMMA ReadsOfPrefix ==
    ASSUME NEW u \in Seq(Units), NEW w \in Seq(Units), NEW m \in Nat, m <= Len(u), m <= Len(w),
           \A j \in 1..m : w[j] = u[j]
    PROVE  \A k \in 1..m : k \in Readable(w) <=> k \in Readable(u)
<1> SUFFICES ASSUME NEW k \in 1..m PROVE k \in Readable(w) <=> k \in Readable(u)
  OBVIOUS
<1>1. k \in 1..Len(u) /\ k \in 1..Len(w) /\ k <= Len(u) /\ k <= Len(w) /\ \A j \in 1..k : u[j] = w[j] /\ w[j] = u[j]
  <2>1. Len(u) \in Nat /\ Len(w) \in Nat
    OBVIOUS
  <2> QED
    BY <2>1
<1> QED
  BY <1>1, ReadsByPrefix

(* A cut file, with or without a torn unit after the cut, shows less.      *)
LEMMA CutKeepsOrder ==
    ASSUME NEW u \in Seq(Units), NEW w \in Seq(Units), NEW m \in Nat, m <= Len(u), m <= Len(w),
           \A j \in 1..m : w[j] = u[j],
           \A j \in m + 1..Len(w) : w[j].kind # "entry",
           Ordered(u)
    PROVE  /\ Ordered(w)
           /\ \A b \in Nat : Below(u, b) => Below(w, b)
<1>1. \A k \in Readable(w) : k \in 1..m /\ k \in Readable(u) /\ w[k] = u[k]
  <2> SUFFICES ASSUME NEW k \in Readable(w) PROVE k \in 1..m /\ k \in Readable(u) /\ w[k] = u[k]
    OBVIOUS
  <2>1. k \in 1..Len(w) /\ w[k].kind = "entry" /\ Len(w) \in Nat
    BY DEF Readable
  <2>2. k \in 1..m
    BY <2>1
  <2> QED
    BY <2>2, ReadsOfPrefix
<1> QED
  BY <1>1 DEF Ordered, Below

(* An entry with a number above all that is read keeps the order.          *)
LEMMA AppendKeepsOrder ==
    ASSUME NEW u \in Seq(Units), NEW e \in Units, NEW b \in Nat,
           Ordered(u), Below(u, b), e.lsn = b \/ e.kind # "entry"
    PROVE  Ordered(u \o <<e>>) /\ Below(u \o <<e>>, b + 1)
<1> DEFINE w == u \o <<e>>
<1>1. w \in Seq(Units) /\ Len(w) = Len(u) + 1 /\ Len(u) \in Nat /\ w[Len(u) + 1] = e
      /\ \A j \in 1..Len(u) : w[j] = u[j]
  OBVIOUS
<1> HIDE DEF w
<1>2. \A k \in Readable(w) : \/ k \in 1..Len(u) /\ k \in Readable(u) /\ w[k] = u[k]
                             \/ k = Len(u) + 1 /\ w[k].lsn = b
  <2> SUFFICES ASSUME NEW k \in Readable(w), k \notin 1..Len(u)
               PROVE  k = Len(u) + 1 /\ w[k].lsn = b
    BY <1>1, ReadsOfPrefix
  <2>1. k \in 1..Len(w) /\ w[k].kind = "entry"
    BY DEF Readable
  <2> QED
    BY <1>1, <2>1
<1>3. \A k \in Readable(u) : u[k].lsn < b /\ u[k].lsn \in Nat
  <2>1. \A k \in Readable(u) : k \in 1..Len(u)
    BY DEF Readable
  <2>2. \A k \in 1..Len(u) : u[k] \in Units
    OBVIOUS
  <2>3. \A k \in Readable(u) : u[k].lsn \in Nat
    BY <2>1, <2>2 DEF Units
  <2> QED
    BY <2>3 DEF Below
<1>4. Below(w, b + 1)
  BY <1>2, <1>3 DEF Below
<1>5. Ordered(w)
  <2> SUFFICES ASSUME NEW j \in Readable(w), NEW k \in Readable(w), j < k PROVE w[j].lsn < w[k].lsn
    BY DEF Ordered
  <2>0. j \in 1..Len(w) /\ k \in 1..Len(w)
    BY DEF Readable
  <2>1. CASE k = Len(u) + 1 /\ w[k].lsn = b
    <3>1. j \in 1..Len(u) /\ j \in Readable(u) /\ w[j] = u[j]
      BY <1>1, <1>2, <2>0, <2>1
    <3> QED
      BY <1>3, <2>1, <3>1
  <2>2. CASE k \in 1..Len(u) /\ k \in Readable(u) /\ w[k] = u[k]
    <3>1. j \in 1..Len(u) /\ j \in Readable(u) /\ w[j] = u[j]
      BY <1>1, <1>2, <2>0, <2>2
    <3> QED
      BY <2>2, <3>1 DEF Ordered
  <2> QED
    BY <1>2, <2>1, <2>2
<1> QED
  BY <1>4, <1>5 DEF w

(* Sets of naturals have a least element.                                  *)
LEMMA WalLeast ==
    ASSUME NEW T, T \subseteq Nat, T # {}
    PROVE  \E t \in T : \A k \in T : ~(k < t)
<1>1. PICK t \in T : ~ \E k \in T : <<k, t>> \in OpToRel(<, Nat)
  BY WFMin, NatLessThanWellFounded, Zenon
<1>2. \A k \in T : ~(k < t)
  BY <1>1, Zenon DEF OpToRel
<1> QED
  BY <1>2

(* The places of a file can be listed in order: were there a shortest file *)
(* with places that cannot, one without its last place could not either.   *)
ListsAll(S, f) == Ascending(f) /\ \A k \in S : \E i \in 1..Cardinality(S) : f[i] = k
LEMMA PlacesListed ==
    ASSUME NEW L \in Nat, NEW S \in SUBSET (1..L)
    PROVE  Cardinality(S) \in Nat /\ \E f \in [1..Cardinality(S) -> S] : ListsAll(S, f)
<1> DEFINE Lists(m) == \A P \in SUBSET (1..m) : \E f \in [1..Cardinality(P) -> P] : ListsAll(P, f)
           T == {m \in Nat : ~Lists(m)}
<1>0. \A m \in Nat : \A P \in SUBSET (1..m) : IsFiniteSet(P) /\ Cardinality(P) \in Nat
  <2> SUFFICES ASSUME NEW m \in Nat, NEW P \in SUBSET (1..m) PROVE IsFiniteSet(P) /\ Cardinality(P) \in Nat
    OBVIOUS
  <2>1. IsFiniteSet(1..m)
    BY FS_Interval
  <2> QED
    BY <2>1, FS_Subset, FS_CardinalityType
<1>1. ASSUME T # {} PROVE FALSE
  <2>1. PICK m \in T : \A k \in T : ~(k < m)
    <3> HIDE DEF Lists
    <3>1. T \subseteq Nat
      OBVIOUS
    <3> HIDE DEF T
    <3> QED
      BY <1>1, <3>1, WalLeast, Zenon
  <2>2. m \in Nat /\ ~Lists(m)
    <3> HIDE DEF Lists
    <3> QED
      BY <2>1
  <2>3. m # 0
    <3> SUFFICES ASSUME m = 0 PROVE FALSE
      OBVIOUS
    <3>1. \A P \in SUBSET (1..m) : P = {}
      OBVIOUS
    <3>2. Cardinality({}) = 0 /\ 1..0 = {}
      BY FS_EmptySet
    <3>3. \E f \in [{} -> {}] : TRUE
      <4>1. [x \in {} |-> x] \in [{} -> {}]
        OBVIOUS
      <4> QED
        BY <4>1
    <3>4. \A f \in [{} -> {}] : ListsAll({}, f)
      BY DEF ListsAll, Ascending
    <3>5. \E f \in [1..Cardinality({}) -> {}] : ListsAll({}, f)
      BY <3>2, <3>3, <3>4
    <3>6. Lists(m)
      BY <3>1, <3>5
    <3> QED
      BY <2>2, <3>6
  <2>4. Lists(m - 1)
    <3>1. m - 1 \in Nat /\ m - 1 < m
      BY <2>2, <2>3
    <3> HIDE DEF Lists
    <3> QED
      BY <2>1, <3>1
  <2>5. ASSUME NEW P \in SUBSET (1..m) PROVE \E f \in [1..Cardinality(P) -> P] : ListsAll(P, f)
    <3>1. CASE m \notin P
      <4>1. P \in SUBSET (1..m - 1)
        BY <2>2, <3>1
      <4> QED
        BY <2>4, <4>1
    <3>2. CASE m \in P
      <4> DEFINE Q == P \ {m}
                 n == Cardinality(Q)
      <4>1. Q \in SUBSET (1..m - 1)
        BY <2>2
      <4>2. PICK f \in [1..n -> Q] : ListsAll(Q, f)
        BY <2>4, <4>1
      <4>3. n \in Nat /\ Cardinality(P) = n + 1
        <5>1. IsFiniteSet(Q) /\ n \in Nat /\ m \notin Q /\ P = Q \cup {m}
          BY <1>0, <2>2, <2>3, <3>2
        <5> QED
          BY <5>1, FS_AddElement
      <4> HIDE DEF Q, n
      <4> DEFINE g == [i \in 1..n + 1 |-> IF i = n + 1 THEN m ELSE f[i]]
      <4>4. g \in [1..n + 1 -> P]
        <5>1. \A i \in 1..n + 1 : i # n + 1 => i \in 1..n
          BY <4>3
        <5>2. Q \subseteq P
          BY DEF Q
        <5> QED
          BY <3>2, <5>1, <5>2
      <4>5. \A i \in 1..n : f[i] < m /\ f[i] \in Nat
        <5>1. \A i \in 1..n : f[i] \in Q
          OBVIOUS
        <5>2. \A q \in Q : q < m /\ q \in Nat
          BY <2>2, <4>1
        <5> QED
          BY <5>1, <5>2
      <4>6. Ascending(g)
        <5>1. \A i, j \in 1..n : i < j => f[i] < f[j]
          BY <4>2 DEF ListsAll, Ascending
        <5> SUFFICES ASSUME NEW i \in 1..n + 1, NEW j \in 1..n + 1, i < j PROVE g[i] < g[j]
          BY DEF Ascending
        <5>2. i \in 1..n
          BY <4>3
        <5>3. CASE j = n + 1
          BY <4>3, <4>5, <5>2, <5>3
        <5>4. CASE j # n + 1
          <6>1. j \in 1..n
            BY <4>3, <5>4
          <6> QED
            BY <5>1, <5>2, <6>1, <4>3
        <5> QED
          BY <5>3, <5>4
      <4>7. \A k \in P : \E i \in 1..n + 1 : g[i] = k
        <5> SUFFICES ASSUME NEW k \in P PROVE \E i \in 1..n + 1 : g[i] = k
          OBVIOUS
        <5>1. CASE k = m
          <6>1. n + 1 \in 1..n + 1 /\ g[n + 1] = m
            BY <4>3
          <6> QED
            BY <5>1, <6>1
        <5>2. CASE k # m
          <6>1. PICK i \in 1..n : f[i] = k
            BY <4>2, <5>2 DEF ListsAll, Q, n
          <6>2. i \in 1..n + 1 /\ i # n + 1
            BY <4>3
          <6> QED
            BY <6>1, <6>2
        <5> QED
          BY <5>1, <5>2
      <4> HIDE DEF g
      <4> QED
        BY <4>3, <4>4, <4>6, <4>7 DEF ListsAll
    <3> QED
      BY <3>1, <3>2
  <2> QED
    BY <2>2, <2>5
<1> QED
  BY <1>0, <1>1

(* What a truncation keeps: every entry it is asked to keep, in the order  *)
(* of the file, and nothing else.                                          *)
LEMMA FileOrderKept ==
    ASSUME NEW u \in Seq(Units), NEW P \in SUBSET (1..Len(u))
    PROVE  /\ InFileOrder(u, P) \in Seq(Units)
           /\ \E f \in [1..Len(InFileOrder(u, P)) -> P] :
                /\ Ascending(f)
                /\ \A i \in 1..Len(InFileOrder(u, P)) : InFileOrder(u, P)[i] = u[f[i]]
                /\ \A k \in P : \E i \in 1..Len(InFileOrder(u, P)) : f[i] = k
<1> DEFINE n == Cardinality(P)
           at == CHOOSE f \in [1..n -> P] : Ascending(f) /\ \A k \in P : \E i \in 1..n : f[i] = k
<1>1. n \in Nat /\ \E f \in [1..n -> P] : ListsAll(P, f)
  <2>1. Len(u) \in Nat
    OBVIOUS
  <2> QED
    BY <2>1, PlacesListed
<1>2. at \in [1..n -> P] /\ Ascending(at) /\ \A k \in P : \E i \in 1..n : at[i] = k
  BY <1>1, Zenon DEF ListsAll
<1>3. InFileOrder(u, P) = [i \in 1..n |-> u[at[i]]]
  BY DEF InFileOrder
<1> HIDE DEF at, n
<1>4. \A i \in 1..n : u[at[i]] \in Units
  <2>1. \A i \in 1..n : at[i] \in 1..Len(u)
    BY <1>2
  <2>2. \A k \in 1..Len(u) : u[k] \in Units
    OBVIOUS
  <2> QED
    BY <2>1, <2>2
<1>5. InFileOrder(u, P) \in Seq(Units) /\ Len(InFileOrder(u, P)) = n
  <2>1. InFileOrder(u, P) \in [1..n -> Units]
    BY <1>3, <1>4
  <2> HIDE <1>3
  <2> QED
    BY <1>1, <2>1
<1>6. \A i \in 1..n : InFileOrder(u, P)[i] = u[at[i]]
  BY <1>3
<1> HIDE <1>3
<1> QED
  BY <1>2, <1>5, <1>6

(* The highest number the reader finds, where numbers are bounded.         *)
LEMMA MaxLsnIsHighest ==
    ASSUME NEW u \in Seq(Units), NEW b \in Nat, Below(u, b + 1)
    PROVE  /\ MaxLsn(u) \in Nat /\ MaxLsn(u) <= b
           /\ Below(u, MaxLsn(u) + 1)
<1> DEFINE S == {e.lsn : e \in EntriesOf(u)} \cup {0}
           T == {b - x : x \in S}
<1>1. \A k \in Readable(u) : u[k].lsn \in Nat /\ u[k].lsn <= b
  <2>1. \A k \in Readable(u) : k \in 1..Len(u)
    BY DEF Readable
  <2>2. \A k \in 1..Len(u) : u[k] \in Units
    OBVIOUS
  <2>3. \A k \in Readable(u) : u[k].lsn \in Nat
    BY <2>1, <2>2 DEF Units
  <2> QED
    BY <2>3 DEF Below
<1>2. \A x \in S : x \in Nat /\ x <= b
  BY <1>1 DEF EntriesOf
<1>3. T \subseteq Nat /\ T # {}
  <2> HIDE DEF S
  <2>1. \A x \in S : b - x \in Nat
    BY <1>2
  <2>2. 0 \in S
    BY DEF S
  <2> QED
    BY <2>1, <2>2
<1>4. PICK t \in T : \A k \in T : ~(k < t)
  <2> HIDE DEF T
  <2> QED
    BY <1>3, WalLeast, Zenon
<1>5. PICK x \in S : t = b - x
  <2> HIDE DEF S
  <2> QED
    BY <1>4
<1>6. \A y \in S : x >= y
  <2> HIDE DEF S
  <2> SUFFICES ASSUME NEW y \in S PROVE x >= y
    OBVIOUS
  <2>1. b - y \in T
    OBVIOUS
  <2>2. ~(b - y < b - x)
    BY <1>4, <1>5, <2>1
  <2> QED
    BY <1>2, <2>2
<1> HIDE DEF S
<1>7. MaxLsn(u) = Max(S)
  BY DEF MaxLsn, S
<1>8. Max(S) \in S /\ \A y \in S : Max(S) >= y
  BY <1>6 DEF Max
<1>9. \A k \in Readable(u) : u[k].lsn \in S
  BY DEF S, EntriesOf
<1> QED
  BY <1>1, <1>2, <1>7, <1>8, <1>9 DEF Below

LEMMA EntriesGrow ==
    ASSUME NEW u \in Seq(Units), NEW w \in Seq(Units), Len(u) <= Len(w), \A j \in 1..Len(u) : w[j] = u[j]
    PROVE  EntriesOf(u) \subseteq EntriesOf(w)
<1>1. Len(u) \in Nat
  OBVIOUS
<1>2. \A k \in Readable(u) : k \in 1..Len(u)
  BY DEF Readable
<1>3. \A k \in Readable(u) : k \in Readable(w) /\ w[k] = u[k]
  BY <1>1, <1>2, ReadsOfPrefix
<1> QED
  BY <1>3 DEF EntriesOf

LEMMA BelowMore ==
    ASSUME NEW u \in Seq(Units), NEW b \in Nat, NEW c \in Nat, b <= c, Below(u, b)
    PROVE  Below(u, c)
<1>1. \A k \in Readable(u) : k \in 1..Len(u)
  BY DEF Readable
<1>2. \A k \in 1..Len(u) : u[k] \in Units
  OBVIOUS
<1>3. \A k \in Readable(u) : u[k].lsn \in Nat
  BY <1>1, <1>2 DEF Units
<1> QED
  BY <1>3 DEF Below

-----------------------------------------------------------------------------
(* Each action keeps the invariant.                                        *)

LEMMA WalInitInv == WalInit => WalInv
<1> SUFFICES ASSUME WalInit PROVE WalInv
  OBVIOUS
<1>1. walFile = <<>> /\ walBuffer = <<>> /\ currentLsn = 1 /\ appends = 0 /\ walAcked = {}
      /\ walWriter = "open" /\ walStep = NotTruncating /\ syncMode \in {"Sync", "BatchSync"}
  BY DEF WalInit
<1>2. walFile \o walBuffer = <<>> /\ Readable(<<>>) = {}
  BY <1>1 DEF Readable
<1>3. WalTypes
  BY <1>1 DEF WalTypes, NotTruncating
<1>4. WalShape
  BY <1>1 DEF WalShape, NotTruncating
<1>5. WalOnward
  BY <1>1, <1>2 DEF WalOnward, Ordered, Below
<1> QED
  BY <1>1, <1>3, <1>4, <1>5 DEF WalInv, AckedIsRead

(* The three outcomes of an append.                                        *)
LEMMA TakeNumberInv ==
    ASSUME WalInv, UNCHANGED syncMode, walWriter # "down", NEW put, NEW acks, TakeNumber(put, acks),
           \/ put = <<>> /\ acks = {}
           \/ \E e \in Units :
                /\ put = <<e>> /\ walWriter = "open"
                /\ e.lsn = currentLsn \/ e.kind # "entry"
                /\ acks = {} \/ (acks = {e} /\ e.kind = "entry" /\ syncMode = "Sync")
    PROVE  WalInv'
<1> DEFINE all == walFile \o walBuffer
<1> USE DEF WalInv
<1>1. /\ appends' = appends + 1 /\ currentLsn' = currentLsn + 1
      /\ walStep = NotTruncating /\ UNCHANGED <<walTemp, walWriter, walStep>>
      /\ walAcked' = walAcked \cup (IF Clean(walFile) THEN acks ELSE {})
  BY DEF TakeNumber, Idling
<1>2. put \in Seq(Units) /\ all \in Seq(Units)
  <2>1. \A e \in Units : <<e>> \in Seq(Units)
    OBVIOUS
  <2>2. <<>> \in Seq(Units)
    OBVIOUS
  <2>3. put \in Seq(Units)
    BY <2>1, <2>2
  <2>4. all \in Seq(Units)
    BY DEF WalTypes
  <2> QED
    BY <2>3, <2>4
<1>3. /\ walFile' \in Seq(Units) /\ walBuffer' \in Seq(Units)
      /\ walFile' \o walBuffer' = all \o put
      /\ syncMode = "Sync" => walBuffer' = <<>> /\ walFile' = all \o put
      /\ syncMode # "Sync" => walFile' = walFile /\ walBuffer' = walBuffer \o put
      /\ walBuffer = <<>> /\ put = <<>> => walBuffer' = <<>>
  <2>1. CASE syncMode = "Sync"
    <3>1. walFile' = walFile \o walBuffer \o put /\ walBuffer' = <<>>
      BY <2>1 DEF TakeNumber
    <3> QED
      BY <1>2, <2>1, <3>1 DEF WalTypes
  <2>2. CASE syncMode # "Sync"
    <3>1. walFile' = walFile /\ walBuffer' = walBuffer \o put
      BY <2>2 DEF TakeNumber
    <3>2. walFile \o (walBuffer \o put) = all \o put
      BY <1>2, ConcatAssociative DEF WalTypes
    <3> QED
      BY <1>2, <2>2, <3>1, <3>2 DEF WalTypes
  <2> QED
    BY <2>1, <2>2
<1>4. WalTypes'
  BY <1>1, <1>3 DEF WalTypes
<1>5. WalShape'
  <2>1. put # <<>> => walWriter = "open"
    OBVIOUS
  <2>2. walStep'.at # "rename"
    BY <1>1 DEF NotTruncating
  <2> QED
    BY <1>1, <1>3, <2>1, <2>2 DEF WalShape
<1>6. Ordered(all \o put) /\ Below(all \o put, currentLsn + 1)
  <2>0. Ordered(all) /\ Below(all, currentLsn) /\ currentLsn \in Nat
    BY DEF WalOnward, WalTypes
  <2>1. CASE put = <<>>
    <3>1. all \o put = all
      BY <1>2, <2>1
    <3> HIDE DEF all
    <3>2. currentLsn <= currentLsn + 1 /\ currentLsn + 1 \in Nat
      BY <2>0
    <3>3. Below(all, currentLsn + 1)
      BY <1>2, <2>0, <3>2, BelowMore
    <3> QED
      BY <2>0, <3>1, <3>3
  <2>2. ASSUME NEW e \in Units, put = <<e>>, e.lsn = currentLsn \/ e.kind # "entry"
        PROVE  Ordered(all \o put) /\ Below(all \o put, currentLsn + 1)
    <3> HIDE DEF all
    <3> QED
      BY <1>2, <2>0, <2>2, AppendKeepsOrder
  <2> QED
    BY <2>1, <2>2
<1>7. WalOnward'
  <2>1. currentLsn \in Nat /\ appends \in Nat /\ currentLsn <= appends + 1
    BY DEF WalOnward, WalTypes
  <2>2. Below(all \o put, appends + 1 + 1)
    <3> HIDE DEF all
    <3>1. all \o put \in Seq(Units)
      BY <1>2
    <3>2. currentLsn + 1 \in Nat /\ appends + 1 + 1 \in Nat /\ currentLsn + 1 <= appends + 1 + 1
      BY <2>1
    <3> QED
      BY <1>6, <3>1, <3>2, BelowMore
  <2> HIDE DEF all
  <2> QED
    BY <1>1, <1>3, <1>6, <2>1, <2>2 DEF WalOnward
<1>8. AckedIsRead'
  <2>1. Len(walFile) <= Len(walFile') /\ \A j \in 1..Len(walFile) : walFile'[j] = walFile[j]
    <3>1. CASE syncMode = "Sync"
      <4> DEFINE more == put
      <4>1. walFile \in Seq(Units) /\ walBuffer = <<>> /\ all = walFile
        BY <3>1 DEF WalTypes, WalShape
      <4>2. walFile' = walFile \o more /\ more \in Seq(Units) /\ walFile \in Seq(Units)
        BY <1>2, <1>3, <3>1, <4>1
      <4> HIDE DEF more
      <4>3. Len(walFile') = Len(walFile) + Len(more) /\ Len(more) \in Nat /\ Len(walFile) \in Nat
        BY <4>2
      <4>4. \A j \in 1..Len(walFile) : walFile'[j] = walFile[j]
        BY <4>2
      <4> QED
        BY <4>3, <4>4
    <3>2. CASE syncMode # "Sync"
      BY <1>3, <3>2 DEF WalTypes
    <3> QED
      BY <3>1, <3>2
  <2>2. EntriesOf(walFile) \subseteq EntriesOf(walFile')
    BY <1>3, <2>1, EntriesGrow DEF WalTypes
  <2>3. ASSUME NEW e \in Units, put = <<e>>, e.kind = "entry", syncMode = "Sync", Clean(walFile)
        PROVE  e \in EntriesOf(walFile')
    <3>1. walFile' = walFile \o <<e>>
      BY <1>3, <2>3 DEF WalShape, WalTypes
    <3> DEFINE w == walFile \o <<e>>
    <3>2. w \in Seq(Units) /\ Len(w) = Len(walFile) + 1 /\ Len(walFile) \in Nat /\ w[Len(walFile) + 1] = e
          /\ \A j \in 1..Len(walFile) : w[j] = walFile[j] /\ walFile[j].kind = "entry"
      BY <2>3 DEF WalTypes, Clean
    <3> HIDE DEF w
    <3>3. Len(walFile) + 1 \in Readable(w)
      BY <2>3, <3>2, CleanIsRead
    <3> QED
      BY <3>1, <3>2, <3>3 DEF EntriesOf, w
  <2>4. walAcked' \subseteq EntriesOf(walFile')
    <3>1. CASE Clean(walFile) /\ acks # {}
      <4>1. PICK e \in Units : put = <<e>> /\ acks = {e} /\ e.kind = "entry" /\ syncMode = "Sync"
        BY <3>1
      <4> QED
        BY <1>1, <2>2, <2>3, <3>1, <4>1 DEF AckedIsRead
    <3>2. CASE ~(Clean(walFile) /\ acks # {})
      BY <1>1, <2>2, <3>2 DEF AckedIsRead
    <3> QED
      BY <3>1, <3>2
  <2> QED
    BY <2>4 DEF AckedIsRead
<1> QED
  BY <1>4, <1>5, <1>7, <1>8

(* Everything buffered reaches the file.                                   *)
LEMMA SyncedInv ==
    ASSUME WalInv, walStep = NotTruncating, Synced, walWriter' \in {"open", "down"},
           UNCHANGED <<syncMode, walTemp, currentLsn, walStep, appends>>, walWriter = "open"
    PROVE  WalInv'
<1> DEFINE all == walFile \o walBuffer
<1> USE DEF WalInv
<1>1. all \in Seq(Units) /\ walFile \in Seq(Units) /\ walBuffer \in Seq(Units)
  BY DEF WalTypes
<1>2. walFile' = all /\ walBuffer' = <<>> /\ walFile' \o walBuffer' = all
  BY <1>1 DEF Synced
<1>3. WalTypes'
  BY <1>1, <1>2 DEF WalTypes
<1>4. WalShape'
  BY <1>2 DEF WalShape, NotTruncating
<1>5. WalOnward'
  BY <1>2 DEF WalOnward
<1>6. AckedIsRead'
  <2>1. Len(all) = Len(walFile) + Len(walBuffer) /\ Len(walFile) \in Nat /\ Len(walBuffer) \in Nat
        /\ (\A j \in 1..Len(walFile) : all[j] = walFile[j])
        /\ (\A j \in 1..Len(walBuffer) : all[Len(walFile) + j] = walBuffer[j])
    BY <1>1
  <2> HIDE DEF all
  <2>2. EntriesOf(walFile) \subseteq EntriesOf(all)
    <3>1. Len(walFile) <= Len(all)
      BY <2>1
    <3> QED
      BY <1>1, <2>1, <3>1, EntriesGrow
  <2>3. ASSUME NEW k \in DOMAIN walBuffer, Clean(walFile), Clean(SubSeq(walBuffer, 1, k))
        PROVE  walBuffer[k] \in EntriesOf(all)
    <3>1. k \in 1..Len(walBuffer)
      BY <1>1
    <3>2. \A j \in 1..k : walBuffer[j].kind = "entry"
      <4>1. SubSeq(walBuffer, 1, k) = [j \in 1..k |-> walBuffer[j]]
        BY <1>1, <3>1
      <4>2. \A j \in 1..k : SubSeq(walBuffer, 1, k)[j] = walBuffer[j] /\ j \in DOMAIN SubSeq(walBuffer, 1, k)
        BY <3>1, <4>1
      <4> QED
        BY <2>3, <4>2 DEF Clean
    <3>3. \A j \in 1..Len(walFile) : walFile[j].kind = "entry"
      BY <1>1, <2>3 DEF Clean
    <3>4. Len(walFile) + k \in 1..Len(all)
      BY <2>1, <3>1
    <3>5. \A j \in 1..Len(walFile) + k : all[j].kind = "entry"
      <4> SUFFICES ASSUME NEW j \in 1..Len(walFile) + k PROVE all[j].kind = "entry"
        OBVIOUS
      <4>1. CASE j <= Len(walFile)
        <5>1. j \in 1..Len(walFile)
          BY <2>1, <4>1
        <5> QED
          BY <2>1, <3>3, <5>1
      <4>2. CASE ~(j <= Len(walFile))
        <5>1. j - Len(walFile) \in 1..k /\ j - Len(walFile) \in 1..Len(walBuffer)
              /\ Len(walFile) + (j - Len(walFile)) = j
          BY <2>1, <3>1, <4>2
        <5> QED
          BY <2>1, <3>2, <5>1
      <4> QED
        BY <4>1, <4>2
    <3>6. Len(walFile) + k \in Readable(all)
      BY <1>1, <3>4, <3>5, CleanIsRead
    <3> QED
      BY <2>1, <3>1, <3>6 DEF EntriesOf
  <2>4. walAcked' \subseteq EntriesOf(all)
    BY <2>2, <2>3 DEF AckedIsRead, Synced
  <2> QED
    BY <1>2, <2>4 DEF AckedIsRead, all
<1> QED
  BY <1>3, <1>4, <1>5, <1>6

(* What is added behind a file leaves its units in place.                  *)
LEMMA FrontKept ==
    ASSUME NEW f \in Seq(Units), NEW t \in Seq(Units)
    PROVE  /\ f \o t \in Seq(Units) /\ Len(f \o t) = Len(f) + Len(t)
           /\ \A j \in 1..Len(f) : (f \o t)[j] = f[j]
  BY ConcatProperties

LEMMA WalCrashInv ==
    ASSUME WalInv, UNCHANGED syncMode, WalCrash
    PROVE  WalInv'
<1> DEFINE all == walFile \o walBuffer
<1> USE DEF WalInv
<1>1. PICK n \in 0..Len(walBuffer), torn \in {<<>>, <<Torn("cut")>>, <<Torn("magic")>>} :
         walFile' = walFile \o SubSeq(walBuffer, 1, n) \o torn
  BY DEF WalCrash
<1>2. walBuffer' = <<>> /\ walWriter' = "down" /\ walStep' = NotTruncating
      /\ UNCHANGED <<walTemp, currentLsn, appends, walAcked>>
  BY DEF WalCrash
<1>3. all \in Seq(Units) /\ walFile \in Seq(Units) /\ walBuffer \in Seq(Units)
      /\ Len(walFile) \in Nat /\ Len(walBuffer) \in Nat /\ n \in Nat /\ n <= Len(walBuffer)
      /\ Len(all) = Len(walFile) + Len(walBuffer)
  BY DEF WalTypes
<1>4. torn \in Seq(Units) /\ \A j \in 1..Len(torn) : torn[j].kind # "entry"
  <2>1. CASE torn = <<>>
    BY <2>1
  <2>2. ASSUME NEW k \in {"cut", "magic"}, torn = <<Torn(k)>>
        PROVE  torn \in Seq(Units) /\ \A j \in 1..Len(torn) : torn[j].kind # "entry"
    <3> DEFINE e == Torn(k)
    <3>1. e \in Units /\ e.kind # "entry" /\ torn = <<e>>
      BY <2>2 DEF Torn, Units
    <3> HIDE DEF e
    <3> QED
      BY <3>1
  <2> QED
    BY <2>1, <2>2
<1> DEFINE part == SubSeq(walBuffer, 1, n)
           front == walFile \o part
<1>5. part \in Seq(Units) /\ Len(part) = n /\ \A j \in 1..n : part[j] = walBuffer[j]
  <2>1. \A j \in 1..n : walBuffer[j] \in Units
    BY <1>3
  <2>2. part = [j \in 1..n |-> walBuffer[j]]
    BY <1>3
  <2>3. part \in [1..n -> Units]
    BY <2>1, <2>2
  <2>4. \A j \in 1..n : part[j] = walBuffer[j]
    BY <2>2
  <2> HIDE DEF part
  <2> QED
    BY <1>3, <2>3, <2>4
<1> HIDE DEF part
<1>6. front \in Seq(Units) /\ Len(front) = Len(walFile) + n
      /\ (\A j \in 1..Len(walFile) : front[j] = walFile[j] /\ all[j] = walFile[j])
      /\ (\A j \in Len(walFile) + 1..Len(walFile) + n : front[j] = all[j])
  <2>1. front \in Seq(Units) /\ Len(front) = Len(walFile) + n
    BY <1>3, <1>5, ConcatProperties
  <2>2. \A j \in 1..Len(walFile) : front[j] = walFile[j] /\ all[j] = walFile[j]
    BY <1>3, <1>5
  <2>3. ASSUME NEW j \in Len(walFile) + 1..Len(walFile) + n PROVE front[j] = all[j]
    <3>1. front[j] = part[j - Len(walFile)] /\ j - Len(walFile) \in 1..n
      BY <1>3, <1>5
    <3>2. all[j] = walBuffer[j - Len(walFile)]
      BY <1>3
    <3> QED
      BY <1>5, <3>1, <3>2
  <2> QED
    BY <2>1, <2>2, <2>3
<1> HIDE DEF front
<1> DEFINE m == Len(walFile) + n
<1>7. walFile' = front \o torn /\ walFile' \in Seq(Units) /\ Len(walFile') = m + Len(torn) /\ Len(torn) \in Nat
      /\ m \in Nat /\ m <= Len(all) /\ m <= Len(walFile') /\ Len(walFile) <= Len(walFile')
      /\ (\A j \in 1..m : walFile'[j] = front[j])
  <2>1. walFile' = front \o torn
    BY <1>1 DEF front, part
  <2>2. /\ front \o torn \in Seq(Units) /\ Len(front \o torn) = Len(front) + Len(torn)
        /\ \A j \in 1..Len(front) : (front \o torn)[j] = front[j]
    BY <1>4, <1>6, FrontKept
  <2>3. walFile' \in Seq(Units) /\ Len(walFile') = m + Len(torn) /\ \A j \in 1..m : walFile'[j] = front[j]
    BY <1>6, <2>1, <2>2
  <2>4. Len(torn) \in Nat
    BY <1>4, LenProperties
  <2> QED
    BY <1>3, <2>1, <2>3, <2>4
<1>8. \A j \in 1..m : walFile'[j] = all[j]
  <2> SUFFICES ASSUME NEW j \in 1..m PROVE front[j] = all[j]
    BY <1>7
  <2>1. j \in 1..Len(walFile) \/ j \in Len(walFile) + 1..Len(walFile) + n
    BY <1>3
  <2> QED
    BY <1>6, <2>1
<1>9. \A j \in m + 1..Len(walFile') : walFile'[j].kind # "entry"
  <2> SUFFICES ASSUME NEW j \in m + 1..Len(walFile') PROVE walFile'[j].kind # "entry"
    OBVIOUS
  <2>1. walFile'[j] = torn[j - m] /\ j - m \in 1..Len(torn)
    BY <1>4, <1>6, <1>7
  <2> QED
    BY <1>4, <2>1
<1>10. \A j \in 1..Len(walFile) : walFile'[j] = walFile[j]
  <2>1. \A j \in 1..Len(walFile) : j \in 1..m
    BY <1>3
  <2> QED
    BY <1>6, <1>8, <2>1
<1> HIDE DEF all, m
<1>11. Ordered(all) /\ Below(all, appends + 1) /\ appends + 1 \in Nat /\ appends \in Nat /\ currentLsn <= appends + 1
  BY DEF WalOnward, WalTypes, all
<1>12. Ordered(walFile') /\ Below(walFile', appends + 1)
  BY <1>3, <1>7, <1>8, <1>9, <1>11, CutKeepsOrder
<1>13. walFile' \o walBuffer' = walFile'
  BY <1>2, <1>7
<1>14. WalOnward'
  BY <1>2, <1>11, <1>12, <1>13 DEF WalOnward
<1>15. AckedIsRead'
  BY <1>2, <1>3, <1>7, <1>10, EntriesGrow DEF AckedIsRead
<1>16. WalTypes'
  BY <1>2, <1>7 DEF WalTypes, NotTruncating
<1>17. WalShape'
  BY <1>2 DEF WalShape, NotTruncating
<1> QED
  BY <1>14, <1>15, <1>16, <1>17

LEMMA OpenInv ==
    ASSUME WalInv, UNCHANGED syncMode, Open
    PROVE  WalInv'
<1> USE DEF WalInv
<1>1. walFile \in Seq(Units) /\ walBuffer = <<>> /\ walFile \o walBuffer = walFile
      /\ appends \in Nat /\ Below(walFile, appends + 1) /\ Ordered(walFile)
  BY DEF Open, WalShape, WalTypes, WalOnward
<1>2. currentLsn' = MaxLsn(walFile) + 1 /\ walWriter' = "open" /\ walWriter = "down"
      /\ UNCHANGED <<walFile, walBuffer, walStep, appends, walAcked>>
  BY DEF Open
<1>3. MaxLsn(walFile) \in Nat /\ MaxLsn(walFile) <= appends /\ Below(walFile, MaxLsn(walFile) + 1)
  BY <1>1, MaxLsnIsHighest
<1>4. WalTypes'
  BY <1>2, <1>3 DEF WalTypes
<1>5. WalShape'
  BY <1>1, <1>2 DEF WalShape, NotTruncating
<1>6. WalOnward'
  BY <1>1, <1>2, <1>3 DEF WalOnward
<1> QED
  BY <1>2, <1>4, <1>5, <1>6 DEF AckedIsRead

LEMMA TruncateBeginInv ==
    ASSUME WalInv, UNCHANGED syncMode, NEW lsn \in Nat, TruncateBegin(lsn)
    PROVE  WalInv'
<1> USE DEF WalInv
<1>1. walFile' = walFile \o walBuffer /\ walBuffer' = <<>> /\ walWriter' = "closed"
      /\ walStep' = [at |-> "temp", lsn |-> lsn] /\ UNCHANGED <<walTemp, currentLsn, appends, walAcked>>
      /\ walWriter # "down"
  BY DEF TruncateBegin
<1>2. walFile' \in Seq(Units) /\ walFile' \o walBuffer' = walFile \o walBuffer
  BY <1>1 DEF WalTypes
<1>3. WalTypes'
  BY <1>1, <1>2 DEF WalTypes
<1>4. WalShape'
  BY <1>1 DEF WalShape, NotTruncating
<1>5. WalOnward'
  BY <1>1, <1>2 DEF WalOnward
<1>6. AckedIsRead'
  <2>1. Len(walFile) <= Len(walFile') /\ \A j \in 1..Len(walFile) : walFile'[j] = walFile[j]
    BY <1>1 DEF WalTypes
  <2> QED
    BY <1>1, <1>2, <2>1, EntriesGrow DEF WalTypes, AckedIsRead
<1> QED
  BY <1>3, <1>4, <1>5, <1>6

(* What replaces the log is read from end to end, holds every entry that   *)
(* is to be kept, and has its numbers in order.                            *)
LEMMA TruncateRenameInv ==
    ASSUME WalInv, UNCHANGED syncMode, TruncateRename
    PROVE  WalInv'
<1> USE DEF WalInv
<1> DEFINE P == {k \in Readable(walFile) : walFile[k].lsn > walStep.lsn}
<1>1. /\ walFile' = walTemp /\ UNCHANGED <<walBuffer, currentLsn, walWriter, appends>>
      /\ walAcked' = {e \in walAcked : e.lsn > walStep.lsn}
      /\ walStep' = [walStep EXCEPT !.at = "reopen"] /\ walStep.at = "rename"
  BY DEF TruncateRename
<1>2. walWriter = "closed" /\ walBuffer = <<>> /\ walTemp = InFileOrder(walFile, P)
  BY <1>1 DEF WalShape, NotTruncating, EntriesAfter
<1>3. walFile \in Seq(Units) /\ P \in SUBSET (1..Len(walFile))
  BY DEF WalTypes, Readable
<1>4. walFile' \in Seq(Units)
  BY <1>1, <1>2, <1>3, FileOrderKept
<1>5. PICK f \in [1..Len(walFile') -> P] :
         /\ Ascending(f)
         /\ \A i \in 1..Len(walFile') : walFile'[i] = walFile[f[i]]
         /\ \A k \in P : \E i \in 1..Len(walFile') : f[i] = k
  <2> HIDE DEF P
  <2> QED
    BY <1>1, <1>2, <1>3, FileOrderKept
<1>6. \A k \in P : k \in Readable(walFile) /\ k \in 1..Len(walFile) /\ walFile[k].kind = "entry"
  BY DEF Readable
<1>7. \A k \in Readable(walFile) : walFile[k].lsn > walStep.lsn => k \in P
  OBVIOUS
<1> HIDE DEF P
<1>8. \A i \in 1..Len(walFile') : f[i] \in P /\ walFile'[i].kind = "entry"
  BY <1>5, <1>6
<1>9. Len(walFile') \in Nat
  BY <1>4
<1>10. \A i \in 1..Len(walFile') : i \in Readable(walFile')
  <2> SUFFICES ASSUME NEW i \in 1..Len(walFile') PROVE i \in Readable(walFile')
    OBVIOUS
  <2>1. \A j \in 1..i : walFile'[j].kind = "entry"
    BY <1>8, <1>9
  <2> QED
    BY <1>4, <2>1, CleanIsRead
<1>11. Ordered(walFile) /\ Below(walFile, currentLsn) /\ Below(walFile, appends + 1) /\ currentLsn <= appends + 1
  <2>1. walFile \o walBuffer = walFile
    BY <1>2, <1>3
  <2> QED
    BY <1>2, <2>1 DEF WalOnward
<1>12. \A i \in Readable(walFile') : i \in 1..Len(walFile')
  BY DEF Readable
<1>13. Ordered(walFile')
  <2> SUFFICES ASSUME NEW i \in 1..Len(walFile'), NEW j \in 1..Len(walFile'), i < j
               PROVE  walFile'[i].lsn < walFile'[j].lsn
    BY <1>12 DEF Ordered
  <2>1. f[i] < f[j]
    BY <1>5 DEF Ascending
  <2> QED
    BY <1>5, <1>6, <1>8, <1>11, <2>1 DEF Ordered
<1>14. Below(walFile', currentLsn) /\ Below(walFile', appends + 1)
  BY <1>5, <1>6, <1>8, <1>11, <1>12 DEF Below
<1>15. walFile' \o walBuffer' = walFile'
  BY <1>1, <1>2, <1>4
<1>16. WalOnward'
  BY <1>1, <1>11, <1>13, <1>14, <1>15 DEF WalOnward
<1>17. AckedIsRead'
  <2> SUFFICES ASSUME NEW e \in walAcked, e.lsn > walStep.lsn PROVE e \in EntriesOf(walFile')
    BY <1>1 DEF AckedIsRead
  <2>1. PICK k \in Readable(walFile) : e = walFile[k]
    BY DEF AckedIsRead, EntriesOf
  <2>2. PICK i \in 1..Len(walFile') : f[i] = k
    BY <1>5, <1>7, <2>1
  <2> QED
    BY <1>5, <1>10, <2>1, <2>2 DEF EntriesOf
<1>18. WalTypes'
  BY <1>1, <1>4 DEF WalTypes
<1>19. WalShape'
  BY <1>1, <1>2 DEF WalShape, WalTypes
<1> QED
  BY <1>16, <1>17, <1>18, <1>19

LEMMA WalNextInv == WalInv /\ [WalNext]_walVars => WalInv'
<1> SUFFICES ASSUME WalInv, [WalNext]_walVars PROVE WalInv'
  OBVIOUS
<1>1. CASE UNCHANGED walVars
  BY <1>1 DEF walVars, WalInv, WalTypes, WalShape, WalOnward, AckedIsRead
<1>2. CASE WalNext
  <2>0. UNCHANGED syncMode
    BY <1>2 DEF WalNext
  <2>1. CASE AppendEntry
    <3> DEFINE e == Whole(currentLsn, appends + 1)
    <3>1. e \in Units /\ e.lsn = currentLsn /\ e.kind = "entry"
      BY DEF WalInv, WalTypes, Units, Whole
    <3>2. walWriter = "open" /\ TakeNumber(<<e>>, IF syncMode = "Sync" THEN {e} ELSE {})
      BY <2>1 DEF AppendEntry
    <3> HIDE DEF e
    <3> QED
      BY <2>0, <3>1, <3>2, TakeNumberInv
  <2>2. CASE AppendFails
    <3>1. PICK k \in {"cut", "magic"} : TakeNumber(<<Torn(k)>>, {})
      BY <2>2 DEF AppendFails
    <3> DEFINE e == Torn(k)
    <3>2. e \in Units /\ e.kind # "entry" /\ TakeNumber(<<e>>, {})
      BY <3>1 DEF Torn, Units
    <3>3. walWriter = "open"
      BY <2>2 DEF AppendFails
    <3> HIDE DEF e
    <3> QED
      BY <2>0, <3>2, <3>3, TakeNumberInv
  <2>3. CASE AppendClosed
    BY <2>0, <2>3, TakeNumberInv DEF AppendClosed
  <2>4. CASE Flush
    BY <2>0, <2>4, SyncedInv DEF Flush, Idling
  <2>5. CASE Close
    BY <2>0, <2>5, SyncedInv DEF Close, Idling
  <2>6. CASE WalCrash
    BY <2>0, <2>6, WalCrashInv
  <2>7. CASE Open
    BY <2>0, <2>7, OpenInv
  <2>8. ASSUME NEW lsn \in 0..MaxAppends, TruncateBegin(lsn) PROVE WalInv'
    <3>1. lsn \in Nat
      BY WalAssumption
    <3> QED
      BY <2>0, <2>8, <3>1, TruncateBeginInv
  <2>9. CASE TruncateTemp
    BY <2>0, <2>9 DEF TruncateTemp, WalInv, WalTypes, WalShape, WalOnward, AckedIsRead, NotTruncating
  <2>10. CASE TruncateRename
    BY <2>0, <2>10, TruncateRenameInv
  <2>11. CASE TruncateReopen
    BY <2>0, <2>11 DEF TruncateReopen, WalInv, WalTypes, WalShape, WalOnward, AckedIsRead, NotTruncating
  <2>12. CASE TruncateFails
    BY <2>0, <2>12 DEF TruncateFails, WalInv, WalTypes, WalShape, WalOnward, AckedIsRead, NotTruncating
  <2> QED
    BY <1>2, <2>1, <2>2, <2>3, <2>4, <2>5, <2>6, <2>7, <2>8, <2>9, <2>10, <2>11, <2>12 DEF WalNext
<1> QED
  BY <1>1, <1>2

LEMMA WalInvSafe == WalInv => LogSafe
<1> SUFFICES ASSUME WalInv PROVE LogSafe
  OBVIOUS
<1> DEFINE all == walFile \o walBuffer
<1>1. all \in Seq(Units) /\ walFile \in Seq(Units) /\ Len(walFile) \in Nat /\ Len(walFile) <= Len(all)
      /\ \A j \in 1..Len(walFile) : walFile[j] = all[j]
  BY DEF WalInv, WalTypes
<1>2. Ordered(all)
  BY DEF WalInv, WalOnward
<1> HIDE DEF all
<1>3. \A j \in Len(walFile) + 1..Len(walFile) : walFile[j].kind # "entry"
  BY <1>1
<1>4. Ordered(walFile)
  BY <1>1, <1>2, <1>3, CutKeepsOrder
<1> QED
  BY <1>4 DEF WalInv, LogSafe, LsnsIncrease, Ordered

(* Through failed appends, crashes, truncations that stop at any step and  *)
(* reopenings, in any number, the log is read in the order of its numbers, *)
(* no number twice, and an acknowledged entry with nothing torn before it  *)
(* is read until a truncation asks for its removal.                        *)
THEOREM LogAlwaysSafe == WalSpec => []LogSafe
<1> QED
  BY WalInitInv, WalNextInv, WalInvSafe, PTL DEF WalSpec

-----------------------------------------------------------------------------
(* An index rebuild.  PrimaryServesAcked does not survive a swap by        *)
(* itself, nor ShadowFollows, which excuses what the primary lost, and     *)
(* neither says what a call that is half done has left where.              *)

Instances == 1..MaxIndices
Indices == [slot : Seq(RIds), ver : [RIds -> Nat]]
InsertCalls == [op : {"insert"}, id : RIds, ver : Nat, at : Instances, pre : BOOLEAN]
DeleteCalls == [op : {"delete"}, id : RIds, slot : Nat, at : Instances, missed : BOOLEAN]

RebuildTypes ==
    /\ heap \in [Instances -> Indices]
    /\ primary \in Instances /\ shadow \in {0} \cup Instances
    /\ writer \in [Writers -> {Idle} \cup InsertCalls \cup DeleteCalls]
    /\ writes \in Nat /\ acked \in [RIds -> Nat]

(* There is a shadow, apart from the primary, until the swap.              *)
RebuildPhases ==
    /\ ~rebuilding => rebuildState = "Idle"
    /\ rebuildState \in {"Idle", "Preparing"} => shadow = 0
    /\ rebuildState \in {"Building", "Replaying"} => shadow # primary

(* One call at a time on an id.                                            *)
OneCallPerId ==
    \A w, x \in Writers :
        writer[w].op # "none" /\ writer[x].op # "none" /\ writer[w].id = writer[x].id => w = x

(* What a call that is half done has left behind: its id has its place in  *)
(* the index it captured, which is not the next primary; while it still is *)
(* the primary, it shows the inserted version or the one to be deleted; a  *)
(* deletion that missed nothing is done in the shadow.                     *)
Pending(c) ==
    /\ c.op = "insert" => c.id \in Range(heap[c.at].slot)
    /\ c.op = "delete" => c.slot \in DOMAIN heap[c.at].slot /\ heap[c.at].slot[c.slot] = c.id
    /\ c.op # "none" /\ shadow # 0 /\ shadow # primary => c.at # shadow
    /\ c.op = "insert" /\ c.at = primary /\ c.id \notin lost => heap[primary].ver[c.id] = c.ver
    /\ c.op = "delete" /\ c.at = primary /\ c.id \notin lost => heap[primary].ver[c.id] = acked[c.id]
    /\ c.op = "delete" /\ ~c.missed /\ shadow # 0 => heap[shadow].ver[c.id] = 0

CallsPending == \A w \in Writers : Pending(writer[w])

(* The next primary has everything but what the code gave up in it,        *)
(* whatever the primary lost.                                              *)
ShadowReady ==
    shadow # 0 /\ shadow # primary =>
        \A i \in RIds \ (InFlightIds \cup stale) : heap[shadow].ver[i] = acked[i]

RebuildInv ==
    RebuildTypes /\ RebuildPhases /\ OneCallPerId /\ CallsPending /\ PrimaryServesAcked /\ ShadowReady

-----------------------------------------------------------------------------
(* The indices.                                                            *)

SlotsKept(old, new) ==
    DOMAIN old.slot \subseteq DOMAIN new.slot /\ \A n \in DOMAIN old.slot : new.slot[n] = old.slot[n]

LEMMA IndexInsertFacts ==
    ASSUME NEW ix \in Indices, NEW i \in RIds, NEW v \in Nat
    PROVE  /\ IndexInsert(ix, i, v) \in Indices
           /\ IndexInsert(ix, i, v).ver[i] = v
           /\ \A j \in RIds : j # i => IndexInsert(ix, i, v).ver[j] = ix.ver[j]
           /\ SlotsKept(ix, IndexInsert(ix, i, v))
           /\ i \in Range(IndexInsert(ix, i, v).slot)
<1> DEFINE s == IF i \in Range(ix.slot) THEN ix.slot ELSE Append(ix.slot, i)
           e == [ix.ver EXCEPT ![i] = v]
<1>1. ix.slot \in Seq(RIds) /\ ix.ver \in [RIds -> Nat]
  BY DEF Indices
<1>2. s \in Seq(RIds) /\ DOMAIN ix.slot \subseteq DOMAIN s /\ \A n \in DOMAIN ix.slot : s[n] = ix.slot[n]
  BY <1>1
<1>3. i \in Range(s)
  <2>1. CASE i \notin Range(ix.slot)
    <3>1. s = Append(ix.slot, i)
      BY <2>1
    <3>2. Len(ix.slot) + 1 \in DOMAIN s /\ s[Len(ix.slot) + 1] = i
      BY <1>1, <3>1
    <3> QED
      BY <3>2 DEF Range
  <2> QED
    BY <2>1
<1>4. e \in [RIds -> Nat] /\ e[i] = v /\ \A j \in RIds : j # i => e[j] = ix.ver[j]
  BY <1>1
<1>5. IndexInsert(ix, i, v) = [slot |-> s, ver |-> e]
  BY DEF IndexInsert
<1> HIDE DEF s, e
<1> QED
  BY <1>2, <1>3, <1>4, <1>5 DEF Indices, SlotsKept

LEMMA IndexDeleteFacts ==
    ASSUME NEW ix \in Indices, NEW n \in Nat
    PROVE  /\ IndexDelete(ix, n) \in Indices
           /\ IndexDelete(ix, n).slot = ix.slot
           /\ \A j \in RIds : \/ IndexDelete(ix, n).ver[j] = ix.ver[j]
                              \/ n \in DOMAIN ix.slot /\ j = ix.slot[n]
           /\ \A j \in RIds : n \in DOMAIN ix.slot /\ j = ix.slot[n] => IndexDelete(ix, n).ver[j] = 0
<1>1. ix.slot \in Seq(RIds) /\ ix.ver \in [RIds -> Nat] /\ ix = [slot |-> ix.slot, ver |-> ix.ver]
  BY DEF Indices
<1>2. CASE n \in DOMAIN ix.slot
  <2> DEFINE e == [ix.ver EXCEPT ![ix.slot[n]] = 0]
  <2>1. ix.slot[n] \in RIds
    BY <1>1, <1>2
  <2>2. e \in [RIds -> Nat] /\ e[ix.slot[n]] = 0 /\ \A j \in RIds : j # ix.slot[n] => e[j] = ix.ver[j]
    BY <1>1, <2>1
  <2>3. IndexDelete(ix, n) = [slot |-> ix.slot, ver |-> e]
    BY <1>1, <1>2 DEF IndexDelete, Indices
  <2> HIDE DEF e
  <2> QED
    BY <1>1, <1>2, <2>2, <2>3 DEF Indices
<1>3. CASE n \notin DOMAIN ix.slot
  BY <1>1, <1>3 DEF IndexDelete
<1> QED
  BY <1>2, <1>3

LEMMA SlotOfFacts ==
    ASSUME NEW ix \in Indices, NEW i \in Range(ix.slot)
    PROVE  SlotOf(ix, i) \in DOMAIN ix.slot /\ ix.slot[SlotOf(ix, i)] = i /\ SlotOf(ix, i) \in Nat
<1>1. \E n \in DOMAIN ix.slot : ix.slot[n] = i
  BY DEF Range
<1>2. SlotOf(ix, i) \in DOMAIN ix.slot /\ ix.slot[SlotOf(ix, i)] = i
  BY <1>1 DEF SlotOf
<1>3. DOMAIN ix.slot \subseteq Nat
  BY DEF Indices
<1> QED
  BY <1>2, <1>3

LEMMA CompactedFacts ==
    ASSUME NEW ix \in Indices
    PROVE  Compacted(ix) \in Indices /\ Compacted(ix).ver = ix.ver
<1> DEFINE S == {i \in Range(ix.slot) : ix.ver[i] # 0}
<1>1. S \subseteq RIds
  BY DEF Indices, Range
<1>2. IsFiniteSet(S) /\ Cardinality(S) \in Nat
  BY <1>1, FS_Subset, FS_CardinalityType, RebuildAssumption
<1>3. \E f \in [1..Cardinality(S) -> S] : IsInjective(f)
  <2>1. IsFiniteSet(1..Cardinality(S)) /\ Cardinality(1..Cardinality(S)) = Cardinality(S)
    BY <1>2, FS_Interval
  <2>2. ExistsBijection(1..Cardinality(S), S)
    BY <1>2, <2>1, FS_SameCardinalityBij
  <2>3. PICK f \in [1..Cardinality(S) -> S] : \A a, b \in 1..Cardinality(S) : f[a] = f[b] => a = b
    BY <2>2, Zenon DEF ExistsBijection, Bijection, Injection, IsInjective
  <2> QED
    BY <2>3 DEF IsInjective
<1>4. SetToSeq(S) \in [1..Cardinality(S) -> S]
  BY <1>3 DEF SetToSeq
<1>5. SetToSeq(S) \in [1..Cardinality(S) -> RIds]
  BY <1>1, <1>4
<1> DEFINE q == SetToSeq(S)
           n == Cardinality(S)
<1>6. q \in [1..n -> RIds] /\ n \in Nat
  BY <1>2, <1>5
<1>7. Compacted(ix) = [slot |-> q, ver |-> ix.ver]
  BY DEF Compacted
<1> HIDE DEF q, n
<1>8. q \in Seq(RIds)
  BY <1>6
<1> QED
  BY <1>7, <1>8 DEF Indices

-----------------------------------------------------------------------------
(* The writers' calls.                                                     *)

LEMMA InFlightMeans ==
    \A i : i \in InFlightIds <=> InFlight(i)
  BY DEF InFlightIds, InFlight

(* The same, of the call behind a step.                                    *)
LEMMA CallTyped ==
    ASSUME RebuildTypes, NEW w \in Writers, writer[w].op # "none"
    PROVE  /\ writer[w].id \in RIds /\ writer[w].at \in Instances
           /\ writer[w].op \in {"insert", "delete"}
           /\ writer[w].op = "insert" => writer[w] \in InsertCalls
           /\ writer[w].op = "delete" => writer[w] \in DeleteCalls
<1>1. writer[w] \in {Idle} \cup InsertCalls \cup DeleteCalls
  BY DEF RebuildTypes
<1>2. writer[w] # Idle
  BY DEF Idle
<1> QED
  BY <1>1, <1>2 DEF InsertCalls, DeleteCalls

(* A call that returns keeps the invariant when all it does to the indices *)
(* concerns its own id, but for what it reports as lost.                   *)
LEMMA AcknowledgeInv ==
    ASSUME RebuildInv,
           NEW w \in Writers, writer[w].op # "none",
           NEW v \in Nat, NEW missed \in BOOLEAN, NEW given,
           Acknowledge(w, v, missed, given),
           heap' \in [Instances -> Indices],
           \A n \in Instances : SlotsKept(heap[n], heap'[n]),
           \A i \in RIds \ {writer[w].id} : i \in lost => i \in given,
           \A i \in RIds \ ({writer[w].id} \cup given) : heap'[primary].ver[i] = heap[primary].ver[i],
           writer[w].at = primary /\ writer[w].id \notin given => heap'[primary].ver[writer[w].id] = v,
           shadow # 0 /\ shadow # primary =>
               /\ \A i \in RIds \ {writer[w].id} : heap'[shadow].ver[i] = heap[shadow].ver[i]
               /\ ~missed => heap'[shadow].ver[writer[w].id] = v,
           shadow # 0 =>
               \A i \in RIds \ {writer[w].id} : heap[shadow].ver[i] = 0 => heap'[shadow].ver[i] = 0
    PROVE  RebuildInv'
<1> DEFINE c == writer[w]
<1>0. RebuildTypes /\ RebuildPhases /\ OneCallPerId /\ CallsPending /\ PrimaryServesAcked /\ ShadowReady
  BY DEF RebuildInv
<1>1. c.id \in RIds
  BY <1>0, CallTyped
<1>2. /\ acked' = [acked EXCEPT ![c.id] = v]
      /\ lost' = given \cup (IF c.at # primary THEN {c.id} ELSE {})
      /\ stale' = IF missed THEN stale \cup {c.id} ELSE stale \ {c.id}
      /\ writer' = [writer EXCEPT ![w] = Idle]
      /\ primary' = primary /\ shadow' = shadow /\ rebuilding' = rebuilding
      /\ rebuildState' = rebuildState /\ writes' = writes
  BY DEF Acknowledge
<1>3. /\ writer'[w] = Idle /\ writer'[w].op = "none"
      /\ \A x \in Writers \ {w} : writer'[x] = writer[x]
      /\ acked'[c.id] = v /\ \A i \in RIds \ {c.id} : acked'[i] = acked[i]
  BY <1>0, <1>1, <1>2 DEF RebuildTypes, Idle
<1>4. \A x \in Writers \ {w} : writer[x].op # "none" => writer[x].id \in RIds \ {c.id}
  BY <1>0, CallTyped DEF OneCallPerId
<1>5. RebuildTypes'
  BY <1>0, <1>1, <1>2 DEF RebuildTypes
<1>6. RebuildPhases'
  BY <1>0, <1>2 DEF RebuildPhases
<1>7. OneCallPerId'
  BY <1>0, <1>3 DEF OneCallPerId
<1> HIDE DEF c
<1>8. CallsPending'
  <2> SUFFICES ASSUME NEW x \in Writers, writer'[x].op # "none"
               PROVE  LET d == writer'[x] IN
                      /\ d.op = "insert" => d.id \in Range(heap'[d.at].slot)
                      /\ d.op = "delete" => d.slot \in DOMAIN heap'[d.at].slot /\ heap'[d.at].slot[d.slot] = d.id
                      /\ d.op # "none" /\ shadow' # 0 /\ shadow' # primary' => d.at # shadow'
                      /\ d.op = "insert" /\ d.at = primary' /\ d.id \notin lost' => heap'[primary'].ver[d.id] = d.ver
                      /\ d.op = "delete" /\ d.at = primary' /\ d.id \notin lost' => heap'[primary'].ver[d.id] = acked'[d.id]
                      /\ d.op = "delete" /\ ~d.missed /\ shadow' # 0 => heap'[shadow'].ver[d.id] = 0
    BY DEF CallsPending, Pending
  <2> DEFINE d == writer[x]
  <2>1. x # w /\ writer'[x] = d /\ d.op # "none"
    BY <1>3
  <2>2. d.id \in RIds \ {c.id} /\ d.at \in Instances
    BY <1>0, <1>4, <2>1, CallTyped
  <2>3. /\ d.op = "insert" => d.id \in Range(heap[d.at].slot)
        /\ d.op = "delete" => d.slot \in DOMAIN heap[d.at].slot /\ heap[d.at].slot[d.slot] = d.id
        /\ d.op # "none" /\ shadow # 0 /\ shadow # primary => d.at # shadow
        /\ d.op = "insert" /\ d.at = primary /\ d.id \notin lost => heap[primary].ver[d.id] = d.ver
        /\ d.op = "delete" /\ d.at = primary /\ d.id \notin lost => heap[primary].ver[d.id] = acked[d.id]
        /\ d.op = "delete" /\ ~d.missed /\ shadow # 0 => heap[shadow].ver[d.id] = 0
    BY <1>0 DEF CallsPending, Pending
  <2> HIDE DEF d
  <2>4. d.op = "insert" => d.id \in Range(heap'[d.at].slot)
    BY <2>2, <2>3 DEF SlotsKept, Range
  <2>5. d.op = "delete" => d.slot \in DOMAIN heap'[d.at].slot /\ heap'[d.at].slot[d.slot] = d.id
    BY <2>2, <2>3 DEF SlotsKept
  <2>6. d.id \notin lost' => d.id \notin given /\ d.id \notin lost
    BY <1>2, <2>2 DEF c
  <2>7. d.id \notin lost' => heap'[primary].ver[d.id] = heap[primary].ver[d.id]
    BY <2>6, <2>2 DEF c
  <2>8. acked'[d.id] = acked[d.id]
    BY <1>3, <2>2
  <2>9. shadow # 0 /\ heap[shadow].ver[d.id] = 0 => heap'[shadow].ver[d.id] = 0
    BY <2>2 DEF c
  <2>10. primary' = primary /\ shadow' = shadow
    BY <1>2
  <2> QED
    BY <2>1, <2>3, <2>4, <2>5, <2>6, <2>7, <2>8, <2>9, <2>10
<1>9. \A i \in RIds \ {c.id} : i \notin InFlightIds' => i \notin InFlightIds
  BY <1>3, InFlightMeans DEF InFlightIds, InFlight, c
<1>10. PrimaryServesAcked'
  <2> SUFFICES ASSUME NEW i \in RIds, i \notin InFlightIds', i \notin lost'
               PROVE  heap'[primary'].ver[i] = acked'[i]
    BY DEF PrimaryServesAcked
  <2>1. CASE i = c.id
    BY <1>2, <1>3, <2>1 DEF c
  <2>2. CASE i # c.id
    <3>1. i \notin given /\ i \notin lost /\ i \notin InFlightIds
      BY <1>2, <1>9, <2>2 DEF c
    <3>2. heap[primary].ver[i] = acked[i]
      BY <1>0, <3>1 DEF PrimaryServesAcked
    <3> QED
      BY <1>2, <1>3, <2>2, <3>1, <3>2 DEF c
  <2> QED
    BY <2>1, <2>2
<1>11. ShadowReady'
  <2> SUFFICES ASSUME shadow # 0, shadow # primary,
                      NEW i \in RIds, i \notin InFlightIds', i \notin stale'
               PROVE  heap'[shadow].ver[i] = acked'[i]
    BY <1>2 DEF ShadowReady
  <2>1. CASE i = c.id
    BY <1>2, <1>3, <2>1 DEF c
  <2>2. CASE i # c.id
    <3>1. i \notin stale /\ i \notin InFlightIds
      BY <1>2, <1>9, <2>2 DEF c
    <3>2. heap[shadow].ver[i] = acked[i]
      BY <1>0, <3>1 DEF ShadowReady
    <3> QED
      BY <1>2, <1>3, <2>2, <3>1, <3>2 DEF c
  <2> QED
    BY <2>1, <2>2
<1> QED
  BY <1>5, <1>6, <1>7, <1>8, <1>10, <1>11 DEF RebuildInv

LEMMA SlotsKeptSelf ==
    ASSUME NEW ix PROVE SlotsKept(ix, ix)
  BY DEF SlotsKept

(* One index of the heap replaced.                                         *)
LEMMA HeapChanged ==
    ASSUME heap \in [Instances -> Indices], NEW k \in Instances, NEW ix \in Indices,
           SlotsKept(heap[k], ix), heap' = [heap EXCEPT ![k] = ix]
    PROVE  /\ heap' \in [Instances -> Indices]
           /\ \A n \in Instances : SlotsKept(heap[n], heap'[n])
           /\ heap'[k] = ix /\ \A n \in Instances \ {k} : heap'[n] = heap[n]
  BY SlotsKeptSelf

LEMMA InsertShadowInv ==
    ASSUME RebuildInv, NEW w \in Writers, InsertShadow(w)
    PROVE  RebuildInv'
<1> DEFINE c == writer[w]
<1>0. RebuildTypes /\ CallsPending
  BY DEF RebuildInv
<1>1. c.op = "insert" /\ c.op # "none" /\ Acknowledge(w, c.ver, FALSE, lost)
  BY DEF InsertShadow
<1>2. c.id \in RIds /\ c.ver \in Nat /\ c.at \in Instances
  BY <1>0, <1>1, CallTyped DEF InsertCalls
<1>3. c.at = primary /\ c.id \notin lost => heap[primary].ver[c.id] = c.ver
  BY <1>0, <1>1 DEF CallsPending, Pending
<1>4. heap \in [Instances -> Indices] /\ primary \in Instances /\ shadow \in {0} \cup Instances
  BY <1>0 DEF RebuildTypes
<1>5. CASE shadow = 0
  <2>1. heap' = heap
    BY <1>5 DEF InsertShadow
  <2>2. heap' \in [Instances -> Indices] /\ \A n \in Instances : SlotsKept(heap[n], heap'[n])
    BY <1>4, <2>1, SlotsKeptSelf
  <2> HIDE DEF c
  <2>3. c = writer[w]
    BY DEF c
  <2> QED
    BY <1>1, <1>2, <1>3, <1>5, <2>1, <2>2, <2>3, AcknowledgeInv
<1>6. CASE shadow # 0
  <2> DEFINE ix == IndexInsert(heap[shadow], c.id, c.ver)
  <2>1. shadow \in Instances /\ heap[shadow] \in Indices
    BY <1>4, <1>6
  <2>2. heap' = [heap EXCEPT ![shadow] = ix]
    BY <1>6 DEF InsertShadow
  <2>3. /\ ix \in Indices /\ ix.ver[c.id] = c.ver
        /\ \A j \in RIds : j # c.id => ix.ver[j] = heap[shadow].ver[j]
        /\ SlotsKept(heap[shadow], ix)
    <3> DEFINE h == heap[shadow]
               i == c.id
               v == c.ver
    <3>1. h \in Indices /\ i \in RIds /\ v \in Nat
      BY <1>2, <2>1
    <3> HIDE DEF h, i, v
    <3>2. /\ IndexInsert(h, i, v) \in Indices /\ IndexInsert(h, i, v).ver[i] = v
          /\ \A j \in RIds : j # i => IndexInsert(h, i, v).ver[j] = h.ver[j]
          /\ SlotsKept(h, IndexInsert(h, i, v))
      BY <3>1, IndexInsertFacts
    <3> QED
      BY <3>2 DEF h, i, v
  <2> HIDE DEF ix
  <2>4. /\ heap' \in [Instances -> Indices]
        /\ \A n \in Instances : SlotsKept(heap[n], heap'[n])
        /\ heap'[shadow] = ix /\ \A n \in Instances \ {shadow} : heap'[n] = heap[n]
    BY <1>4, <2>1, <2>2, <2>3, HeapChanged
  <2> HIDE DEF c
  <2>5. c = writer[w]
    BY DEF c
  <2>6. \A i \in RIds \ {c.id} : heap'[primary].ver[i] = heap[primary].ver[i]
    BY <1>4, <2>3, <2>4
  <2>7. c.at = primary /\ c.id \notin lost => heap'[primary].ver[c.id] = c.ver
    BY <1>3, <1>4, <2>3, <2>4
  <2>8. /\ \A i \in RIds \ {c.id} : heap'[shadow].ver[i] = heap[shadow].ver[i]
        /\ heap'[shadow].ver[c.id] = c.ver
    BY <2>3, <2>4
  <2> QED
    BY <1>1, <1>2, <2>4, <2>5, <2>6, <2>7, <2>8, AcknowledgeInv
<1> QED
  BY <1>5, <1>6

LEMMA ShadowFailsInv ==
    ASSUME RebuildInv, NEW w \in Writers, ShadowFails(w)
    PROVE  RebuildInv'
<1> DEFINE c == writer[w]
<1>0. RebuildTypes /\ CallsPending
  BY DEF RebuildInv
<1>1. c.op = "insert" /\ c.op # "none" /\ shadow # 0
  BY DEF ShadowFails
<1>2. c.id \in RIds /\ c.ver \in Nat /\ c.at \in Instances /\ c.pre \in BOOLEAN
  BY <1>0, <1>1, CallTyped DEF InsertCalls
<1>3. /\ c.at = primary /\ c.id \notin lost => heap[primary].ver[c.id] = c.ver
      /\ c.id \in Range(heap[c.at].slot)
      /\ shadow # primary => c.at # shadow
  BY <1>0, <1>1 DEF CallsPending, Pending
<1>4. heap \in [Instances -> Indices] /\ primary \in Instances /\ shadow \in Instances
  BY <1>0, <1>1 DEF RebuildTypes
<1>5. PICK deleted \in BOOLEAN :
        /\ c.pre => deleted
        /\ heap' = IF ~c.pre /\ deleted
                   THEN [heap EXCEPT ![c.at] = IndexDelete(heap[c.at], SlotOf(heap[c.at], c.id))]
                   ELSE heap
        /\ Acknowledge(w, IF c.pre THEN c.ver ELSE 0, TRUE,
                       IF c.pre \/ deleted THEN lost ELSE lost \cup {c.id})
  BY <1>2, <1>4 DEF ShadowFails, KeepsUpsert
<1> DEFINE v == IF c.pre THEN c.ver ELSE 0
           given == IF c.pre \/ deleted THEN lost ELSE lost \cup {c.id}
<1>6. v \in Nat /\ Acknowledge(w, v, TRUE, given) /\ \A i \in RIds \ {c.id} : i \in lost => i \in given
  BY <1>2, <1>5
<1>7. CASE ~c.pre /\ deleted
  <2> DEFINE ix == IndexDelete(heap[c.at], SlotOf(heap[c.at], c.id))
  <2>1. heap[c.at] \in Indices
    BY <1>2, <1>4
  <2>2. heap' = [heap EXCEPT ![c.at] = ix]
    BY <1>5, <1>7
  <2>3. SlotOf(heap[c.at], c.id) \in DOMAIN heap[c.at].slot /\ SlotOf(heap[c.at], c.id) \in Nat
        /\ heap[c.at].slot[SlotOf(heap[c.at], c.id)] = c.id
    BY <1>3, <2>1, SlotOfFacts
  <2>4. /\ ix \in Indices /\ ix.slot = heap[c.at].slot /\ ix.ver[c.id] = 0
        /\ \A j \in RIds : j # c.id => ix.ver[j] = heap[c.at].ver[j]
    BY <1>2, <2>1, <2>3, IndexDeleteFacts
  <2>5. SlotsKept(heap[c.at], ix)
    BY <2>4 DEF SlotsKept
  <2> HIDE DEF ix
  <2>6. /\ heap' \in [Instances -> Indices]
        /\ \A n \in Instances : SlotsKept(heap[n], heap'[n])
        /\ heap'[c.at] = ix /\ \A n \in Instances \ {c.at} : heap'[n] = heap[n]
    BY <1>2, <1>4, <2>2, <2>4, <2>5, HeapChanged
  <2>7. \A n \in Instances : \A i \in RIds \ {c.id} : heap'[n].ver[i] = heap[n].ver[i]
    BY <2>4, <2>6
  <2>8. c.at = primary => heap'[primary].ver[c.id] = v
    BY <1>7, <2>4, <2>6
  <2> HIDE DEF c, v, given
  <2>9. c = writer[w]
    BY DEF c
  <2> QED
    BY <1>1, <1>2, <1>4, <1>6, <2>6, <2>7, <2>8, <2>9, AcknowledgeInv
<1>8. CASE ~(~c.pre /\ deleted)
  <2>1. heap' = heap
    BY <1>5, <1>8
  <2>2. heap' \in [Instances -> Indices] /\ \A n \in Instances : SlotsKept(heap[n], heap'[n])
    BY <1>4, <2>1, SlotsKeptSelf
  <2>3. c.at = primary /\ c.id \notin given => heap'[primary].ver[c.id] = v
    BY <1>2, <1>3, <1>5, <1>8, <2>1
  <2> HIDE DEF c, v, given
  <2>4. c = writer[w]
    BY DEF c
  <2> QED
    BY <1>1, <1>2, <1>6, <2>1, <2>2, <2>3, <2>4, AcknowledgeInv
<1> QED
  BY <1>7, <1>8

LEMMA DeletePrimaryInv ==
    ASSUME RebuildInv, NEW w \in Writers, DeletePrimary(w)
    PROVE  RebuildInv'
<1> DEFINE c == writer[w]
           hit == {heap[primary].slot[n] : n \in {c.slot} \cap DOMAIN heap[primary].slot}
           given == (lost \cup hit) \ {c.id}
           ix == IndexDelete(heap[primary], c.slot)
<1>0. RebuildTypes /\ CallsPending
  BY DEF RebuildInv
<1>1. c.op = "delete" /\ c.op # "none" /\ Acknowledge(w, 0, c.missed, given)
  BY DEF DeletePrimary
<1>2. c.id \in RIds /\ c.slot \in Nat /\ c.at \in Instances /\ c.missed \in BOOLEAN
  BY <1>0, <1>1, CallTyped DEF DeleteCalls
<1>3. /\ c.slot \in DOMAIN heap[c.at].slot /\ heap[c.at].slot[c.slot] = c.id
      /\ ~c.missed /\ shadow # 0 => heap[shadow].ver[c.id] = 0
  BY <1>0, <1>1 DEF CallsPending, Pending
<1>4. heap \in [Instances -> Indices] /\ primary \in Instances /\ shadow \in {0} \cup Instances
  BY <1>0 DEF RebuildTypes
<1>5. heap' = [heap EXCEPT ![primary] = ix]
  BY <1>4 DEF DeletePrimary
<1>6. /\ ix \in Indices /\ ix.slot = heap[primary].slot
      /\ \A j \in RIds : \/ ix.ver[j] = heap[primary].ver[j]
                         \/ c.slot \in DOMAIN heap[primary].slot /\ j = heap[primary].slot[c.slot]
      /\ \A j \in RIds : c.slot \in DOMAIN heap[primary].slot /\ j = heap[primary].slot[c.slot] => ix.ver[j] = 0
  BY <1>2, <1>4, IndexDeleteFacts
<1>7. SlotsKept(heap[primary], ix)
  BY <1>6 DEF SlotsKept
<1> HIDE DEF ix
<1>8. /\ heap' \in [Instances -> Indices]
      /\ \A n \in Instances : SlotsKept(heap[n], heap'[n])
      /\ heap'[primary] = ix /\ \A n \in Instances \ {primary} : heap'[n] = heap[n]
  BY <1>4, <1>5, <1>6, <1>7, HeapChanged
<1>9. \A i \in RIds \ ({c.id} \cup given) : heap'[primary].ver[i] = heap[primary].ver[i]
  BY <1>6, <1>8
<1>10. c.at = primary => heap'[primary].ver[c.id] = 0
  BY <1>2, <1>3, <1>6, <1>8
<1>11. \A i \in RIds \ {c.id} : i \in lost => i \in given
  OBVIOUS
<1>12. shadow # 0 =>
         \A i \in RIds \ {c.id} : heap[shadow].ver[i] = 0 => heap'[shadow].ver[i] = 0
  BY <1>4, <1>6, <1>8
<1>13. shadow # 0 /\ shadow # primary => heap'[shadow] = heap[shadow]
  BY <1>4, <1>8
<1> HIDE DEF c, given
<1>14. c = writer[w]
  BY DEF c
<1> QED
  BY <1>1, <1>2, <1>3, <1>8, <1>9, <1>10, <1>11, <1>12, <1>13, <1>14, AcknowledgeInv

LEMMA DeletePrimaryFailsInv ==
    ASSUME RebuildInv, NEW w \in Writers, DeletePrimaryFails(w)
    PROVE  RebuildInv'
<1> DEFINE c == writer[w]
<1>0. RebuildTypes /\ CallsPending
  BY DEF RebuildInv
<1>1. c.op = "delete" /\ c.op # "none" /\ Acknowledge(w, acked[c.id], TRUE, lost) /\ heap' = heap
  BY DEF DeletePrimaryFails
<1>2. c.id \in RIds /\ acked[c.id] \in Nat
  BY <1>0, <1>1, CallTyped DEF RebuildTypes
<1>3. c.at = primary /\ c.id \notin lost => heap[primary].ver[c.id] = acked[c.id]
  BY <1>0, <1>1 DEF CallsPending, Pending
<1>4. heap' \in [Instances -> Indices] /\ \A n \in Instances : SlotsKept(heap[n], heap'[n])
  BY <1>0, <1>1, SlotsKeptSelf DEF RebuildTypes
<1> HIDE DEF c
<1>5. c = writer[w]
  BY DEF c
<1> QED
  BY <1>1, <1>2, <1>3, <1>4, <1>5, AcknowledgeInv

(* A call that a step of another leaves where it was.                      *)
LEMMA StillPending ==
    ASSUME RebuildTypes, NEW w \in Writers, writer[w].op # "none", Pending(writer[w]),
           writer'[w] = writer[w],
           \A n \in Instances : SlotsKept(heap[n], heap'[n]),
           primary' = primary, shadow' = shadow,
           writer[w].id \notin lost' =>
               /\ writer[w].id \notin lost
               /\ heap'[primary].ver[writer[w].id] = heap[primary].ver[writer[w].id],
           acked'[writer[w].id] = acked[writer[w].id],
           shadow # 0 /\ heap[shadow].ver[writer[w].id] = 0 => heap'[shadow].ver[writer[w].id] = 0
    PROVE  Pending(writer[w])'
<1> DEFINE d == writer[w]
<1>0. d.at \in Instances
  BY CallTyped
<1>1. d.op = "insert" => d.id \in Range(heap'[d.at].slot)
  BY <1>0 DEF SlotsKept, Range, Pending
<1>2. d.op = "delete" => d.slot \in DOMAIN heap'[d.at].slot /\ heap'[d.at].slot[d.slot] = d.id
  BY <1>0 DEF SlotsKept, Pending
<1> QED
  BY <1>1, <1>2 DEF Pending

(* No call, nothing pending.                                               *)
LEMMA IdlePending ==
    ASSUME NEW c, c.op = "none" PROVE Pending(c)
  BY DEF Pending

(* The first half of a call keeps the invariant when it disturbs only its  *)
(* own id and what it reports.                                             *)
LEMMA CallBegun ==
    ASSUME RebuildInv,
           NEW w \in Writers, writer[w] = Idle,
           NEW c \in InsertCalls \cup DeleteCalls, ~InFlight(c.id),
           writer' = [writer EXCEPT ![w] = c], Pending(writer[w])',
           writes' \in Nat,
           UNCHANGED <<primary, shadow, rebuilding, rebuildState, acked>>,
           heap' \in [Instances -> Indices],
           \A n \in Instances : SlotsKept(heap[n], heap'[n]),
           \A i \in RIds \ {c.id} : i \notin lost' =>
               i \notin lost /\ heap'[primary].ver[i] = heap[primary].ver[i],
           shadow # 0 =>
               \A i \in RIds \ {c.id} : heap[shadow].ver[i] = 0 => heap'[shadow].ver[i] = 0,
           shadow # 0 /\ shadow # primary =>
               \A i \in RIds \ {c.id} : i \notin stale' =>
                   i \notin stale /\ heap'[shadow].ver[i] = heap[shadow].ver[i]
    PROVE  RebuildInv'
<1>0. RebuildTypes /\ RebuildPhases /\ OneCallPerId /\ CallsPending /\ PrimaryServesAcked /\ ShadowReady
  BY DEF RebuildInv
<1>1. c.id \in RIds /\ c.op # "none" /\ c.op \in {"insert", "delete"}
  BY DEF InsertCalls, DeleteCalls
<1>2. writer'[w] = c /\ \A x \in Writers \ {w} : writer'[x] = writer[x]
  BY <1>0 DEF RebuildTypes
<1>3. \A x \in Writers \ {w} : writer[x].op # "none" => writer[x].id \in RIds \ {c.id}
  BY <1>0, CallTyped DEF InFlight
<1>4. RebuildTypes'
  BY <1>0, <1>1 DEF RebuildTypes
<1>5. RebuildPhases'
  BY <1>0 DEF RebuildPhases
<1>6. OneCallPerId'
  <2> SUFFICES ASSUME NEW x \in Writers, NEW y \in Writers, x # y,
                      writer'[x].op # "none", writer'[y].op # "none"
               PROVE  writer'[x].id # writer'[y].id
    BY DEF OneCallPerId
  <2>1. CASE x = w
    BY <1>2, <1>3, <2>1
  <2>2. CASE y = w
    BY <1>2, <1>3, <2>2
  <2>3. CASE x # w /\ y # w
    BY <1>0, <1>2, <2>3 DEF OneCallPerId
  <2> QED
    BY <2>1, <2>2, <2>3
<1>7. CallsPending'
  <2> SUFFICES ASSUME NEW x \in Writers, x # w
               PROVE  Pending(writer[x])'
    BY DEF CallsPending
  <2>1. writer'[x] = writer[x]
    BY <1>2
  <2>2. CASE writer[x].op = "none"
    BY <2>1, <2>2 DEF Pending
  <2>3. CASE writer[x].op # "none"
    <3> DEFINE d == writer[x]
    <3>1. d.id \in RIds \ {c.id} /\ Pending(d)
      BY <1>0, <1>3, <2>3 DEF CallsPending
    <3> QED
      BY <1>0, <2>1, <2>3, <3>1, StillPending
  <2> QED
    BY <2>2, <2>3
<1>8. InFlightIds' = InFlightIds \cup {c.id}
  <2>1. c.id \in InFlightIds'
    BY <1>1, <1>2 DEF InFlightIds
  <2>2. InFlightIds \subseteq InFlightIds'
    <3> SUFFICES ASSUME NEW x \in Writers, writer[x].op # "none" PROVE writer[x].id \in InFlightIds'
      BY DEF InFlightIds
    <3>1. x # w
      BY DEF Idle
    <3> QED
      BY <1>2, <3>1 DEF InFlightIds
  <2>3. InFlightIds' \subseteq InFlightIds \cup {c.id}
    <3> SUFFICES ASSUME NEW x \in Writers, writer'[x].op # "none" PROVE writer'[x].id \in InFlightIds \cup {c.id}
      BY DEF InFlightIds
    <3> QED
      BY <1>2 DEF InFlightIds
  <2> QED
    BY <2>1, <2>2, <2>3
<1>9. PrimaryServesAcked'
  <2> SUFFICES ASSUME NEW i \in RIds, i \notin InFlightIds', i \notin lost'
               PROVE  heap'[primary].ver[i] = acked[i]
    BY DEF PrimaryServesAcked
  <2>1. i # c.id /\ i \notin InFlightIds
    BY <1>8
  <2>2. i \notin lost /\ heap'[primary].ver[i] = heap[primary].ver[i]
    BY <2>1
  <2> QED
    BY <1>0, <2>1, <2>2 DEF PrimaryServesAcked
<1>10. ShadowReady'
  <2> SUFFICES ASSUME shadow # 0, shadow # primary,
                      NEW i \in RIds, i \notin InFlightIds', i \notin stale'
               PROVE  heap'[shadow].ver[i] = acked[i]
    BY DEF ShadowReady
  <2>1. i # c.id /\ i \notin InFlightIds
    BY <1>8
  <2>2. i \notin stale /\ heap'[shadow].ver[i] = heap[shadow].ver[i]
    BY <2>1
  <2> QED
    BY <1>0, <2>1, <2>2 DEF ShadowReady
<1> QED
  BY <1>4, <1>5, <1>6, <1>7, <1>9, <1>10 DEF RebuildInv

LEMMA InsertPrimaryInv ==
    ASSUME RebuildInv, NEW w \in Writers, NEW i \in RIds, InsertPrimary(w, i)
    PROVE  RebuildInv'
<1> DEFINE c == [op |-> "insert", id |-> i, ver |-> writes + 1, at |-> primary,
                 pre |-> heap[primary].ver[i] # 0]
           ix == IndexInsert(heap[primary], i, writes + 1)
<1>0. RebuildTypes
  BY DEF RebuildInv
<1>1. /\ heap \in [Instances -> Indices] /\ primary \in Instances /\ shadow \in {0} \cup Instances
      /\ writes \in Nat /\ w \in DOMAIN writer
  BY <1>0 DEF RebuildTypes
<1>2. /\ writer[w] = Idle /\ ~InFlight(i) /\ writes' = writes + 1
      /\ writer' = [writer EXCEPT ![w] = c] /\ lost' = lost \ {i}
      /\ UNCHANGED <<primary, shadow, rebuilding, rebuildState, acked, stale>>
  BY DEF InsertPrimary
<1>3. heap' = [heap EXCEPT ![primary] = ix]
  BY <1>1 DEF InsertPrimary
<1>4. c \in InsertCalls /\ c.id = i /\ c.op = "insert" /\ c.at = primary /\ c.ver = writes + 1
  BY <1>1 DEF InsertCalls
<1>5. /\ ix \in Indices /\ ix.ver[i] = writes + 1
      /\ \A j \in RIds : j # i => ix.ver[j] = heap[primary].ver[j]
      /\ SlotsKept(heap[primary], ix) /\ i \in Range(ix.slot)
  BY <1>1, IndexInsertFacts
<1> HIDE DEF ix, c
<1>6. /\ heap' \in [Instances -> Indices]
      /\ \A n \in Instances : SlotsKept(heap[n], heap'[n])
      /\ heap'[primary] = ix /\ \A n \in Instances \ {primary} : heap'[n] = heap[n]
  BY <1>1, <1>3, <1>5, HeapChanged
<1>7. writer'[w] = c
  BY <1>1, <1>2
<1>8. Pending(writer[w])'
  BY <1>2, <1>4, <1>5, <1>6, <1>7 DEF Pending
<1>9. \A j \in RIds \ {c.id} : \A n \in Instances : heap'[n].ver[j] = heap[n].ver[j]
  BY <1>4, <1>5, <1>6
<1>10. writes' \in Nat /\ \A j \in RIds \ {c.id} : j \notin lost' => j \notin lost
  BY <1>1, <1>2, <1>4
<1> QED
  BY <1>1, <1>2, <1>4, <1>6, <1>8, <1>9, <1>10, CallBegun

LEMMA DeleteShadowInv ==
    ASSUME RebuildInv, NEW w \in Writers, NEW i \in RIds, DeleteShadow(w, i)
    PROVE  RebuildInv'
<1> DEFINE n == SlotOf(heap[primary], i)
           hit == IF shadow # 0 /\ n \in DOMAIN heap[shadow].slot
                  THEN {heap[shadow].slot[n]} ELSE {}
           c == [op |-> "delete", id |-> i, slot |-> n, at |-> primary,
                 missed |-> shadow # 0 /\ hit # {i}]
<1>0. RebuildTypes /\ PrimaryServesAcked
  BY DEF RebuildInv
<1>1. /\ heap \in [Instances -> Indices] /\ primary \in Instances /\ shadow \in {0} \cup Instances
      /\ writes \in Nat /\ w \in DOMAIN writer
  BY <1>0 DEF RebuildTypes
<1>2. /\ writer[w] = Idle /\ ~InFlight(i) /\ writes' = writes + 1
      /\ i \in Range(heap[primary].slot)
      /\ writer' = [writer EXCEPT ![w] = c]
      /\ heap' = IF shadow = 0 THEN heap ELSE [heap EXCEPT ![shadow] = IndexDelete(@, n)]
      /\ stale' = stale \cup hit
      /\ lost' = IF shadow = primary THEN lost \cup hit ELSE lost
      /\ UNCHANGED <<primary, shadow, rebuilding, rebuildState, acked>>
  BY DEF DeleteShadow
<1>3. n \in Nat /\ n \in DOMAIN heap[primary].slot /\ heap[primary].slot[n] = i
  BY <1>1, <1>2, SlotOfFacts
<1> HIDE DEF n
<1>4. /\ c \in DeleteCalls /\ c.id = i /\ c.op = "delete" /\ c.at = primary /\ c.slot = n
      /\ c.missed = (shadow # 0 /\ hit # {i})
  BY <1>1, <1>3 DEF DeleteCalls
<1> HIDE DEF c
<1>5. /\ heap' \in [Instances -> Indices]
      /\ \A k \in Instances : heap'[k].slot = heap[k].slot
      /\ \A k \in Instances : k # shadow => heap'[k] = heap[k]
      /\ shadow # 0 => \A j \in RIds : j \notin hit => heap'[shadow].ver[j] = heap[shadow].ver[j]
      /\ shadow # 0 => \A j \in RIds : j \in hit => heap'[shadow].ver[j] = 0
  <2>1. CASE shadow = 0
    BY <1>1, <1>2, <2>1
  <2>2. CASE shadow # 0
    <3> DEFINE ix == IndexDelete(heap[shadow], n)
    <3>1. shadow \in Instances /\ heap[shadow] \in Indices
      BY <1>1, <2>2
    <3>2. heap' = [heap EXCEPT ![shadow] = ix]
      BY <1>1, <1>2, <2>2
    <3>3. /\ ix \in Indices /\ ix.slot = heap[shadow].slot
          /\ \A j \in RIds : \/ ix.ver[j] = heap[shadow].ver[j]
                             \/ n \in DOMAIN heap[shadow].slot /\ j = heap[shadow].slot[n]
          /\ \A j \in RIds : n \in DOMAIN heap[shadow].slot /\ j = heap[shadow].slot[n] => ix.ver[j] = 0
      BY <1>3, <3>1, IndexDeleteFacts
    <3> HIDE DEF ix
    <3>4. heap'[shadow] = ix /\ heap' \in [Instances -> Indices]
      BY <1>1, <3>1, <3>2, <3>3
    <3> QED
      BY <1>1, <2>2, <3>1, <3>2, <3>3, <3>4
  <2> QED
    BY <2>1, <2>2
<1>6. \A k \in Instances : SlotsKept(heap[k], heap'[k])
  BY <1>5 DEF SlotsKept
<1>7. shadow = primary => hit = {i}
  <2>1. primary # 0
    BY <1>1, RebuildAssumption DEF Instances
  <2> QED
    BY <1>1, <1>3, <2>1
<1>8. i \in hit => hit = {i}
  OBVIOUS
<1> HIDE DEF hit
<1>9. writer'[w] = c
  BY <1>1, <1>2
<1>10. i \notin lost' => heap'[primary].ver[i] = acked[i]
  <2> SUFFICES ASSUME i \notin lost' PROVE heap'[primary].ver[i] = acked[i]
    OBVIOUS
  <2>1. shadow # primary /\ i \notin lost
    BY <1>2, <1>7
  <2>2. i \notin InFlightIds
    BY <1>2, InFlightMeans
  <2> QED
    BY <1>0, <1>1, <1>5, <2>1, <2>2 DEF PrimaryServesAcked
<1>11. shadow # 0 /\ ~c.missed => heap'[shadow].ver[i] = 0
  BY <1>4, <1>5
<1>12. heap'[primary].slot = heap[primary].slot
  BY <1>1, <1>5
<1>13. Pending(writer[w])'
  BY <1>2, <1>3, <1>4, <1>9, <1>10, <1>11, <1>12 DEF Pending
<1>14. \A j \in RIds \ {c.id} : j \notin lost' => j \notin lost /\ heap'[primary].ver[j] = heap[primary].ver[j]
  BY <1>1, <1>2, <1>4, <1>5, <1>7
<1>15. shadow # 0 =>
         \A j \in RIds \ {c.id} : heap[shadow].ver[j] = 0 => heap'[shadow].ver[j] = 0
  BY <1>5
<1>16. shadow # 0 =>
         \A j \in RIds \ {c.id} : j \notin stale' => j \notin stale /\ heap'[shadow].ver[j] = heap[shadow].ver[j]
  BY <1>2, <1>5
<1>17. writes' \in Nat
  BY <1>1, <1>2
<1>18. c \in InsertCalls \cup DeleteCalls /\ ~InFlight(c.id)
  BY <1>2, <1>4
<1> QED
  BY <1>2, <1>5, <1>6, <1>13, <1>14, <1>15, <1>16, <1>17, <1>18, CallBegun

-----------------------------------------------------------------------------
(* The orchestrator's steps.                                               *)

(* A step that leaves the indices and the calls alone, and gives nothing   *)
(* back of what was lost.                                                  *)
LEMMA PhaseStepInv ==
    ASSUME RebuildInv, UNCHANGED <<heap, primary, writer, acked, lost>>,
           writes' \in Nat, RebuildPhases',
           \/ shadow' = 0
           \/ shadow' = shadow /\ stale' = stale
    PROVE  RebuildInv'
<1>0. RebuildTypes /\ OneCallPerId /\ CallsPending /\ PrimaryServesAcked /\ ShadowReady
  BY DEF RebuildInv
<1>1. RebuildTypes'
  BY <1>0 DEF RebuildTypes
<1>2. OneCallPerId'
  BY <1>0 DEF OneCallPerId
<1>3. CallsPending'
  BY <1>0 DEF CallsPending, Pending
<1>4. InFlightIds' = InFlightIds
  BY DEF InFlightIds
<1>5. PrimaryServesAcked' /\ ShadowReady'
  BY <1>0, <1>4 DEF PrimaryServesAcked, ShadowReady
<1> QED
  BY <1>1, <1>2, <1>3, <1>5 DEF RebuildInv

(* A place in the heap for the shadow.                                     *)
LEMMA RoomForShadow ==
    ASSUME RebuildTypes, built < MaxIndices
    PROVE  \E k \in Instances : k # primary /\ heap[k] = EmptyIndex
<1> DEFINE S == {n \in 1..MaxIndices : heap[n] # EmptyIndex \/ n = primary \/ n = shadow}
<1>1. MaxIndices \in Nat
  BY RebuildAssumption
<1>2. IsFiniteSet(1..MaxIndices) /\ Cardinality(1..MaxIndices) = MaxIndices
  BY <1>1, FS_Interval
<1>3. Cardinality(S) < MaxIndices
  BY DEF built
<1>4. S # 1..MaxIndices
  <2> HIDE DEF S
  <2> DEFINE T == 1..MaxIndices
  <2> HIDE DEF T
  <2>1. Cardinality(T) = MaxIndices
    BY <1>2 DEF T
  <2>2. S # T
    BY <1>1, <1>3, <2>1
  <2> QED
    BY <2>2 DEF T
<1> QED
  BY <1>4 DEF Instances

LEMMA SetShadowInv ==
    ASSUME RebuildInv, SetShadow
    PROVE  RebuildInv'
<1> DEFINE n == CHOOSE k \in 1..MaxIndices : k # primary /\ heap[k] = EmptyIndex
           ix == Compacted(heap[primary])
<1>0. RebuildTypes /\ RebuildPhases /\ OneCallPerId /\ CallsPending /\ PrimaryServesAcked
  BY DEF RebuildInv
<1>1. heap \in [Instances -> Indices] /\ primary \in Instances /\ writer \in [Writers -> {Idle} \cup InsertCalls \cup DeleteCalls]
  BY <1>0 DEF RebuildTypes
<1>2. n \in Instances /\ n # primary /\ heap[n] = EmptyIndex
  BY <1>0, RoomForShadow DEF SetShadow, Instances
<1>3. /\ rebuildState = "Preparing" /\ rebuildState' = "Building" /\ shadow' = n
      /\ heap' = [heap EXCEPT ![n] = ix] /\ stale' = lost
      /\ writer' = [w \in Writers |->
                     IF writer[w].op = "delete" THEN [writer[w] EXCEPT !.missed = TRUE] ELSE writer[w]]
      /\ UNCHANGED <<primary, rebuilding, writes, acked, lost>>
  BY DEF SetShadow
<1>4. ix \in Indices /\ ix.ver = heap[primary].ver
  BY <1>1, CompactedFacts
<1> HIDE DEF n, ix
<1>5. heap' \in [Instances -> Indices] /\ heap'[n] = ix /\ \A k \in Instances \ {n} : heap'[k] = heap[k]
  BY <1>1, <1>2, <1>3, <1>4
<1>6. heap[n].slot = <<>>
  BY <1>2 DEF EmptyIndex
<1>7. \A w \in Writers :
        /\ writer'[w].op = writer[w].op
        /\ writer[w].op # "none" => writer'[w].id = writer[w].id /\ writer'[w].at = writer[w].at
        /\ writer[w].op = "insert" => writer'[w] = writer[w]
        /\ writer[w].op = "delete" => writer'[w].slot = writer[w].slot /\ writer'[w].missed = TRUE
        /\ writer'[w] \in {Idle} \cup InsertCalls \cup DeleteCalls
  <2> SUFFICES ASSUME NEW w \in Writers
               PROVE  /\ writer'[w].op = writer[w].op
                      /\ writer[w].op # "none" => writer'[w].id = writer[w].id /\ writer'[w].at = writer[w].at
                      /\ writer[w].op = "insert" => writer'[w] = writer[w]
                      /\ writer[w].op = "delete" => writer'[w].slot = writer[w].slot /\ writer'[w].missed = TRUE
                      /\ writer'[w] \in {Idle} \cup InsertCalls \cup DeleteCalls
    OBVIOUS
  <2>1. CASE writer[w].op = "delete"
    <3>1. writer[w] \in DeleteCalls
      BY <1>0, <2>1, CallTyped
    <3>2. writer'[w] = [writer[w] EXCEPT !.missed = TRUE]
      BY <1>3, <2>1
    <3> QED
      BY <2>1, <3>1, <3>2 DEF DeleteCalls
  <2>2. CASE writer[w].op # "delete"
    BY <1>1, <1>3, <2>2
  <2> QED
    BY <2>1, <2>2
<1>8. RebuildTypes'
  <2>1. writer' \in [Writers -> {Idle} \cup InsertCalls \cup DeleteCalls]
    BY <1>3, <1>7
  <2> QED
    BY <1>0, <1>2, <1>3, <1>5, <2>1 DEF RebuildTypes
<1>9. RebuildPhases'
  BY <1>0, <1>2, <1>3 DEF RebuildPhases
<1>10. OneCallPerId'
  BY <1>0, <1>7 DEF OneCallPerId
<1>11. CallsPending'
  <2> SUFFICES ASSUME NEW w \in Writers, writer[w].op # "none"
               PROVE  Pending(writer[w])'
    BY <1>7 DEF CallsPending, Pending
  <2> DEFINE d == writer[w]
  <2>1. Pending(d)
    BY <1>0 DEF CallsPending
  <2>2. d.op \in {"insert", "delete"} /\ d.at \in Instances
    BY <1>0, CallTyped
  <2>3. d.at # n
    BY <1>6, <2>1, <2>2 DEF Pending, Range
  <2>4. heap'[d.at] = heap[d.at] /\ heap'[primary] = heap[primary]
    BY <1>1, <1>2, <1>5, <2>2, <2>3
  <2>5. CASE d.op = "insert"
    <3>1. writer'[w] = d
      BY <1>7, <2>5
    <3> QED
      BY <1>3, <2>1, <2>3, <2>4, <2>5, <3>1 DEF Pending
  <2>6. CASE d.op = "delete"
    <3>1. writer'[w].op = "delete" /\ writer'[w].id = d.id /\ writer'[w].at = d.at
          /\ writer'[w].slot = d.slot /\ writer'[w].missed = TRUE
      BY <1>7, <2>6
    <3> QED
      BY <1>3, <2>1, <2>3, <2>4, <2>6, <3>1 DEF Pending
  <2> QED
    BY <2>2, <2>5, <2>6
<1>12. InFlightIds' = InFlightIds
  BY <1>7 DEF InFlightIds
<1>13. PrimaryServesAcked'
  <2>1. heap'[primary] = heap[primary]
    BY <1>1, <1>2, <1>5
  <2> QED
    BY <1>0, <1>3, <1>12, <2>1 DEF PrimaryServesAcked
<1>14. ShadowReady'
  BY <1>0, <1>3, <1>4, <1>5, <1>12 DEF PrimaryServesAcked, ShadowReady
<1> QED
  BY <1>8, <1>9, <1>10, <1>11, <1>13, <1>14 DEF RebuildInv

LEMMA ReplayEntryInv ==
    ASSUME RebuildInv, NEW i \in RIds, ReplayEntry(i)
    PROVE  RebuildInv'
<1> DEFINE ix == IF acked[i] = 0 THEN [heap[shadow] EXCEPT !.ver[i] = 0]
                 ELSE IndexInsert(heap[shadow], i, acked[i])
<1>0. RebuildTypes /\ RebuildPhases /\ OneCallPerId /\ CallsPending /\ PrimaryServesAcked /\ ShadowReady
  BY DEF RebuildInv
<1>1. /\ rebuildState = "Replaying" /\ shadow # 0 /\ ~InFlight(i)
      /\ stale' = stale \ {i}
      /\ UNCHANGED <<primary, shadow, rebuilding, rebuildState, writer, writes, acked, lost>>
  BY DEF ReplayEntry
<1>2. heap \in [Instances -> Indices] /\ primary \in Instances /\ shadow \in Instances /\ acked[i] \in Nat
  BY <1>0, <1>1 DEF RebuildTypes
<1>3. shadow # primary
  BY <1>0, <1>1 DEF RebuildPhases
<1>4. heap' = [heap EXCEPT ![shadow] = ix]
  BY <1>2 DEF ReplayEntry
<1>5. /\ ix \in Indices /\ ix.ver[i] = acked[i] /\ SlotsKept(heap[shadow], ix)
      /\ \A j \in RIds : j # i => ix.ver[j] = heap[shadow].ver[j]
  <2>1. CASE acked[i] = 0
    <3> DEFINE h == heap[shadow]
               e == [h.ver EXCEPT ![i] = 0]
    <3>1. h \in Indices /\ h.ver \in [RIds -> Nat] /\ h.slot \in Seq(RIds)
      BY <1>2 DEF Indices
    <3>2. ix = [slot |-> h.slot, ver |-> e]
      BY <2>1, <3>1 DEF Indices
    <3>3. e \in [RIds -> Nat] /\ e[i] = 0 /\ \A j \in RIds : j # i => e[j] = h.ver[j]
      BY <3>1
    <3> HIDE DEF ix, h, e
    <3>4. ix.slot = h.slot /\ ix \in Indices /\ ix.ver = e
      BY <3>1, <3>2, <3>3 DEF Indices
    <3> QED
      BY <2>1, <3>3, <3>4 DEF SlotsKept, h
  <2>2. CASE acked[i] # 0
    BY <1>2, <2>2, IndexInsertFacts
  <2> QED
    BY <2>1, <2>2
<1> HIDE DEF ix
<1>6. /\ heap' \in [Instances -> Indices]
      /\ \A n \in Instances : SlotsKept(heap[n], heap'[n])
      /\ heap'[shadow] = ix /\ \A n \in Instances \ {shadow} : heap'[n] = heap[n]
  BY <1>2, <1>4, <1>5, HeapChanged
<1>7. heap'[primary] = heap[primary]
  BY <1>2, <1>3, <1>6
<1>8. RebuildTypes' /\ RebuildPhases' /\ OneCallPerId'
  BY <1>0, <1>1, <1>6 DEF RebuildTypes, RebuildPhases, OneCallPerId
<1>9. CallsPending'
  <2> SUFFICES ASSUME NEW x \in Writers PROVE Pending(writer[x])'
    BY DEF CallsPending
  <2>1. writer'[x] = writer[x]
    BY <1>1
  <2>2. CASE writer[x].op = "none"
    BY <2>1, <2>2 DEF Pending
  <2>3. CASE writer[x].op # "none"
    <3> DEFINE d == writer[x]
    <3>1. d.id \in RIds /\ d.id # i /\ Pending(d)
      BY <1>0, <1>1, <2>3, CallTyped DEF CallsPending, InFlight
    <3>2. heap'[shadow].ver[d.id] = heap[shadow].ver[d.id]
      BY <1>5, <1>6, <3>1
    <3> QED
      BY <1>0, <1>1, <1>6, <1>7, <2>1, <2>3, <3>1, <3>2, StillPending
  <2> QED
    BY <2>2, <2>3
<1>10. InFlightIds' = InFlightIds
  BY <1>1 DEF InFlightIds
<1>11. PrimaryServesAcked'
  BY <1>0, <1>1, <1>7, <1>10 DEF PrimaryServesAcked
<1>12. ShadowReady'
  BY <1>0, <1>1, <1>3, <1>5, <1>6, <1>10 DEF ShadowReady
<1> QED
  BY <1>8, <1>9, <1>11, <1>12 DEF RebuildInv

LEMMA SwapPrimaryInv ==
    ASSUME RebuildInv, SwapPrimary
    PROVE  RebuildInv'
<1>0. RebuildTypes /\ RebuildPhases /\ OneCallPerId /\ CallsPending /\ ShadowReady
  BY DEF RebuildInv
<1>1. /\ shadow # 0 /\ shadow # primary /\ rebuildState \in {"Building", "Replaying"}
      /\ primary' = shadow /\ rebuildState' = "Swapping" /\ lost' = stale
      /\ UNCHANGED <<heap, shadow, rebuilding, writer, writes, acked, stale>>
  BY DEF SwapPrimary
<1>2. RebuildTypes' /\ RebuildPhases' /\ OneCallPerId'
  BY <1>0, <1>1 DEF RebuildTypes, RebuildPhases, OneCallPerId
<1>3. CallsPending'
  BY <1>0, <1>1 DEF CallsPending, Pending
<1>4. InFlightIds' = InFlightIds
  BY <1>1 DEF InFlightIds
<1>5. PrimaryServesAcked' /\ ShadowReady'
  BY <1>0, <1>1, <1>4 DEF PrimaryServesAcked, ShadowReady
<1> QED
  BY <1>2, <1>3, <1>5 DEF RebuildInv

LEMMA RebuildNextInv ==
    ASSUME RebuildInv, RebuildNext
    PROVE  RebuildInv'
<1>0. RebuildTypes /\ RebuildPhases
  BY DEF RebuildInv
<1>1. CASE \E w \in Writers, i \in RIds : InsertPrimary(w, i)
  BY <1>1, InsertPrimaryInv
<1>2. CASE \E w \in Writers, i \in RIds : DeleteShadow(w, i)
  BY <1>2, DeleteShadowInv
<1>3. CASE \E w \in Writers, i \in RIds : DeleteRefused(w, i)
  <2>1. UNCHANGED <<heap, primary, shadow, rebuilding, rebuildState, writer, acked, lost, stale>>
        /\ writes' = writes + 1
    BY <1>3 DEF DeleteRefused
  <2>2. writes' \in Nat /\ RebuildPhases'
    BY <1>0, <2>1 DEF RebuildTypes, RebuildPhases
  <2> QED
    BY <2>1, <2>2, PhaseStepInv
<1>4. CASE \E w \in Writers : InsertShadow(w)
  BY <1>4, InsertShadowInv
<1>5. CASE \E w \in Writers : ShadowFails(w)
  BY <1>5, ShadowFailsInv
<1>6. CASE \E w \in Writers : DeletePrimary(w)
  BY <1>6, DeletePrimaryInv
<1>7. CASE \E w \in Writers : DeletePrimaryFails(w)
  BY <1>7, DeletePrimaryFailsInv
<1>8. CASE \E i \in RIds : ReplayEntry(i)
  BY <1>8, ReplayEntryInv
<1>9. CASE StartRebuild \/ StartWalReplay
  <2>1. /\ UNCHANGED <<heap, primary, shadow, writer, writes, acked, lost, stale>>
        /\ RebuildPhases'
    BY <1>0, <1>9 DEF StartRebuild, StartWalReplay, RebuildPhases
  <2> QED
    BY <1>0, <2>1, PhaseStepInv DEF RebuildTypes
<1>10. CASE SetShadow
  BY <1>10, SetShadowInv
<1>11. CASE SwapPrimary
  BY <1>11, SwapPrimaryInv
<1>12. CASE ClearShadow \/ CompleteRebuild \/ AbortRebuild
  <2>1. /\ UNCHANGED <<heap, primary, writer, writes, acked, lost>>
        /\ shadow' = 0 /\ RebuildPhases'
    BY <1>0, <1>12 DEF ClearShadow, CompleteRebuild, AbortRebuild, RebuildPhases
  <2> QED
    BY <1>0, <2>1, PhaseStepInv DEF RebuildTypes
<1> QED
  BY <1>1, <1>2, <1>3, <1>4, <1>5, <1>6, <1>7, <1>8, <1>9, <1>10, <1>11, <1>12 DEF RebuildNext

LEMMA RebuildInitInv ==
    ASSUME RebuildInit
    PROVE  RebuildInv
<1>1. RebuildTypes
  <2>1. EmptyIndex \in Indices
    BY DEF EmptyIndex, Indices
  <2> QED
    BY <2>1, RebuildAssumption DEF RebuildInit, RebuildTypes, Instances
<1>2. \A w \in Writers : writer[w].op = "none"
  BY DEF RebuildInit, Idle
<1>3. RebuildPhases /\ OneCallPerId /\ CallsPending /\ ShadowReady
  BY <1>2 DEF RebuildInit, RebuildPhases, OneCallPerId, CallsPending, Pending, ShadowReady
<1>4. PrimaryServesAcked
  <2>1. heap[primary] = EmptyIndex
    BY RebuildAssumption DEF RebuildInit
  <2> QED
    BY <2>1 DEF RebuildInit, PrimaryServesAcked, EmptyIndex
<1> QED
  BY <1>1, <1>3, <1>4 DEF RebuildInv

LEMMA RebuildInvServes ==
    ASSUME RebuildInv
    PROVE  PrimaryServesAcked /\ ShadowFollows
  BY DEF RebuildInv, PrimaryServesAcked, ShadowReady, ShadowFollows

LEMMA RebuildServes ==
    RebuildSpec => [](PrimaryServesAcked /\ ShadowFollows)
<1>1. RebuildInit => RebuildInv
  BY RebuildInitInv
<1>2. RebuildInv /\ UNCHANGED rebuildVars => RebuildInv'
  <2> SUFFICES ASSUME RebuildInv, UNCHANGED rebuildVars PROVE RebuildInv'
    OBVIOUS
  <2>1. UNCHANGED <<heap, primary, shadow, rebuilding, rebuildState, writer, writes, acked, lost, stale>>
    BY DEF rebuildVars
  <2>2. RebuildPhases' /\ writes' \in Nat
    BY <2>1 DEF RebuildInv, RebuildPhases, RebuildTypes
  <2> QED
    BY <2>1, <2>2, PhaseStepInv
<1>3. RebuildInv /\ [RebuildNext]_rebuildVars => RebuildInv'
  BY <1>2, RebuildNextInv
<1>4. RebuildInv => PrimaryServesAcked /\ ShadowFollows
  BY RebuildInvServes
<1> QED
  BY <1>1, <1>3, <1>4, PTL DEF RebuildSpec

-----------------------------------------------------------------------------
(* The record of a rebuild: what is unsaved is what was done since the     *)
(* last multiple of the interval, or less.                                 *)

Stages == {"preparing", "scanning", "building", "replaying", "validating",
           "swapping", "cleaning", "completed", "failed"}
Records == [phase : Stages, done : Nat, ck : Nat, retries : Nat, at : Stages,
            started : Nat, updated : Nat]

RecordTypes ==
    /\ live \in [Ops -> {NoRebuild} \cup Records]
    /\ saved \in [Ops -> {NoRebuild} \cup Records]
    /\ exported \in [Ops -> {NoRebuild} \cup Nat]
    /\ second \in Nat

Behind(op) ==
    live[op] # NoRebuild =>
        /\ saved[op] # NoRebuild
        /\ saved[op].phase = live[op].phase
        /\ saved[op].done <= live[op].done
        /\ live[op].done - saved[op].done <= live[op].done % Interval

RecordInv == RecordTypes /\ \A op \in Ops : Behind(op)

(* Quotient and remainder are unique.                                      *)
LEMMA DivisionUnique ==
    ASSUME NEW I \in Nat \ {0}, NEW p \in Int, NEW q \in Int, NEW r \in Int, NEW s \in Int,
           0 <= r, r < I, 0 <= s, s < I, I * p + r = I * q + s
    PROVE  r = s
<1>1. ASSUME NEW a \in Int, NEW b \in Int, a < b PROVE I * a + I <= I * b
  <2>1. b = a + 1 + (b - a - 1) /\ b - a - 1 \in Nat
    BY <1>1
  <2>2. \A k \in Nat : I * k \in Nat
    OBVIOUS
  <2>3. I * b = I * a + I + I * (b - a - 1)
    OBVIOUS
  <2> QED
    BY <2>1, <2>2, <2>3
<1>2. ~(p < q)
  <2> SUFFICES ASSUME p < q PROVE FALSE
    OBVIOUS
  <2>1. I * p + I <= I * q
    BY <1>1
  <2>2. I * p \in Int /\ I * q \in Int
    OBVIOUS
  <2> DEFINE x == I * p
             y == I * q
  <2> HIDE DEF x, y
  <2>3. x + I <= y /\ x \in Int /\ y \in Int /\ x + r = y + s
    BY <2>1, <2>2 DEF x, y
  <2> QED
    BY <2>3
<1>3. ~(q < p)
  <2> SUFFICES ASSUME q < p PROVE FALSE
    OBVIOUS
  <2>1. I * q + I <= I * p
    BY <1>1
  <2>2. I * p \in Int /\ I * q \in Int
    OBVIOUS
  <2> DEFINE x == I * p
             y == I * q
  <2> HIDE DEF x, y
  <2>3. y + I <= x /\ x \in Int /\ y \in Int /\ x + r = y + s
    BY <2>1, <2>2 DEF x, y
  <2> QED
    BY <2>3
<1>4. p = q
  BY <1>2, <1>3
<1> QED
  BY <1>4

(* Counting up, a count past its interval starts over.                     *)
LEMMA RestStep ==
    ASSUME NEW n \in Nat, NEW I \in Nat \ {0}
    PROVE  /\ n % I \in Nat /\ n % I < I
           /\ (n + 1) % I # 0 => (n + 1) % I = (n % I) + 1
<1> DEFINE q == n \div I
           r == n % I
           p == (n + 1) \div I
           s == (n + 1) % I
<1>1. r \in 0..(I - 1) /\ s \in 0..(I - 1)
  OBVIOUS
<1>2. n = I * q + r /\ q \in Int
  OBVIOUS
<1>3. n + 1 = I * p + s /\ p \in Int
  OBVIOUS
<1> HIDE DEF q, r, p, s
<1>4. CASE r + 1 < I
  <2>1. I * q + (r + 1) = I * p + s
    BY <1>1, <1>2, <1>3
  <2>2. r + 1 = s
    BY <1>1, <1>2, <1>3, <1>4, <2>1, DivisionUnique
  <2> QED
    BY <1>1, <2>2 DEF r, s
<1>5. CASE r + 1 = I
  <2>1. I * (q + 1) = I * q + I
    BY <1>2
  <2>2. I * (q + 1) + 0 = I * p + s
    <3> DEFINE x == I * q
               y == I * (q + 1)
               z == I * p
    <3>1. x \in Int /\ y \in Int /\ z \in Int
      BY <1>2, <1>3
    <3>2. n = x + r /\ n + 1 = z + s /\ y = x + I
      BY <1>2, <1>3, <2>1
    <3> HIDE DEF x, y, z
    <3>3. y + 0 = z + s
      BY <1>1, <1>5, <3>1, <3>2
    <3> QED
      BY <3>3 DEF y, z
  <2> DEFINE a == q + 1
             o == 0
  <2>3. a \in Int /\ o \in Int /\ 0 <= o /\ o < I /\ I * a + o = I * p + s
    BY <1>2, <2>2
  <2> HIDE DEF a, o
  <2>4. s \in Int /\ 0 <= s /\ s < I
    BY <1>1
  <2>5. o = s
    BY <1>3, <2>3, <2>4, DivisionUnique, Zenon
  <2> QED
    BY <1>1, <2>5 DEF r, s, o
<1> QED
  BY <1>1, <1>4, <1>5

LEMMA NextPhaseTyped ==
    ASSUME NEW p \in Stages \ {"completed", "failed"}
    PROVE  NextPhase(p) \in Stages
<1>1. \E n \in 1..7 : Phases[n] = p
  BY DEF Stages, Phases
<1>2. DOMAIN Phases = 1..8
  BY DEF Phases
<1>3. PhaseNo(p) \in 1..8 /\ Phases[PhaseNo(p)] = p
  BY <1>1, <1>2 DEF PhaseNo
<1>4. PhaseNo(p) # 8
  BY <1>3 DEF Phases
<1>5. PhaseNo(p) + 1 \in 1..8
  BY <1>3, <1>4
<1>6. \A n \in 1..8 : Phases[n] \in Stages
  BY DEF Phases, Stages
<1> QED
  BY <1>5, <1>6 DEF NextPhase

(* save_state leaves nothing unsaved.                                      *)
LEMMA SaveInv ==
    ASSUME RecordInv, NEW op \in Ops, NEW r \in Records, Save(op, r), UNCHANGED <<exported, second>>
    PROVE  RecordInv'
<1>0. RecordTypes /\ \A o \in Ops : Behind(o)
  BY DEF RecordInv
<1>1. /\ live'[op] = r /\ saved'[op] = r
      /\ \A o \in Ops \ {op} : live'[o] = live[o] /\ saved'[o] = saved[o]
      /\ RecordTypes'
  BY <1>0 DEF Save, RecordTypes
<1>2. r.done \in Nat
  BY DEF Records
<1>3. r.done % Interval \in Nat /\ r.done - r.done = 0
  BY <1>2, RestStep, RecordAssumption
<1>4. ASSUME NEW o \in Ops PROVE Behind(o)'
  <2>1. CASE o = op
    BY <1>1, <1>2, <1>3, <2>1 DEF Behind
  <2>2. CASE o # op
    <3>1. live'[o] = live[o] /\ saved'[o] = saved[o]
      BY <1>1, <2>2
    <3> QED
      BY <1>0, <3>1 DEF Behind
  <2> QED
    BY <2>1, <2>2
<1> QED
  BY <1>1, <1>4 DEF RecordInv

(* One more vector, saved at the multiples of the interval.                *)
LEMMA AdvanceInv ==
    ASSUME RecordInv, NEW op \in Ops, live[op] # NoRebuild, NEW q \in Records,
           q.phase = live[op].phase, q.done = live[op].done + 1, Advance(op, q)
    PROVE  RecordInv'
<1>0. RecordTypes /\ \A o \in Ops : Behind(o)
  BY DEF RecordInv
<1>1. /\ live'[op] = q /\ UNCHANGED <<exported, second>>
      /\ \A o \in Ops \ {op} : live'[o] = live[o] /\ saved'[o] = saved[o]
      /\ q.done % Interval = 0 => saved'[op] = q
      /\ q.done % Interval # 0 => saved'[op] = saved[op]
      /\ RecordTypes'
  BY <1>0 DEF Advance, SavesAt, RecordTypes
<1> DEFINE n == live[op].done
           m == saved[op].done
<1>2. saved[op] # NoRebuild /\ saved[op].phase = live[op].phase /\ m <= n /\ n - m <= n % Interval
  BY <1>0 DEF Behind
<1>3. n \in Nat /\ m \in Nat
  BY <1>0, <1>2 DEF RecordTypes, Records
<1>4. Interval \in Nat \ {0}
  BY RecordAssumption
<1>5. /\ n % Interval \in Nat /\ (n + 1) % Interval \in Nat
      /\ (n + 1) % Interval # 0 => (n + 1) % Interval = (n % Interval) + 1
  <2>1. n + 1 \in Nat
    BY <1>3
  <2> QED
    BY <1>3, <1>4, <2>1, RestStep, Zenon
<1> DEFINE a == n % Interval
           b == (n + 1) % Interval
<1> HIDE DEF n, m, a, b
<1>6. a \in Nat /\ b \in Nat /\ (b # 0 => b = a + 1) /\ n - m <= a
  BY <1>2, <1>5 DEF a, b
<1>7. Behind(op)'
  <2>1. q.done = n + 1
    BY DEF n
  <2>2. CASE b = 0
    <3>1. live'[op] = q /\ saved'[op] = q
      BY <1>1, <2>1, <2>2 DEF b
    <3>2. q.done \in Nat /\ q.done - q.done <= q.done % Interval
      BY <1>3, <1>6, <2>1, <2>2 DEF b
    <3> QED
      BY <3>1, <3>2 DEF Behind
  <2>3. CASE b # 0
    <3>1. live'[op] = q /\ saved'[op] = saved[op]
      BY <1>1, <2>1, <2>3 DEF b
    <3>2. m <= n + 1 /\ (n + 1) - m <= b
      BY <1>2, <1>3, <1>6, <2>3
    <3>3. saved[op].done <= q.done /\ q.done - saved[op].done <= q.done % Interval
      BY <2>1, <3>2 DEF b, m
    <3> QED
      BY <1>2, <3>1, <3>3 DEF Behind
  <2> QED
    BY <2>2, <2>3
<1>8. ASSUME NEW o \in Ops PROVE Behind(o)'
  <2>1. CASE o # op
    <3>1. live'[o] = live[o] /\ saved'[o] = saved[o]
      BY <1>1, <2>1
    <3> QED
      BY <1>0, <3>1 DEF Behind
  <2> QED
    BY <1>7, <2>1
<1> QED
  BY <1>1, <1>8 DEF RecordInv

LEMMA RecordNextInv ==
    ASSUME RecordInv, RecordNext
    PROVE  RecordInv'
<1>0. RecordTypes /\ \A o \in Ops : Behind(o)
  BY DEF RecordInv
<1>1. \A op \in Ops : /\ live[op] # NoRebuild => live[op] \in Records
                      /\ saved[op] # NoRebuild => saved[op] \in Records
                      /\ exported[op] # NoRebuild => exported[op] \in Nat
  BY <1>0 DEF RecordTypes
<1>2. second \in Nat
  BY <1>0 DEF RecordTypes
<1>3. CASE \E op \in Ops : StartOperation(op)
  <2>1. PICK op \in Ops : StartOperation(op)
    BY <1>3
  <2> DEFINE r == [phase |-> "preparing", done |-> 0, ck |-> 0, retries |-> 0,
                   at |-> "preparing", started |-> second, updated |-> second]
  <2>2. r \in Records
    BY <1>2 DEF Records, Stages
  <2>3. Save(op, r) /\ UNCHANGED <<exported, second>>
    BY <2>1 DEF StartOperation
  <2> QED
    BY <2>2, <2>3, SaveInv
<1>4. CASE \E op \in Ops : Transition(op)
  <2>1. PICK op \in Ops : Transition(op)
    BY <1>4
  <2> DEFINE p == NextPhase(live[op].phase)
             r == [live[op] EXCEPT !.phase = p, !.at = p, !.done = 0, !.updated = second,
                                   !.ck = IF p \in {"cleaning", "completed"} THEN 0 ELSE live[op].ck]
  <2>2. live[op] \in Records /\ live[op].phase \in Stages \ {"completed", "failed"}
    BY <1>1, <2>1 DEF Transition, InProgress, Records
  <2>3. p \in Stages
    BY <2>2, NextPhaseTyped
  <2>4. Save(op, r) /\ UNCHANGED <<exported, second>>
    BY <2>1 DEF Transition
  <2> HIDE DEF p
  <2>5. r \in Records
    BY <1>2, <2>2, <2>3 DEF Records
  <2> HIDE DEF r
  <2> QED
    BY <2>4, <2>5, SaveInv
<1>5. CASE \E op \in Ops : Progress(op)
  <2>1. PICK op \in Ops : Progress(op)
    BY <1>5
  <2> DEFINE k == CheckpointOf(op, live[op])
             n == live[op].done + 1
             q == [live[op] EXCEPT !.done = n, !.ck = k, !.updated = second]
  <2>2. live[op] # NoRebuild /\ live[op] \in Records /\ Advance(op, q)
    BY <1>1, <2>1 DEF Progress
  <2>3. k \in Nat
    BY <1>1 DEF CheckpointOf
  <2>4. n \in Nat
    BY <2>2 DEF Records
  <2> HIDE DEF k, n
  <2>5. q \in Records /\ q.phase = live[op].phase /\ q.done = n
    BY <1>2, <2>2, <2>3, <2>4 DEF Records
  <2> HIDE DEF q
  <2> QED
    BY <2>2, <2>5, AdvanceInv DEF n
<1>6. CASE \E op \in Ops : PlainProgress(op)
  <2>1. PICK op \in Ops : PlainProgress(op)
    BY <1>6
  <2> DEFINE n == live[op].done + 1
             q == [live[op] EXCEPT !.done = n, !.updated = second]
  <2>2. live[op] # NoRebuild /\ live[op] \in Records /\ Advance(op, q)
    BY <1>1, <2>1 DEF PlainProgress
  <2>3. n \in Nat
    BY <2>2 DEF Records
  <2> HIDE DEF n
  <2>4. q \in Records /\ q.phase = live[op].phase /\ q.done = n
    BY <1>2, <2>2, <2>3 DEF Records
  <2> HIDE DEF q
  <2> QED
    BY <2>2, <2>4, AdvanceInv DEF n
<1>7. CASE \E op \in Ops : FailOperation(op)
  <2>1. PICK op \in Ops : FailOperation(op)
    BY <1>7
  <2> DEFINE k == IF live[op].phase = "failed" THEN live[op].retries + 1 ELSE 0
             r == [live[op] EXCEPT !.phase = "failed", !.updated = second, !.retries = k]
  <2>2. live[op] \in Records /\ Save(op, r) /\ UNCHANGED <<exported, second>>
    BY <1>1, <2>1 DEF FailOperation
  <2>3. k \in Nat
    BY <2>2 DEF Records
  <2> HIDE DEF k
  <2>4. r \in Records
    BY <1>2, <2>2, <2>3 DEF Records, Stages
  <2> HIDE DEF r
  <2> QED
    BY <2>2, <2>4, SaveInv
<1>8. CASE \E op \in Ops : ResetForRetry(op)
  <2>1. PICK op \in Ops : ResetForRetry(op)
    BY <1>8
  <2> DEFINE r == [live[op] EXCEPT !.phase = live[op].at, !.updated = second]
  <2>2. live[op] \in Records /\ Save(op, r) /\ UNCHANGED <<exported, second>>
    BY <1>1, <2>1 DEF ResetForRetry
  <2>3. r \in Records
    BY <1>2, <2>2 DEF Records
  <2> HIDE DEF r
  <2> QED
    BY <2>2, <2>3, SaveInv
<1>9. CASE \E op \in Ops : ExportVectors(op) \/ CleanupCheckpoint(op)
  <2>1. live' = live /\ saved' = saved /\ exported' \in [Ops -> {NoRebuild} \cup Nat] /\ second' = second
    <3>1. \A op \in Ops : live[op] # NoRebuild => live[op].done \in Nat
      BY <1>1 DEF Records
    <3> QED
      BY <1>0, <1>9, <3>1 DEF ExportVectors, CleanupCheckpoint, RecordTypes
  <2> QED
    BY <1>0, <2>1 DEF RecordInv, RecordTypes, Behind
<1>10. CASE Crash
  <2>1. /\ \A o \in Ops : live'[o] = NoRebuild
        /\ UNCHANGED <<saved, exported, second>> /\ live' \in [Ops -> {NoRebuild} \cup Records]
    BY <1>10 DEF Crash
  <2> QED
    BY <1>0, <2>1 DEF RecordInv, RecordTypes, Behind
<1>11. CASE Recover
  <2>1. /\ \A o \in Ops : live'[o] # NoRebuild => live'[o] = saved[o]
        /\ UNCHANGED <<saved, exported, second>> /\ live' \in [Ops -> {NoRebuild} \cup Records]
    BY <1>0, <1>11 DEF Recover, RecordTypes
  <2>2. ASSUME NEW o \in Ops PROVE Behind(o)'
    <3> SUFFICES ASSUME live'[o] # NoRebuild PROVE Behind(o)'
      BY DEF Behind
    <3>1. live'[o] = saved[o] /\ saved'[o] = saved[o] /\ saved[o] # NoRebuild
      BY <2>1
    <3>2. saved[o].done \in Nat
      BY <1>1, <3>1 DEF Records
    <3>3. saved[o].done % Interval \in Nat /\ saved[o].done - saved[o].done = 0
      BY <3>2, RestStep, RecordAssumption
    <3> QED
      BY <3>1, <3>2, <3>3 DEF Behind
  <2> QED
    BY <1>0, <2>1, <2>2 DEF RecordInv, RecordTypes
<1>12. CASE CleanupRecords
  <2>1. /\ \A o \in Ops : \/ live'[o] = NoRebuild
                          \/ live'[o] = live[o] /\ saved'[o] = saved[o]
        /\ UNCHANGED <<exported, second>>
        /\ live' \in [Ops -> {NoRebuild} \cup Records] /\ saved' \in [Ops -> {NoRebuild} \cup Records]
    BY <1>0, <1>12 DEF CleanupRecords, RecordTypes
  <2>2. ASSUME NEW o \in Ops PROVE Behind(o)'
    BY <1>0, <2>1 DEF Behind
  <2> QED
    BY <1>0, <2>1, <2>2 DEF RecordInv, RecordTypes
<1>13. CASE Tick
  BY <1>0, <1>13 DEF Tick, RecordInv, RecordTypes, Behind
<1> QED
  BY <1>3, <1>4, <1>5, <1>6, <1>7, <1>8, <1>9, <1>10, <1>11, <1>12, <1>13 DEF RecordNext

LEMMA RecordKeepsUp == RecordSpec => []SavedKeepsUp
<1>1. RecordInit => RecordInv
  BY DEF RecordInit, RecordInv, RecordTypes, Behind
<1>2. RecordInv /\ UNCHANGED recordVars => RecordInv'
  BY DEF recordVars, RecordInv, RecordTypes, Behind
<1>3. RecordInv /\ [RecordNext]_recordVars => RecordInv'
  BY <1>2, RecordNextInv
<1>4. RecordInv => SavedKeepsUp
  <2> SUFFICES ASSUME RecordInv, NEW op \in Ops, live[op] # NoRebuild
               PROVE  /\ saved[op] # NoRebuild
                      /\ saved[op].phase = live[op].phase
                      /\ saved[op].done <= live[op].done /\ live[op].done - saved[op].done < Interval
    BY DEF SavedKeepsUp
  <2> DEFINE n == live[op].done
             m == saved[op].done
  <2>1. saved[op] # NoRebuild /\ saved[op].phase = live[op].phase /\ m <= n /\ n - m <= n % Interval
    BY DEF RecordInv, Behind
  <2>2. n \in Nat /\ m \in Nat
    BY <2>1 DEF RecordInv, RecordTypes, Records
  <2>3. Interval \in Nat \ {0}
    BY RecordAssumption
  <2>4. n % Interval \in Nat /\ n % Interval < Interval
    BY <2>2, <2>3, RestStep, Zenon
  <2> HIDE DEF n, m
  <2>5. n - m < Interval
    BY <2>1, <2>2, <2>3, <2>4
  <2> QED
    BY <2>1, <2>5 DEF n, m
<1> QED
  BY <1>1, <1>3, <1>4, PTL DEF RecordSpec

-----------------------------------------------------------------------------
(* The typed machine: its gauge is inductive as it stands.                 *)

LEMMA GaugeKept == GuardSpec => []OneGauge
<1>1. GuardInit => OneGauge
  BY DEF GuardInit, OneGauge
<1>2. OneGauge /\ [GuardNext]_guardVars => OneGauge'
  <2> SUFFICES ASSUME OneGauge, [GuardNext]_guardVars PROVE OneGauge'
    OBVIOUS
  <2>1. CASE UNCHANGED guardVars
    BY <2>1 DEF guardVars, OneGauge
  <2>2. CASE BeginRebuild \/ CompleteBuild \/ CompleteReplay \/ CompleteValidation \/ CompleteCleaning
    BY <2>2 DEF BeginRebuild, CompleteBuild, CompleteReplay, CompleteValidation, CompleteCleaning,
                Enter, Gauge, OneGauge
  <2>3. CASE \E s \in SUBSET Vectors : GiveShadow([live |-> s, tomb |-> {}])
    BY <2>3 DEF GiveShadow, Enter, Gauge, OneGauge
  <2>4. CASE Swap
    BY <2>4 DEF Swap, Gauge, OneGauge
  <2>5. CASE Abort
    BY <2>5 DEF Abort, Gauge, OneGauge
  <2>6. CASE \E i \in Vectors : Insert(i) \/ Delete(i)
    <3>1. fsm' = fsm /\ gauges' = gauges
      BY <2>6 DEF Insert, Delete
    <3> QED
      BY <3>1 DEF OneGauge
  <2> QED
    BY <2>1, <2>2, <2>3, <2>4, <2>5, <2>6 DEF GuardNext
<1> QED
  BY <1>1, <1>2, PTL DEF GuardSpec

(* Along an index rebuild, with its record and its typed machine, what     *)
(* searches read is what the callers were told, but for what the code      *)
(* gives up; the shadow is ready to be swapped in; a crash costs less than *)
(* an interval of work; and the gauge shows the machine's state.  For any  *)
(* number of writers, ids, rebuilds and writes, any interval and retries.  *)
THEOREM RebuildAlwaysSafe ==
    RebuildSpec /\ RecordSpec /\ GuardSpec => []RebuildSafe
<1>1. PrimaryServesAcked /\ ShadowFollows /\ SavedKeepsUp /\ OneGauge => RebuildSafe
  BY DEF RebuildSafe
<1> QED
  BY <1>1, RebuildServes, RecordKeepsUp, GaugeKept, PTL

-----------------------------------------------------------------------------
(***************************************************************************)
(* The directories of a generation (GenerationFiles).                      *)
(*                                                                         *)
(* What a call has still to do is read as a set (Todo) together with one   *)
(* order (Follows): what is done next comes before all that is left.  The  *)
(* invariant says of each operation in that set what makes it right, and   *)
(* of each file whether it is written already or is in that set.           *)
(***************************************************************************)

EarlyPhases == {"staged", "bundle_verified", "materializing"}
LatePhases == {"verified", "ready"}
PhaseNames == EarlyPhases \cup LatePhases \cup {"failed"}
JournalFiles == [of : Contents, phase : PhaseNames]
EvidenceFiles == [of : Contents, sum : Summaries]
FileValues ==
    Contents \cup JournalFiles \cup EvidenceFiles \cup {"torn", Nothing}
        \cup {m.name : m \in Contents} \cup {m.bundle : m \in Contents}

Dirs == {d \in [DirFiles -> FileValues] :
            /\ d["journal"] \in JournalFiles \cup {Nothing}
            /\ d["evidence"] \in EvidenceFiles \cup {Nothing}}

RevisionShadows == [rev : RevisionSeqs, input : Inputs, synced : BOOLEAN, rows : {"whole"}]
SealedRevisions == {s \in RevisionShadows : s.synced}
Volumes == [name : {"absent", "building", "ready"}, dir : Dirs,
            revs : [RevisionSeqs -> SealedRevisions \cup {Nothing}],
            pointers : RevisionSeqs \cup {0, Nothing}, owner : Replicas \cup {"empty", Nothing}]

DirDos == {"create", "write", "sync_dir", "flush", "sync_tree", "publish", "sync_parent", "loaded"}
RevisionDos == {"tree", "revise", "sync_revisions", "revised"}
FileOps ==
    [do : DirDos \cup RevisionDos \cup {"point", "sync_scope", "sync_root", "claimed"},
     file : DirFiles \cup Builders \cup Replicas \cup {Nothing},
     what : FileValues \cup RevisionSeqs \cup {0}]

(* The order of the operations of one call.                                *)
Stage(do) ==
    CASE do = "create" -> 0
      [] do \in {"write", "sync_dir"} -> 1
      [] do = "flush" -> 2
      [] do = "sync_tree" -> 3
      [] do = "publish" -> 4
      [] do = "sync_parent" -> 5
      [] do = "loaded" -> 6
      [] do = "tree" -> 7
      [] do = "revise" -> 8
      [] do = "sync_revisions" -> 9
      [] do = "revised" -> 10
      [] do = "point" -> 11
      [] do = "sync_scope" -> 12
      [] do = "sync_root" -> 13
      [] do = "claimed" -> 14

Follows(a, b) ==
    \/ Stage(a.do) < Stage(b.do)
    \/ /\ Stage(a.do) = 1 /\ Stage(b.do) = 1
       /\ ~(a.do = "write" /\ b.do = "write" /\ a.file = b.file)

Elems(s) == {s[i] : i \in 1..Len(s)}
InOrder(s) == \A i, j \in 1..Len(s) : i < j => Follows(s[i], s[j])
Orderly(s) == s \in Seq(FileOps) /\ InOrder(s)

Todo == Elems(script)
Has(do) == \E op \in Todo : op.do = do
Owes(f) == \E op \in Todo : op.do = "write" /\ op.file = f
HasFor(do, b) == \E op \in Todo : op.do = do /\ op.file = b

FilesTypes ==
    /\ now \in Volumes /\ disk \in Volumes
    /\ handle \in Contents \cup {Nothing} /\ filled \in BOOLEAN
    /\ shadows \in [Builders -> RevisionShadows \cup {Nothing}]
    /\ claimer \in Replicas \cup {Nothing}
    /\ told \in [ready : Dirs \cup {Nothing},
                 revs : [RevisionSeqs -> RevisionShadows \cup {Nothing}],
                 inputs : [RevisionSeqs -> SUBSET Inputs], claimed : SUBSET Replicas]
    /\ cuts \in Nat /\ deaths \in Nat
    /\ Orderly(script)

-----------------------------------------------------------------------------
(* The shadow and the sealed directory.                                    *)

(* The journal says that the rows are built.                               *)
Done(d) == d["journal"] # Nothing /\ d["journal"].phase \in LatePhases
Fresh == ~Done(now.dir) /\ ~Done(disk.dir)
RocksAre(m) == now.dir["rocks"] = m.name /\ disk.dir["rocks"] = m.name

CreateFits ==
    Has("create") =>
        /\ now.name = "absent" /\ ~filled /\ handle # Nothing
        /\ Owes("manifest") /\ Owes("digest") /\ Owes("journal")

(* The journal calls the rows built only when they are on disk, and goes   *)
(* back to a phase that rebuilds them only when no journal, seen or        *)
(* synced, calls them built.                                               *)
WriteFits(op) ==
    /\ handle # Nothing
    /\ op.file \in DirFiles /\ op.what \in FileValues
    /\ Has("create") \/ now.name = "building"
    /\ op.file \in {"manifest", "digest"} => op.what = handle
    /\ op.file = "evidence" => op.what \in EvidenceFiles
    /\ op.file = "rocks" => op.what = handle.name /\ filled /\ Fresh /\ Has("flush")
    /\ op.file = "journal" =>
          /\ op.what \in JournalFiles /\ op.what.of = handle
          /\ op.what.phase \in EarlyPhases => Has("create") \/ Fresh
          /\ op.what.phase \in LatePhases => RocksAre(handle) /\ ~Owes("rocks") /\ ~Has("create")

WritesFit == \A op \in Todo : op.do = "write" => WriteFits(op)

RocksOK ==
    /\ Done(now.dir) => RocksAre(now.dir["journal"].of)
    /\ Done(disk.dir) => RocksAre(disk.dir["journal"].of)
    /\ now.dir["journal"] # Nothing /\ now.dir["journal"].phase \in EarlyPhases => ~Done(disk.dir)
    /\ filled /\ ~Owes("rocks") =>
          now.dir["rocks"] = handle.name /\ (Has("flush") \/ disk.dir["rocks"] = handle.name)

IdentityOK ==
    handle # Nothing /\ now.name = "building" =>
        /\ Owes("manifest") \/ now.dir["manifest"] = handle
        /\ Owes("digest") \/ now.dir["digest"] = handle
        /\ Owes("journal") \/ ValidJournal(now.dir, handle)

SealWrites(op) ==
    \/ op.file = "marker" /\ op.what = [of |-> handle, sum |-> now.dir["evidence"].sum]
    \/ op.file = "journal" /\ op.what = [of |-> handle, phase |-> "ready"]

PublishOK ==
    Has("publish") =>
        /\ now.name = "building" /\ handle # Nothing /\ ~Has("create")
        /\ VerifiedBundle(now.dir, handle) /\ ValidEvidence(now.dir, handle)
        /\ RocksAre(handle)
        /\ \A op \in Todo : op.do = "write" => Has("sync_tree") /\ SealWrites(op)
        /\ Owes("marker") \/ (ValidMarker(now.dir, handle) /\ MarkerOfEvidence(now.dir))
        /\ Owes("journal") \/ now.dir["journal"] = [of |-> handle, phase |-> "ready"]
        /\ Has("sync_tree") \/ disk.dir = now.dir

ReadyOK ==
    /\ now.name = "ready" =>
          /\ Loads(now.dir) /\ now.dir["rocks"] = now.dir["manifest"].name
          /\ disk.dir = now.dir
          /\ ~Has("write") /\ ~Has("create") /\ ~Has("publish")
    /\ disk.name = "ready" => now.name = "ready"
    /\ told.ready # Nothing => disk.name = "ready" /\ disk.dir = told.ready
    /\ Has("loaded") => \/ Has("publish") /\ Has("sync_parent")
                        \/ now.name = "ready" /\ (Has("sync_parent") \/ disk.name = "ready")

DirOK == CreateFits /\ WritesFit /\ RocksOK /\ IdentityOK /\ PublishOK /\ ReadyOK

-----------------------------------------------------------------------------
(* Revisions, the pointer cache and the owner file.                        *)

RevisionOpFits(op) ==
    /\ op.do \in {"tree", "revise", "revised"} => op.file \in Builders /\ shadows[op.file] # Nothing
    /\ op.do = "revise" => /\ now.revs[shadows[op.file].rev] = Nothing
                           /\ HasFor("tree", op.file) \/ shadows[op.file].synced
    /\ op.do = "revised" =>
          \/ HasFor("revise", op.file) /\ Has("sync_revisions")
          \/ /\ now.revs[shadows[op.file].rev] = shadows[op.file]
             /\ Has("sync_revisions") \/ disk.revs[shadows[op.file].rev] = shadows[op.file]

RevisionsOK ==
    /\ \A op \in Todo : RevisionOpFits(op)
    /\ \A a, b \in Todo : {a.do, b.do} \subseteq {"tree", "revise", "revised"} => a.file = b.file
    /\ \A r \in RevisionSeqs :
          /\ told.revs[r] # Nothing => told.revs[r] = now.revs[r] /\ told.revs[r] = disk.revs[r]
          /\ cuts = 0 => \A i \in told.inputs[r] : now.revs[r] # Nothing /\ now.revs[r].input = i

PointedAt(p) == now.name = "ready" /\ (p # 0 => p \in RevisionSeqs /\ now.revs[p] # Nothing)

PointersOK ==
    /\ cuts = 0 => now.pointers = Nothing \/ PointedAt(now.pointers)
    /\ \A op \in Todo : op.do = "point" => op.what \in RevisionSeqs \cup {0} /\ PointedAt(op.what)

OwnerOK ==
    /\ ClaimIsForGood
    /\ claimer # Nothing => told.claimed = {} /\ script = <<>>
    /\ \A op \in Todo : op.do = "claimed" =>
          /\ told.claimed = {} /\ op.file \in Replicas /\ now.owner = op.file
          /\ Has("sync_root") \/ disk.owner = op.file

FilesInv == FilesTypes /\ DirOK /\ RevisionsOK /\ PointersOK /\ OwnerOK

-----------------------------------------------------------------------------
(* Scripts.                                                                *)

LEMMA JoinedScripts ==
    ASSUME NEW s, NEW t, Orderly(s), Orderly(t),
           \A a \in Elems(s), b \in Elems(t) : Follows(a, b)
    PROVE  /\ Orderly(s \o t)
           /\ Elems(s \o t) = Elems(s) \cup Elems(t)
<1>1. s \in Seq(FileOps) /\ t \in Seq(FileOps) /\ s \o t \in Seq(FileOps)
  BY DEF Orderly
<1>2. /\ Len(s \o t) = Len(s) + Len(t) /\ Len(s) \in Nat /\ Len(t) \in Nat
      /\ \A i \in 1..Len(s) : (s \o t)[i] = s[i]
      /\ \A i \in 1..Len(t) : (s \o t)[Len(s) + i] = t[i]
      /\ \A i \in 1..Len(s \o t) : i > Len(s) => (s \o t)[i] = t[i - Len(s)]
  BY <1>1
<1>3. ASSUME NEW i \in 1..Len(s \o t), NEW j \in 1..Len(s \o t), i < j
      PROVE  Follows((s \o t)[i], (s \o t)[j])
  <2>1. CASE j <= Len(s)
    <3>1. i \in 1..Len(s) /\ j \in 1..Len(s)
      BY <1>2, <1>3, <2>1
    <3> QED BY <3>1, <1>2, <1>3 DEF Orderly, InOrder
  <2>2. CASE i > Len(s)
    <3>1. /\ i - Len(s) \in 1..Len(t) /\ j - Len(s) \in 1..Len(t) /\ i - Len(s) < j - Len(s)
          /\ (s \o t)[i] = t[i - Len(s)] /\ (s \o t)[j] = t[j - Len(s)]
      BY <1>2, <1>3, <2>2
    <3> QED BY <3>1 DEF Orderly, InOrder
  <2>3. CASE i <= Len(s) /\ j > Len(s)
    <3>1. /\ i \in 1..Len(s) /\ j - Len(s) \in 1..Len(t)
          /\ (s \o t)[i] = s[i] /\ (s \o t)[j] = t[j - Len(s)]
      BY <1>2, <1>3, <2>3
    <3>2. s[i] \in Elems(s) /\ t[j - Len(s)] \in Elems(t)
      BY <3>1 DEF Elems
    <3> QED BY <3>1, <3>2
  <2> QED BY <2>1, <2>2, <2>3, <1>2
<1>4. Elems(s \o t) \subseteq Elems(s) \cup Elems(t)
  <2> SUFFICES ASSUME NEW i \in 1..Len(s \o t) PROVE (s \o t)[i] \in Elems(s) \cup Elems(t)
    BY DEF Elems
  <2>1. \/ i \in 1..Len(s) /\ (s \o t)[i] = s[i]
        \/ i - Len(s) \in 1..Len(t) /\ (s \o t)[i] = t[i - Len(s)]
    BY <1>2
  <2> QED BY <2>1 DEF Elems
<1>5. Elems(s) \subseteq Elems(s \o t)
  <2> SUFFICES ASSUME NEW i \in 1..Len(s) PROVE s[i] \in Elems(s \o t)
    BY DEF Elems
  <2>1. i \in 1..Len(s \o t) /\ (s \o t)[i] = s[i]
    BY <1>2
  <2> QED BY <2>1 DEF Elems
<1>6. Elems(t) \subseteq Elems(s \o t)
  <2> SUFFICES ASSUME NEW i \in 1..Len(t) PROVE t[i] \in Elems(s \o t)
    BY DEF Elems
  <2>1. Len(s) + i \in 1..Len(s \o t) /\ (s \o t)[Len(s) + i] = t[i]
    BY <1>2
  <2> QED BY <2>1 DEF Elems
<1> QED BY <1>1, <1>3, <1>4, <1>5, <1>6 DEF Orderly, InOrder

(* What is done next comes before all that is left.                        *)
LEMMA ScriptMoves ==
    ASSUME NEW s, Orderly(s), s # <<>>
    PROVE  /\ Head(s) \in FileOps /\ Orderly(Tail(s))
           /\ Elems(s) = {Head(s)} \cup Elems(Tail(s))
           /\ \A op \in Elems(Tail(s)) : Follows(Head(s), op)
<1>1. /\ s \in Seq(FileOps) /\ Head(s) = s[1] /\ Tail(s) \in Seq(FileOps)
      /\ Len(s) \in Nat /\ Len(s) > 0 /\ Len(Tail(s)) = Len(s) - 1
      /\ \A i \in 1..Len(Tail(s)) : Tail(s)[i] = s[i + 1] /\ i + 1 \in 1..Len(s)
  BY DEF Orderly
<1>2. InOrder(Tail(s))
  <2> SUFFICES ASSUME NEW i \in 1..Len(Tail(s)), NEW j \in 1..Len(Tail(s)), i < j
               PROVE  Follows(Tail(s)[i], Tail(s)[j])
    BY DEF InOrder
  <2>1. i + 1 \in 1..Len(s) /\ j + 1 \in 1..Len(s) /\ i + 1 < j + 1
    BY <1>1
  <2> QED BY <2>1, <1>1 DEF Orderly, InOrder
<1>3. Elems(s) \subseteq {Head(s)} \cup Elems(Tail(s))
  <2> SUFFICES ASSUME NEW i \in 1..Len(s), i # 1 PROVE s[i] \in Elems(Tail(s))
    BY <1>1 DEF Elems
  <2>1. i - 1 \in 1..Len(Tail(s)) /\ Tail(s)[i - 1] = s[i]
    BY <1>1
  <2> QED BY <2>1 DEF Elems
<1>4. \A i \in 1..Len(Tail(s)) : Tail(s)[i] \in Elems(s) /\ Follows(Head(s), Tail(s)[i])
  <2> TAKE i \in 1..Len(Tail(s))
  <2>1. i + 1 \in 1..Len(s) /\ 1 \in 1..Len(s) /\ 1 < i + 1 /\ Tail(s)[i] = s[i + 1]
    BY <1>1
  <2> QED BY <2>1, <1>1 DEF Orderly, InOrder, Elems
<1>5. Head(s) \in Elems(s) /\ Head(s) \in FileOps
  BY <1>1 DEF Elems
<1> QED BY <1>1, <1>2, <1>3, <1>4, <1>5 DEF Orderly, Elems

LEMMA ScriptEnds ==
    /\ Orderly(<<>>) /\ Elems(<<>>) = {}
    /\ script = <<>> => Todo = {}
BY DEF Orderly, InOrder, Elems, Todo

LEMMA OneOp ==
    ASSUME NEW a \in FileOps
    PROVE  Orderly(<<a>>) /\ Elems(<<a>>) = {a}
<1>1. <<a>> \in Seq(FileOps) /\ Len(<<a>>) = 1 /\ <<a>>[1] = a
  OBVIOUS
<1> QED BY <1>1 DEF Orderly, InOrder, Elems

LEMMA TwoOps ==
    ASSUME NEW a \in FileOps, NEW b \in FileOps, Follows(a, b)
    PROVE  Orderly(<<a, b>>) /\ Elems(<<a, b>>) = {a, b}
<1>1. <<a, b>> \in Seq(FileOps) /\ Len(<<a, b>>) = 2 /\ <<a, b>>[1] = a /\ <<a, b>>[2] = b
  OBVIOUS
<1>2. InOrder(<<a, b>>)
  BY <1>1 DEF InOrder
<1>3. Elems(<<a, b>>) = {a, b}
  BY <1>1 DEF Elems
<1> QED BY <1>1, <1>2, <1>3 DEF Orderly

LEMMA FourOps ==
    ASSUME NEW a \in FileOps, NEW b \in FileOps, NEW c \in FileOps, NEW d \in FileOps,
           Follows(a, b), Follows(a, c), Follows(a, d),
           Follows(b, c), Follows(b, d), Follows(c, d)
    PROVE  Orderly(<<a, b, c, d>>) /\ Elems(<<a, b, c, d>>) = {a, b, c, d}
<1> DEFINE s == <<a, b, c, d>>
<1>1. s \in Seq(FileOps) /\ Len(s) = 4 /\ s[1] = a /\ s[2] = b /\ s[3] = c /\ s[4] = d
  OBVIOUS
<1> HIDE DEF s
<1>2. InOrder(s)
  BY <1>1 DEF InOrder
<1>3. Elems(s) = {a, b, c, d}
  BY <1>1 DEF Elems
<1>4. Orderly(s) /\ Elems(s) = {a, b, c, d}
  BY <1>1, <1>2, <1>3 DEF Orderly
<1> QED BY <1>4 DEF s

LEMMA PlainOp ==
    ASSUME NEW do \in DirDos \cup RevisionDos \cup {"point", "sync_scope", "sync_root", "claimed"}
    PROVE  Plain(do) \in FileOps /\ Plain(do).do = do
BY DEF Plain, Op, FileOps, FileValues

LEMMA WriteOp ==
    ASSUME NEW f \in DirFiles, NEW w \in FileValues
    PROVE  /\ Op("write", f, w) \in FileOps
           /\ Op("write", f, w).do = "write" /\ Op("write", f, w).file = f /\ Op("write", f, w).what = w
BY DEF Op, FileOps, DirDos

LEMMA AtomicWriteOps ==
    ASSUME NEW f \in DirFiles, NEW w \in FileValues
    PROVE  /\ Orderly(AtomicWrite(f, w))
           /\ Elems(AtomicWrite(f, w)) = {Op("write", f, w), Plain("sync_dir")}
<1>1. /\ Op("write", f, w) \in FileOps /\ Op("write", f, w).do = "write"
      /\ Plain("sync_dir") \in FileOps /\ Plain("sync_dir").do = "sync_dir"
  BY WriteOp, PlainOp DEF DirDos
<1>2. Follows(Op("write", f, w), Plain("sync_dir"))
  BY <1>1 DEF Follows, Stage
<1> QED BY <1>1, <1>2, TwoOps DEF AtomicWrite

LEMMA TwoWrites ==
    ASSUME NEW f \in DirFiles, NEW w \in FileValues, NEW g \in DirFiles \ {f}, NEW x \in FileValues
    PROVE  /\ Orderly(AtomicWrite(f, w) \o AtomicWrite(g, x))
           /\ Elems(AtomicWrite(f, w) \o AtomicWrite(g, x))
                = {Op("write", f, w), Op("write", g, x), Plain("sync_dir")}
<1>1. /\ Orderly(AtomicWrite(f, w)) /\ Orderly(AtomicWrite(g, x))
      /\ Elems(AtomicWrite(f, w)) = {Op("write", f, w), Plain("sync_dir")}
      /\ Elems(AtomicWrite(g, x)) = {Op("write", g, x), Plain("sync_dir")}
  BY AtomicWriteOps
<1>2. /\ Op("write", f, w).do = "write" /\ Op("write", f, w).file = f
      /\ Op("write", g, x).do = "write" /\ Op("write", g, x).file = g
      /\ Plain("sync_dir").do = "sync_dir"
  BY WriteOp, PlainOp DEF DirDos
<1>3. \A a \in Elems(AtomicWrite(f, w)), b \in Elems(AtomicWrite(g, x)) : Follows(a, b)
  BY <1>1, <1>2 DEF Follows, Stage
<1> QED BY <1>1, <1>3, JoinedScripts

CreateScript(m) ==
    <<Plain("create")>> \o AtomicWrite("manifest", m) \o AtomicWrite("digest", m)
        \o WriteJournal(m, "staged") \o <<Plain("sync_dir"), Plain("sync_parent")>>

LEMMA CreateOps ==
    ASSUME NEW m \in Contents
    PROVE  /\ Orderly(CreateScript(m))
           /\ Elems(CreateScript(m)) =
                {Plain("create"), Plain("sync_dir"), Plain("sync_parent"),
                 Op("write", "manifest", m), Op("write", "digest", m),
                 Op("write", "journal", [of |-> m, phase |-> "staged"])}
<1> DEFINE j == [of |-> m, phase |-> "staged"]
           a == <<Plain("create")>>
           b == a \o AtomicWrite("manifest", m)
           c == b \o AtomicWrite("digest", m)
           d == c \o AtomicWrite("journal", j)
           e == <<Plain("sync_dir"), Plain("sync_parent")>>
<1>1. /\ Plain("create") \in FileOps /\ Plain("create").do = "create"
      /\ Plain("sync_dir") \in FileOps /\ Plain("sync_dir").do = "sync_dir"
      /\ Plain("sync_parent") \in FileOps /\ Plain("sync_parent").do = "sync_parent"
  BY PlainOp DEF DirDos
<1>2. m \in FileValues /\ j \in FileValues /\ {"manifest", "digest", "journal"} \subseteq DirFiles
  BY DEF FileValues, JournalFiles, PhaseNames, EarlyPhases, DirFiles
<1>3. /\ Op("write", "manifest", m).do = "write" /\ Op("write", "manifest", m).file = "manifest"
      /\ Op("write", "digest", m).do = "write" /\ Op("write", "digest", m).file = "digest"
      /\ Op("write", "journal", j).do = "write" /\ Op("write", "journal", j).file = "journal"
  BY <1>2, WriteOp
<1>4. /\ Orderly(AtomicWrite("manifest", m)) /\ Orderly(AtomicWrite("digest", m))
      /\ Orderly(AtomicWrite("journal", j))
      /\ Elems(AtomicWrite("manifest", m)) = {Op("write", "manifest", m), Plain("sync_dir")}
      /\ Elems(AtomicWrite("digest", m)) = {Op("write", "digest", m), Plain("sync_dir")}
      /\ Elems(AtomicWrite("journal", j)) = {Op("write", "journal", j), Plain("sync_dir")}
  BY <1>2, AtomicWriteOps
<1>5. Orderly(a) /\ Elems(a) = {Plain("create")}
  BY <1>1, OneOp
<1>6. Orderly(e) /\ Elems(e) = {Plain("sync_dir"), Plain("sync_parent")}
  <2>1. Follows(Plain("sync_dir"), Plain("sync_parent"))
    BY <1>1 DEF Follows, Stage
  <2> QED BY <2>1, <1>1, TwoOps
<1> HIDE DEF a, e, j
<1>7. Orderly(b) /\ Elems(b) = {Plain("create"), Op("write", "manifest", m), Plain("sync_dir")}
  <2>1. \A x \in Elems(a), y \in Elems(AtomicWrite("manifest", m)) : Follows(x, y)
    BY <1>1, <1>3, <1>4, <1>5 DEF Follows, Stage
  <2> QED BY <2>1, <1>4, <1>5, JoinedScripts
<1> HIDE DEF b
<1>8. Orderly(c) /\ Elems(c) = {Plain("create"), Op("write", "manifest", m), Op("write", "digest", m), Plain("sync_dir")}
  <2>1. \A x \in Elems(b), y \in Elems(AtomicWrite("digest", m)) : Follows(x, y)
    BY <1>1, <1>3, <1>4, <1>7 DEF Follows, Stage
  <2> QED BY <2>1, <1>4, <1>7, JoinedScripts
<1> HIDE DEF c
<1>9. Orderly(d) /\ Elems(d) = {Plain("create"), Op("write", "manifest", m), Op("write", "digest", m),
                                Op("write", "journal", j), Plain("sync_dir")}
  <2>1. \A x \in Elems(c), y \in Elems(AtomicWrite("journal", j)) : Follows(x, y)
    BY <1>1, <1>3, <1>4, <1>8 DEF Follows, Stage
  <2> QED BY <2>1, <1>4, <1>8, JoinedScripts
<1> HIDE DEF d
<1>10. \A x \in Elems(d), y \in Elems(e) : Follows(x, y)
  BY <1>1, <1>3, <1>6, <1>9 DEF Follows, Stage
<1>11. Orderly(d \o e) /\ Elems(d \o e) = Elems(d) \cup Elems(e)
  BY <1>6, <1>9, <1>10, JoinedScripts
<1>12. CreateScript(m) = d \o e
  BY DEF CreateScript, WriteJournal, a, b, c, d, e, j
<1> QED BY <1>6, <1>9, <1>11, <1>12 DEF j

LEMMA PublishOps ==
    /\ Orderly(PublishReady)
    /\ Elems(PublishReady) = {Plain("sync_tree"), Plain("publish"), Plain("sync_parent"), Plain("loaded")}
    /\ Plain("sync_tree").do = "sync_tree" /\ Plain("publish").do = "publish"
    /\ Plain("sync_parent").do = "sync_parent" /\ Plain("loaded").do = "loaded"
<1>1. /\ Plain("sync_tree") \in FileOps /\ Plain("sync_tree").do = "sync_tree"
      /\ Plain("publish") \in FileOps /\ Plain("publish").do = "publish"
      /\ Plain("sync_parent") \in FileOps /\ Plain("sync_parent").do = "sync_parent"
      /\ Plain("loaded") \in FileOps /\ Plain("loaded").do = "loaded"
  BY PlainOp DEF DirDos
<1>2. /\ Follows(Plain("sync_tree"), Plain("publish")) /\ Follows(Plain("sync_tree"), Plain("sync_parent"))
      /\ Follows(Plain("sync_tree"), Plain("loaded")) /\ Follows(Plain("publish"), Plain("sync_parent"))
      /\ Follows(Plain("publish"), Plain("loaded")) /\ Follows(Plain("sync_parent"), Plain("loaded"))
  BY <1>1 DEF Follows, Stage
<1> QED BY <1>1, <1>2, FourOps DEF PublishReady

LEMMA SealOps ==
    ASSUME NEW m \in Contents, NEW n \in Summaries
    PROVE  LET k == [of |-> m, sum |-> n]
               s == AtomicWrite("marker", k) \o WriteJournal(m, "ready") \o PublishReady
           IN  /\ Orderly(s)
               /\ Elems(s) = {Op("write", "marker", k), Op("write", "journal", [of |-> m, phase |-> "ready"]),
                              Plain("sync_dir")} \cup Elems(PublishReady)
<1> DEFINE k == [of |-> m, sum |-> n]
           j == [of |-> m, phase |-> "ready"]
           a == AtomicWrite("marker", k) \o AtomicWrite("journal", j)
<1>1. k \in FileValues /\ j \in FileValues /\ {"marker", "journal"} \subseteq DirFiles
  BY DEF FileValues, JournalFiles, EvidenceFiles, PhaseNames, LatePhases, DirFiles
<1>2. Orderly(a) /\ Elems(a) = {Op("write", "marker", k), Op("write", "journal", j), Plain("sync_dir")}
  BY <1>1, TwoWrites
<1>3. /\ Op("write", "marker", k).do = "write" /\ Op("write", "journal", j).do = "write"
      /\ Plain("sync_dir").do = "sync_dir"
  BY <1>1, WriteOp, PlainOp DEF DirDos
<1> HIDE DEF k, j, a
<1>4. \A x \in Elems(a), y \in Elems(PublishReady) : Follows(x, y)
  BY <1>2, <1>3, PublishOps DEF Follows, Stage
<1>5. Orderly(a \o PublishReady) /\ Elems(a \o PublishReady) = Elems(a) \cup Elems(PublishReady)
  BY <1>2, <1>4, PublishOps, JoinedScripts
<1> QED BY <1>2, <1>5 DEF a, k, j, WriteJournal

LEMMA RevisionOps ==
    ASSUME NEW b \in Builders
    PROVE  /\ Orderly(PublishRevision(b))
           /\ Elems(PublishRevision(b)) = {Op("tree", b, Nothing), Op("revise", b, Nothing),
                                           Plain("sync_revisions"), Op("revised", b, Nothing)}
           /\ Op("tree", b, Nothing).do = "tree" /\ Op("tree", b, Nothing).file = b
           /\ Op("revise", b, Nothing).do = "revise" /\ Op("revise", b, Nothing).file = b
           /\ Op("revised", b, Nothing).do = "revised" /\ Op("revised", b, Nothing).file = b
           /\ Plain("sync_revisions").do = "sync_revisions"
<1> DEFINE t == Op("tree", b, Nothing)
           r == Op("revise", b, Nothing)
           y == Plain("sync_revisions")
           e == Op("revised", b, Nothing)
<1>1. /\ t \in FileOps /\ t.do = "tree" /\ t.file = b
      /\ r \in FileOps /\ r.do = "revise" /\ r.file = b
      /\ e \in FileOps /\ e.do = "revised" /\ e.file = b
      /\ y \in FileOps /\ y.do = "sync_revisions"
  BY DEF Plain, Op, FileOps, FileValues, RevisionDos
<1> HIDE DEF t, r, y, e
<1>2. /\ Follows(t, r) /\ Follows(t, y) /\ Follows(t, e)
      /\ Follows(r, y) /\ Follows(r, e) /\ Follows(y, e)
  BY <1>1 DEF Follows, Stage
<1>3. Orderly(<<t, r, y, e>>) /\ Elems(<<t, r, y, e>>) = {t, r, y, e}
  BY <1>1, <1>2, FourOps
<1> QED BY <1>1, <1>3 DEF PublishRevision, t, r, y, e

-----------------------------------------------------------------------------
(* A part of the invariant holds as long as its files and its operations   *)
(* are left alone.                                                         *)

SameDir ==
    /\ now'.name = now.name /\ now'.dir = now.dir
    /\ disk'.name = disk.name /\ disk'.dir = disk.dir
    /\ told'.ready = told.ready
    /\ UNCHANGED <<handle, filled>>
SameRevisions ==
    /\ now'.revs = now.revs /\ disk'.revs = disk.revs
    /\ told'.revs = told.revs /\ told'.inputs = told.inputs
    /\ UNCHANGED <<shadows, cuts>>
SameOwner ==
    /\ now'.owner = now.owner /\ disk'.owner = disk.owner
    /\ told'.claimed = told.claimed /\ UNCHANGED claimer
SameTodo(dos) == \A op : op.do \in dos => (op \in Todo' <=> op \in Todo)

LEMMA DirKept ==
    ASSUME DirOK, SameDir, SameTodo(DirDos)
    PROVE  DirOK'
<1>1. /\ Has("create")' = Has("create") /\ Has("publish")' = Has("publish")
      /\ Has("flush")' = Has("flush") /\ Has("sync_tree")' = Has("sync_tree")
      /\ Has("sync_parent")' = Has("sync_parent") /\ Has("loaded")' = Has("loaded")
      /\ Has("write")' = Has("write")
  BY DEF SameTodo, Has, DirDos
<1>2. \A f : Owes(f)' = Owes(f)
  BY DEF SameTodo, Owes, DirDos
<1>3. \A op : op.do = "write" => (op \in Todo' <=> op \in Todo)
  BY DEF SameTodo, DirDos
<1>4. /\ Fresh' = Fresh /\ (\A m : RocksAre(m)' = RocksAre(m))
      /\ Done(now.dir)' = Done(now.dir) /\ Done(disk.dir)' = Done(disk.dir)
  BY DEF SameDir, Fresh, RocksAre, Done
<1>5. CreateFits'
  BY <1>1, <1>2 DEF DirOK, CreateFits, SameDir
<1>6. WritesFit'
  <2> SUFFICES ASSUME NEW op, op \in Todo', op.do = "write" PROVE WriteFits(op)'
    BY DEF WritesFit
  <2>1. WriteFits(op)
    BY <1>3 DEF DirOK, WritesFit
  <2> QED BY <2>1, <1>1, <1>2, <1>4 DEF WriteFits, SameDir
<1>7. RocksOK'
  BY <1>1, <1>2, <1>4 DEF DirOK, RocksOK, SameDir
<1>8. IdentityOK'
  BY <1>2 DEF DirOK, IdentityOK, ValidJournal, SameDir
<1>9. PublishOK'
  BY <1>1, <1>2, <1>3, <1>4 DEF DirOK, PublishOK, SealWrites, VerifiedBundle, ValidEvidence, ValidMarker, MarkerOfEvidence, SameDir
<1>10. ReadyOK'
  BY <1>1 DEF DirOK, ReadyOK, Loads, ValidMarker, VerifiedBundle, ValidEvidence, MarkerOfEvidence, ValidJournal, SameDir
<1> QED BY <1>5, <1>6, <1>7, <1>8, <1>9, <1>10 DEF DirOK

LEMMA RevisionsKept ==
    ASSUME RevisionsOK, SameRevisions, SameTodo(RevisionDos)
    PROVE  RevisionsOK'
<1>1. /\ Has("sync_revisions")' = Has("sync_revisions")
      /\ \A b : HasFor("tree", b)' = HasFor("tree", b) /\ HasFor("revise", b)' = HasFor("revise", b)
  BY DEF SameTodo, Has, HasFor, RevisionDos
<1>2. \A op : op.do \in {"tree", "revise", "revised"} => (op \in Todo' <=> op \in Todo)
  BY DEF SameTodo, RevisionDos
<1>3. \A op \in Todo' : RevisionOpFits(op)'
  <2> SUFFICES ASSUME NEW op, op \in Todo', op.do \in {"tree", "revise", "revised"}
               PROVE  RevisionOpFits(op)'
    BY DEF RevisionOpFits
  <2>1. RevisionOpFits(op)
    BY <1>2 DEF RevisionsOK
  <2> QED BY <2>1, <1>1 DEF RevisionOpFits, SameRevisions
<1>4. \A a, b \in Todo' : {a.do, b.do} \subseteq {"tree", "revise", "revised"} => a.file = b.file
  BY <1>2 DEF RevisionsOK
<1> QED BY <1>3, <1>4 DEF RevisionsOK, SameRevisions

(* Pointers stay right while the directory stays ready and revisions stay. *)
LEMMA PointersKept ==
    ASSUME PointersOK, cuts' = cuts, now'.pointers = now.pointers,
           now.name = "ready" => now'.name = "ready",
           \A r \in RevisionSeqs : now.revs[r] # Nothing => now'.revs[r] # Nothing,
           \A op \in Todo' : op.do = "point" => op \in Todo
    PROVE  PointersOK'
<1>1. \A p : PointedAt(p) => PointedAt(p)'
  BY DEF PointedAt
<1>2. cuts' = 0 => now'.pointers = Nothing \/ PointedAt(now.pointers)'
  BY <1>1 DEF PointersOK
<1>3. \A op \in Todo' : op.do = "point" => op.what \in RevisionSeqs \cup {0} /\ PointedAt(op.what)'
  BY <1>1 DEF PointersOK
<1> QED BY <1>2, <1>3 DEF PointersOK, PointedAt

LEMMA OwnerKept ==
    ASSUME OwnerOK, SameOwner, SameTodo({"sync_root", "claimed"}),
           claimer # Nothing => script' = <<>>
    PROVE  OwnerOK'
<1>1. Has("sync_root")' = Has("sync_root")
  BY DEF SameTodo, Has
<1>2. \A op : op.do = "claimed" => (op \in Todo' <=> op \in Todo)
  BY DEF SameTodo
<1> QED BY <1>1, <1>2 DEF OwnerOK, SameOwner, ClaimIsForGood

-----------------------------------------------------------------------------
(* One operation of a script.                                              *)

StepOf(h) ==
    /\ h \in FileOps
    /\ Todo = {h} \cup Todo'
    /\ \A op \in Todo' : op \in FileOps /\ Follows(h, op)
    /\ UNCHANGED <<handle, filled, claimer, cuts, deaths>>

LEMMA StageIs ==
    ASSUME NEW do \in DirDos \cup RevisionDos \cup {"point", "sync_scope", "sync_root", "claimed"}
    PROVE  /\ do = "create" => Stage(do) = 0
           /\ do \in {"write", "sync_dir"} => Stage(do) = 1
           /\ do \notin {"create", "write", "sync_dir"} => Stage(do) \in 2..14
<1>1. do = "create" => Stage(do) = 0
  BY DEF Stage
<1>2. do \in {"write", "sync_dir"} => Stage(do) = 1
  BY DEF Stage
<1>3. /\ (do = "flush" => Stage(do) = 2)
      /\ (do = "sync_tree" => Stage(do) = 3)
      /\ (do = "publish" => Stage(do) = 4)
      /\ (do = "sync_parent" => Stage(do) = 5)
      /\ (do = "loaded" => Stage(do) = 6)
      /\ (do = "tree" => Stage(do) = 7)
      /\ (do = "revise" => Stage(do) = 8)
      /\ (do = "sync_revisions" => Stage(do) = 9)
      /\ (do = "revised" => Stage(do) = 10)
      /\ (do = "point" => Stage(do) = 11)
      /\ (do = "sync_scope" => Stage(do) = 12)
      /\ (do = "sync_root" => Stage(do) = 13)
      /\ (do = "claimed" => Stage(do) = 14)
  BY DEF Stage
<1> QED BY <1>1, <1>2, <1>3 DEF DirDos, RevisionDos

LEMMA ScriptStep ==
    ASSUME FilesTypes, DoOperation
    PROVE  StepOf(Head(script)) /\ Orderly(script')
<1>1. /\ Orderly(script) /\ script # <<>> /\ script' = Tail(script)
      /\ UNCHANGED <<handle, filled, claimer, cuts, deaths>>
  BY DEF FilesTypes, DoOperation
<1>2. /\ Head(script) \in FileOps /\ Orderly(Tail(script))
      /\ Elems(script) = {Head(script)} \cup Elems(Tail(script))
      /\ \A op \in Elems(Tail(script)) : Follows(Head(script), op)
  BY <1>1, ScriptMoves
<1>3. Todo' = Elems(Tail(script))
  BY <1>1 DEF Todo
<1>4. \A op \in Elems(Tail(script)) : op \in FileOps
  BY <1>2 DEF Orderly, Elems
<1> QED BY <1>1, <1>2, <1>3, <1>4 DEF StepOf, Todo

LEMMA StepLeaves ==
    ASSUME NEW h, StepOf(h)
    PROVE  /\ \A do : do # h.do => Has(do)' = Has(do)
           /\ \A f : (h.do # "write" \/ h.file # f) => Owes(f)' = Owes(f)
           /\ h.do = "write" => ~Owes(h.file)' /\ ~Has("create")
           /\ h.do \notin {"write", "sync_dir"} => ~Has(h.do)'
           /\ h.do \notin {"create", "write", "sync_dir"} =>
                 /\ ~Has("write") /\ ~Has("create") /\ ~Has("sync_dir") /\ (\A f : ~Owes(f))
           /\ h.do \in {"publish", "sync_parent", "loaded"} => ~Has("sync_tree") /\ ~Has("flush")
           /\ h.do \in {"sync_parent", "loaded"} => ~Has("publish")
           /\ h.do = "loaded" => ~Has("sync_parent")
           /\ h.do = "sync_dir" => ~Has("create")
<1>1. /\ \A op \in Todo' : op.do \in DirDos \cup RevisionDos \cup {"point", "sync_scope", "sync_root", "claimed"}
      /\ h.do \in DirDos \cup RevisionDos \cup {"point", "sync_scope", "sync_root", "claimed"}
      /\ \A op \in Todo' : Follows(h, op)
      /\ Todo = {h} \cup Todo'
  BY DEF StepOf, FileOps
<1>2. /\ \A do : do # h.do => Has(do)' = Has(do)
      /\ \A f : (h.do # "write" \/ h.file # f) => Owes(f)' = Owes(f)
  BY <1>1 DEF Has, Owes
<1>3. h.do = "write" => ~Owes(h.file)' /\ ~Has("create")
  BY <1>1 DEF Has, Owes, Follows, Stage
<1>4. h.do \notin {"write", "sync_dir"} => ~Has(h.do)'
  <2> SUFFICES ASSUME h.do \notin {"write", "sync_dir"}, NEW op \in Todo', op.do = h.do PROVE FALSE
    BY DEF Has
  <2>1. Stage(h.do) \in Nat /\ Stage(h.do) # 1
    BY <1>1, StageIs
  <2>2. Follows(h, op)
    BY <1>1
  <2> QED BY <2>1, <2>2 DEF Follows
<1>5. h.do \notin {"create", "write", "sync_dir"} =>
          ~Has("write") /\ ~Has("create") /\ ~Has("sync_dir") /\ (\A f : ~Owes(f))
  <2> SUFFICES ASSUME h.do \notin {"create", "write", "sync_dir"},
                      NEW op \in Todo', op.do \in {"create", "write", "sync_dir"}
               PROVE  FALSE
    BY <1>1 DEF Has, Owes
  <2>1. Stage(h.do) \in Nat /\ Stage(h.do) > 1
    BY <1>1, StageIs
  <2>2. Stage(op.do) \in {0, 1}
    BY DEF Stage
  <2> QED BY <2>1, <2>2, <1>1 DEF Follows
<1>6. /\ h.do \in {"publish", "sync_parent", "loaded"} => ~Has("sync_tree") /\ ~Has("flush")
      /\ h.do \in {"sync_parent", "loaded"} => ~Has("publish")
      /\ h.do = "loaded" => ~Has("sync_parent")
      /\ h.do = "sync_dir" => ~Has("create")
  BY <1>1 DEF Has, Follows, Stage
<1> QED BY <1>2, <1>3, <1>4, <1>5, <1>6

LEMMA CreateStep ==
    ASSUME FilesTypes, DirOK, NEW h, StepOf(h), h.do = "create",
           now'.name = "building", now'.dir = BareDir, disk'.name = disk.name, disk'.dir = BareDir,
           told'.ready = told.ready
    PROVE  DirOK'
<1>1. /\ ~Has("create")' /\ h \in Todo /\ UNCHANGED <<handle, filled>>
      /\ \A do : do # "create" => Has(do)' = Has(do)
      /\ \A f : Owes(f)' = Owes(f)
      /\ \A op \in Todo' : op \in Todo
  BY StepLeaves DEF StepOf
<1>2. Has("create")
  BY <1>1 DEF Has
<1>3. now.name = "absent" /\ ~filled /\ handle # Nothing
      /\ Owes("manifest") /\ Owes("digest") /\ Owes("journal")
  BY <1>2 DEF DirOK, CreateFits
<1>4. ~Done(now.dir)' /\ ~Done(disk.dir)' /\ Fresh'
  BY DEF Done, BareDir, DirFiles, Fresh
<1>5. ~Has("publish") /\ disk.name # "ready" /\ told.ready = Nothing
  BY <1>2, <1>3 DEF DirOK, PublishOK, ReadyOK
<1>6. CreateFits'
  BY <1>1 DEF CreateFits
<1>7. WritesFit'
  <2> SUFFICES ASSUME NEW op \in Todo', op.do = "write" PROVE WriteFits(op)'
    BY DEF WritesFit
  <2>1. WriteFits(op)
    BY <1>1 DEF DirOK, WritesFit
  <2> QED BY <2>1, <1>1, <1>2, <1>3, <1>4 DEF WriteFits
<1>8. RocksOK'
  BY <1>1, <1>3, <1>4 DEF RocksOK, BareDir, DirFiles
<1>9. IdentityOK'
  BY <1>1, <1>3 DEF IdentityOK
<1>10. PublishOK'
  BY <1>1, <1>5 DEF PublishOK
<1>11. ~Has("loaded")
  BY <1>3, <1>5 DEF DirOK, ReadyOK
<1>12. ReadyOK'
  BY <1>1, <1>5, <1>11 DEF ReadyOK
<1> QED BY <1>6, <1>7, <1>8, <1>9, <1>10, <1>12 DEF DirOK

LEMMA StoredIsSomething ==
    /\ Nothing \notin JournalFiles /\ Nothing \notin EvidenceFiles
    /\ Nothing \notin RevisionShadows /\ Nothing \notin SealedRevisions
<1>1. Nothing \notin JournalFiles
  <2>1. PhaseNames = {"staged", "bundle_verified", "materializing", "verified", "ready", "failed"}
    BY DEF PhaseNames, EarlyPhases, LatePhases
  <2> QED BY <2>1, FilesAssumption DEF JournalFiles
<1>2. RevisionShadows \subseteq [rev : RevisionSeqs, input : Inputs, synced : BOOLEAN, rows : {"whole", "torn"}]
  BY DEF RevisionShadows
<1> QED BY <1>1, <1>2, FilesAssumption DEF EvidenceFiles, SealedRevisions

LEMMA WriteStep ==
    ASSUME FilesTypes, DirOK, NEW h, StepOf(h), h.do = "write",
           now'.name = now.name, now'.dir = [now.dir EXCEPT ![h.file] = h.what],
           disk'.name = disk.name, disk'.dir = disk.dir, told'.ready = told.ready
    PROVE  DirOK'
<1>1. /\ h \in Todo /\ UNCHANGED <<handle, filled>> /\ ~Has("create") /\ ~Has("create")'
      /\ \A do : do # "write" => Has(do)' = Has(do)
      /\ ~Owes(h.file)' /\ \A f : f # h.file => Owes(f)' = Owes(f)
      /\ \A op \in Todo' : op \in Todo /\ (op.do = "write" => op.file # h.file)
  BY StepLeaves DEF StepOf, Owes
<1>2. WriteFits(h)
  BY <1>1 DEF DirOK, WritesFit
<1>3. handle \in Contents /\ handle # Nothing /\ now.name = "building" /\ h.file \in DirFiles
  BY <1>1, <1>2 DEF WriteFits, FilesTypes
<1>4. /\ now'.dir[h.file] = h.what
      /\ \A f \in DirFiles : f # h.file => now'.dir[f] = now.dir[f]
  BY <1>3 DEF FilesTypes, Volumes, Dirs
<1>5. {"manifest", "digest", "journal", "bundle", "evidence", "marker", "rocks"} = DirFiles
  BY DEF DirFiles
<1>6. /\ h.file # "journal" => Done(now.dir)' = Done(now.dir) /\ Fresh' = Fresh
      /\ Done(disk.dir)' = Done(disk.dir)
      /\ h.file # "rocks" => \A m : RocksAre(m)' = RocksAre(m)
  BY <1>4, <1>5 DEF Done, Fresh, RocksAre
<1>7. h.file = "journal" =>
         /\ now'.dir["journal"] \in JournalFiles /\ now'.dir["journal"] # Nothing
         /\ now'.dir["journal"].of = handle
         /\ now'.dir["journal"].phase \in EarlyPhases => Fresh
         /\ now'.dir["journal"].phase \in LatePhases => RocksAre(handle) /\ ~Owes("rocks")
         /\ now'.dir["journal"].phase \notin LatePhases /\ ~Done(disk.dir) => Fresh'
  <2> SUFFICES ASSUME h.file = "journal"
               PROVE  /\ h.what \in JournalFiles /\ h.what # Nothing
                      /\ h.what.of = handle
                      /\ h.what.phase \in EarlyPhases => Fresh
                      /\ h.what.phase \in LatePhases => RocksAre(handle) /\ ~Owes("rocks")
                      /\ h.what.phase \notin LatePhases /\ ~Done(disk.dir) => Fresh'
    BY <1>4
  <2>1. /\ h.what \in JournalFiles /\ h.what.of = handle
        /\ h.what.phase \in EarlyPhases => Fresh
        /\ h.what.phase \in LatePhases => RocksAre(handle) /\ ~Owes("rocks")
    BY <1>1, <1>2 DEF WriteFits
  <2>2. h.what # Nothing
    BY <2>1, StoredIsSomething
  <2>3. h.what.phase \notin LatePhases /\ ~Done(disk.dir) => Fresh'
    BY <1>4 DEF Fresh, Done
  <2> QED BY <2>1, <2>2, <2>3
<1>8. CreateFits'
  BY <1>1 DEF CreateFits
<1>9. WritesFit'
  <2> SUFFICES ASSUME NEW op \in Todo', op.do = "write" PROVE WriteFits(op)'
    BY DEF WritesFit
  <2>1. WriteFits(op) /\ op.file # h.file /\ Owes(op.file)
    BY <1>1 DEF DirOK, WritesFit, Owes
  <2>2. op.file = "rocks" => Fresh'
    <3> SUFFICES ASSUME op.file = "rocks" PROVE Fresh'
      OBVIOUS
    <3>1. Fresh /\ Owes("rocks")
      BY <2>1 DEF WriteFits
    <3>2. CASE h.file = "journal"
      <4>1. now'.dir["journal"].phase \notin LatePhases
        BY <1>7, <3>1, <3>2
      <4> QED BY <4>1, <1>7, <3>1, <3>2 DEF Fresh
    <3> QED BY <3>1, <3>2, <1>6
  <2>3. op.file = "journal" =>
           /\ op.what.phase \in EarlyPhases => Fresh'
           /\ op.what.phase \in LatePhases => RocksAre(handle)' /\ ~Owes("rocks")'
    <3> SUFFICES ASSUME op.file = "journal"
                 PROVE  /\ op.what.phase \in EarlyPhases => Fresh'
                        /\ op.what.phase \in LatePhases => RocksAre(handle)' /\ ~Owes("rocks")'
      OBVIOUS
    <3>1. /\ h.file # "journal"
          /\ op.what.phase \in EarlyPhases => Fresh
          /\ op.what.phase \in LatePhases => RocksAre(handle) /\ ~Owes("rocks")
      BY <2>1, <1>1 DEF WriteFits
    <3>2. h.file = "rocks" => Owes("rocks")
      BY <1>1 DEF Owes
    <3>3. op.what.phase \in LatePhases => RocksAre(handle)'
      BY <3>1, <3>2, <1>1, <1>6 DEF RocksAre
    <3> QED BY <3>1, <3>2, <3>3, <1>1, <1>6
  <2> QED BY <2>1, <2>2, <2>3, <1>1 DEF WriteFits
<1>10. RocksOK'
  <2>0. RocksOK
    BY DEF DirOK
  <2>1. CASE h.file = "journal"
    <3>1. Done(now.dir)' => RocksAre(now.dir["journal"].of)'
      BY <2>1, <1>1, <1>6, <1>7 DEF Done, RocksAre
    <3>2. Done(disk.dir)' => RocksAre(disk.dir["journal"].of)'
      BY <2>0, <2>1, <1>6 DEF RocksOK, Done, RocksAre
    <3>3. now'.dir["journal"].phase \in EarlyPhases => ~Done(disk.dir)'
      BY <2>1, <1>6, <1>7 DEF Fresh
    <3>4. now'.dir["rocks"] = now.dir["rocks"] /\ disk'.dir["rocks"] = disk.dir["rocks"]
      BY <2>1, <1>4, <1>5
    <3>5. Owes("rocks")' = Owes("rocks") /\ Has("flush")' = Has("flush")
      BY <2>1, <1>1
    <3> QED BY <2>0, <3>1, <3>2, <3>3, <3>4, <3>5, <1>1 DEF RocksOK
  <2>2. CASE h.file = "rocks"
    <3>1. h.what = handle.name /\ filled /\ Fresh /\ Has("flush")
      BY <2>2, <1>2 DEF WriteFits
    <3>2. ~Done(now.dir)' /\ ~Done(disk.dir)'
      BY <3>1, <2>2, <1>6 DEF Fresh
    <3> QED BY <3>1, <3>2, <2>2, <1>1, <1>4 DEF RocksOK
  <2>3. CASE h.file \notin {"journal", "rocks"}
    <3>1. now'.dir["rocks"] = now.dir["rocks"] /\ now'.dir["journal"] = now.dir["journal"]
      BY <2>3, <1>4, <1>5
    <3>2. Owes("rocks")' = Owes("rocks") /\ Has("flush")' = Has("flush")
      BY <2>3, <1>1
    <3> QED BY <2>0, <2>3, <3>1, <3>2, <1>1, <1>6 DEF RocksOK, RocksAre
  <2> QED BY <2>1, <2>2, <2>3
<1>11. IdentityOK'
  <2>1. Owes("manifest")' \/ now'.dir["manifest"] = handle
    BY <1>1, <1>2, <1>3, <1>4, <1>5 DEF DirOK, IdentityOK, WriteFits
  <2>2. Owes("digest")' \/ now'.dir["digest"] = handle
    BY <1>1, <1>2, <1>3, <1>4, <1>5 DEF DirOK, IdentityOK, WriteFits
  <2>3. Owes("journal")' \/ ValidJournal(now.dir, handle)'
    BY <1>1, <1>3, <1>4, <1>5, <1>7 DEF DirOK, IdentityOK, ValidJournal
  <2> QED BY <2>1, <2>2, <2>3, <1>1 DEF IdentityOK
<1>12. PublishOK'
  <2> SUFFICES ASSUME Has("publish") PROVE PublishOK'
    BY <1>1 DEF PublishOK
  <2>1. /\ VerifiedBundle(now.dir, handle) /\ ValidEvidence(now.dir, handle) /\ RocksAre(handle)
        /\ \A op \in Todo : op.do = "write" => Has("sync_tree") /\ SealWrites(op)
        /\ Owes("marker") \/ (ValidMarker(now.dir, handle) /\ MarkerOfEvidence(now.dir))
        /\ Owes("journal") \/ now.dir["journal"] = [of |-> handle, phase |-> "ready"]
    BY DEF DirOK, PublishOK
  <2>2. Has("sync_tree") /\ SealWrites(h) /\ h.file \in {"marker", "journal"}
    BY <2>1, <1>1 DEF SealWrites
  <2>3. /\ now'.dir["evidence"] = now.dir["evidence"] /\ now'.dir["bundle"] = now.dir["bundle"]
        /\ now'.dir["rocks"] = now.dir["rocks"] /\ Has("sync_tree")'
    BY <2>2, <1>1, <1>4, <1>5
  <2>4. \A op \in Todo' : op.do = "write" => SealWrites(op)'
    BY <2>1, <2>3, <1>1 DEF SealWrites
  <2>5. Owes("marker")' \/ (ValidMarker(now.dir, handle)' /\ MarkerOfEvidence(now.dir)')
    <3>1. CASE h.file = "marker"
      <4>1. h.what = [of |-> handle, sum |-> now.dir["evidence"].sum]
        BY <2>2, <3>1 DEF SealWrites
      <4>2. now.dir["evidence"] \in EvidenceFiles
        BY <2>1 DEF ValidEvidence, FilesTypes, Volumes, Dirs
      <4>3. h.what \in [of : Contents, sum : Summaries]
        BY <4>1, <4>2, <1>3 DEF EvidenceFiles
      <4>4. h.what # Nothing
        BY <4>3, StoredIsSomething DEF EvidenceFiles
      <4> QED BY <4>1, <4>4, <3>1, <2>3, <1>1, <1>4 DEF ValidMarker, MarkerOfEvidence
    <3>2. CASE h.file # "marker"
      BY <3>2, <2>1, <2>3, <1>1, <1>4, <1>5 DEF ValidMarker, MarkerOfEvidence
    <3> QED BY <3>1, <3>2
  <2>6. Owes("journal")' \/ now'.dir["journal"] = [of |-> handle, phase |-> "ready"]
    BY <2>1, <2>2, <1>1, <1>4, <1>5 DEF SealWrites
  <2> QED BY <2>1, <2>3, <2>4, <2>5, <2>6, <1>1, <1>3
          DEF PublishOK, VerifiedBundle, ValidEvidence, RocksAre
<1>13. ReadyOK'
  <2>1. disk.name # "ready" /\ told.ready = Nothing /\ (Has("loaded") => Has("publish") /\ Has("sync_parent"))
    BY <1>3 DEF DirOK, ReadyOK
  <2> QED BY <2>1, <1>1, <1>3 DEF ReadyOK
<1> QED BY <1>8, <1>9, <1>10, <1>11, <1>12, <1>13 DEF DirOK

(* sync_dir, flush and sync_tree: the disk catches up, file by file.       *)
LEMMA SyncStep ==
    ASSUME FilesTypes, DirOK, NEW h, StepOf(h), h.do \in {"sync_dir", "flush", "sync_tree"},
           now'.name = now.name, now'.dir = now.dir, disk'.name = disk.name,
           told'.ready = told.ready,
           disk'.dir \in [DirFiles -> FileValues],
           \A f \in DirFiles : disk'.dir[f] \in {now.dir[f], disk.dir[f]},
           h.do = "flush" => disk'.dir["rocks"] = now.dir["rocks"],
           h.do = "sync_tree" => disk'.dir = now.dir
    PROVE  DirOK'
<1>1. /\ UNCHANGED <<handle, filled>> /\ ~Has("create") /\ ~Has("create")'
      /\ \A do : do # h.do => Has(do)' = Has(do)
      /\ \A f : Owes(f)' = Owes(f)
      /\ h.do # "sync_dir" => ~Has("write") /\ \A f : ~Owes(f)
      /\ \A op \in Todo' : op \in Todo
      /\ Has("write")' = Has("write")
  BY StepLeaves DEF StepOf
<1>2. {"journal", "rocks"} \subseteq DirFiles
  BY DEF DirFiles
<1>3. /\ Done(disk.dir)' => Done(now.dir) \/ Done(disk.dir)
      /\ Done(disk.dir)' /\ ~Done(disk.dir) => disk'.dir["journal"] = now.dir["journal"]
      /\ Fresh => Fresh' /\ Done(now.dir)' = Done(now.dir)
      /\ \A m : RocksAre(m) => RocksAre(m)'
  BY <1>2 DEF Done, Fresh, RocksAre
<1>4. disk.dir = now.dir => disk'.dir = now.dir
  BY DEF FilesTypes, Volumes, Dirs
<1>5. CreateFits'
  BY <1>1 DEF CreateFits
<1>6. WritesFit'
  <2> SUFFICES ASSUME NEW op \in Todo', op.do = "write" PROVE WriteFits(op)'
    BY DEF WritesFit
  <2>1. WriteFits(op) /\ Has("write")
    BY <1>1 DEF DirOK, WritesFit, Has
  <2>2. h.do = "sync_dir" /\ Has("flush")' = Has("flush")
    BY <2>1, <1>1
  <2> QED BY <2>1, <2>2, <1>1, <1>3 DEF WriteFits
<1>7. RocksOK'
  <2>0. RocksOK
    BY DEF DirOK
  <2>1. Done(now.dir)' => RocksAre(now.dir["journal"].of)'
    BY <2>0, <1>3 DEF RocksOK, RocksAre
  <2>2. Done(disk.dir)' => RocksAre(disk.dir["journal"].of)'
    <3> SUFFICES ASSUME Done(disk.dir)' PROVE RocksAre(disk.dir["journal"].of)'
      OBVIOUS
    <3>1. \/ disk'.dir["journal"] = now.dir["journal"] /\ Done(now.dir)
          \/ disk'.dir["journal"] = disk.dir["journal"] /\ Done(disk.dir)
      BY <1>2, <1>3 DEF Done
    <3>2. RocksAre(disk'.dir["journal"].of)
      BY <2>0, <3>1 DEF RocksOK
    <3> QED BY <3>2, <1>2 DEF RocksAre
  <2>3. now.dir["journal"] # Nothing /\ now.dir["journal"].phase \in EarlyPhases => ~Done(disk.dir)'
    BY <2>0, <1>3 DEF RocksOK, Done, EarlyPhases, LatePhases
  <2>4. filled /\ ~Owes("rocks") =>
          now.dir["rocks"] = handle.name /\ (Has("flush")' \/ disk'.dir["rocks"] = handle.name)
    BY <2>0, <1>1, <1>2 DEF RocksOK
  <2> QED BY <2>1, <2>2, <2>3, <2>4, <1>1 DEF RocksOK
<1>8. IdentityOK'
  BY <1>1 DEF DirOK, IdentityOK, ValidJournal
<1>9. PublishOK'
  <2> SUFFICES ASSUME Has("publish") PROVE PublishOK'
    BY <1>1 DEF PublishOK
  <2>1. /\ now.name = "building" /\ handle # Nothing
        /\ VerifiedBundle(now.dir, handle) /\ ValidEvidence(now.dir, handle) /\ RocksAre(handle)
        /\ \A op \in Todo : op.do = "write" => Has("sync_tree") /\ SealWrites(op)
        /\ Owes("marker") \/ (ValidMarker(now.dir, handle) /\ MarkerOfEvidence(now.dir))
        /\ Owes("journal") \/ now.dir["journal"] = [of |-> handle, phase |-> "ready"]
        /\ Has("sync_tree") \/ disk.dir = now.dir
    BY DEF DirOK, PublishOK
  <2>2. \A op \in Todo' : op.do = "write" => Has("sync_tree")' /\ SealWrites(op)'
    <3> SUFFICES ASSUME NEW op \in Todo', op.do = "write" PROVE Has("sync_tree")' /\ SealWrites(op)'
      OBVIOUS
    <3>1. Has("write")
      BY <1>1 DEF Has
    <3> QED BY <3>1, <2>1, <1>1 DEF SealWrites
  <2>3. Has("sync_tree")' \/ disk'.dir = now.dir
    BY <2>1, <1>1, <1>4
  <2> QED BY <2>1, <2>2, <2>3, <1>1, <1>3
          DEF PublishOK, VerifiedBundle, ValidEvidence, ValidMarker, MarkerOfEvidence
<1>10. ReadyOK'
  <2>1. now.name = "ready" => Loads(now.dir)'
    BY DEF DirOK, ReadyOK, Loads, ValidMarker, VerifiedBundle, ValidEvidence, MarkerOfEvidence, ValidJournal
  <2>2. told.ready # Nothing => disk'.dir = told.ready
    BY <1>4 DEF DirOK, ReadyOK
  <2> QED BY <2>1, <2>2, <1>1, <1>4 DEF DirOK, ReadyOK
<1> QED BY <1>5, <1>6, <1>7, <1>8, <1>9, <1>10 DEF DirOK

LEMMA PublishStep ==
    ASSUME FilesTypes, DirOK, NEW h, StepOf(h), h.do = "publish",
           now'.name = "ready", now'.dir = now.dir, disk'.name = disk.name, disk'.dir = disk.dir,
           told'.ready = told.ready
    PROVE  DirOK'
<1>1. /\ UNCHANGED <<handle, filled>> /\ h \in Todo
      /\ ~Has("create") /\ ~Has("write") /\ ~Has("sync_tree") /\ ~Has("publish")'
      /\ ~Has("create")' /\ ~Has("write")' /\ ~Has("flush") /\ ~Has("flush")'
      /\ \A do : do # "publish" => Has(do)' = Has(do)
      /\ \A f : ~Owes(f) /\ ~Owes(f)'
  BY StepLeaves DEF StepOf
<1>2. Has("publish")
  BY <1>1 DEF Has
<1>3. /\ now.name = "building" /\ handle # Nothing
      /\ VerifiedBundle(now.dir, handle) /\ ValidEvidence(now.dir, handle) /\ RocksAre(handle)
      /\ ValidMarker(now.dir, handle) /\ MarkerOfEvidence(now.dir)
      /\ now.dir["journal"] = [of |-> handle, phase |-> "ready"]
      /\ disk.dir = now.dir
  BY <1>1, <1>2 DEF DirOK, PublishOK
<1>4. /\ now.dir["manifest"] = handle /\ now.dir["digest"] = handle /\ ValidJournal(now.dir, handle)
  BY <1>1, <1>3 DEF DirOK, IdentityOK
<1>5. Loads(now.dir) /\ now.dir["rocks"] = now.dir["manifest"].name
  BY <1>3, <1>4 DEF Loads, RocksAre
<1>6. CreateFits' /\ WritesFit' /\ IdentityOK' /\ PublishOK'
  <2>1. \A op \in Todo' : op.do # "write"
    BY <1>1 DEF Has
  <2> QED BY <2>1, <1>1 DEF CreateFits, WritesFit, IdentityOK, PublishOK
<1>7. RocksOK'
  BY <1>1 DEF DirOK, RocksOK, Done, RocksAre
<1>8. Loads(now.dir)'
  BY <1>5 DEF Loads, ValidMarker, VerifiedBundle, ValidEvidence, MarkerOfEvidence, ValidJournal
<1>9. ReadyOK'
  BY <1>1, <1>3, <1>5, <1>8 DEF DirOK, ReadyOK
<1> QED BY <1>6, <1>7, <1>9 DEF DirOK

LEMMA ParentStep ==
    ASSUME FilesTypes, DirOK, NEW h, StepOf(h), h.do = "sync_parent",
           now'.name = now.name, now'.dir = now.dir, disk'.name = now.name, disk'.dir = disk.dir,
           told'.ready = told.ready
    PROVE  DirOK'
<1>1. /\ UNCHANGED <<handle, filled>>
      /\ ~Has("create") /\ ~Has("write") /\ ~Has("publish")
      /\ ~Has("create")' /\ ~Has("write")' /\ ~Has("publish")' /\ ~Has("flush") /\ ~Has("flush")'
      /\ \A do : do # "sync_parent" => Has(do)' = Has(do)
      /\ \A f : ~Owes(f) /\ ~Owes(f)'
  BY StepLeaves DEF StepOf
<1>2. \A op \in Todo' : op.do # "write"
  BY <1>1 DEF Has
<1>3. CreateFits' /\ WritesFit' /\ PublishOK'
  BY <1>1, <1>2 DEF CreateFits, WritesFit, PublishOK
<1>4. IdentityOK'
  BY <1>1 DEF DirOK, IdentityOK, ValidJournal
<1>5. RocksOK'
  BY <1>1 DEF DirOK, RocksOK, Done, RocksAre
<1>6. now.name = "ready" => Loads(now.dir)'
  BY DEF DirOK, ReadyOK, Loads, ValidMarker, VerifiedBundle, ValidEvidence, MarkerOfEvidence, ValidJournal
<1>7. ReadyOK'
  BY <1>1, <1>6 DEF DirOK, ReadyOK
<1> QED BY <1>3, <1>4, <1>5, <1>7 DEF DirOK

LEMMA LoadedStep ==
    ASSUME FilesTypes, DirOK, NEW h, StepOf(h), h.do = "loaded",
           now'.name = now.name, now'.dir = now.dir, disk'.name = disk.name, disk'.dir = disk.dir,
           told'.ready \in {told.ready, now.dir}
    PROVE  DirOK'
<1>1. /\ UNCHANGED <<handle, filled>> /\ h \in Todo
      /\ ~Has("create") /\ ~Has("write") /\ ~Has("publish") /\ ~Has("sync_parent")
      /\ ~Has("create")' /\ ~Has("write")' /\ ~Has("publish")' /\ ~Has("loaded")'
      /\ \A do : do # "loaded" => Has(do)' = Has(do)
      /\ \A f : ~Owes(f) /\ ~Owes(f)'
  BY StepLeaves DEF StepOf
<1>2. now.name = "ready" /\ disk.name = "ready" /\ disk.dir = now.dir
  <2>1. Has("loaded")
    BY <1>1 DEF Has
  <2> QED BY <2>1, <1>1 DEF DirOK, ReadyOK
<1>3. \A op \in Todo' : op.do # "write"
  BY <1>1 DEF Has
<1>4. CreateFits' /\ WritesFit' /\ PublishOK' /\ IdentityOK'
  BY <1>1, <1>2, <1>3 DEF CreateFits, WritesFit, PublishOK, IdentityOK
<1>5. RocksOK'
  BY <1>1 DEF DirOK, RocksOK, Done, RocksAre
<1>6. Loads(now.dir)'
  BY <1>2 DEF DirOK, ReadyOK, Loads, ValidMarker, VerifiedBundle, ValidEvidence, MarkerOfEvidence, ValidJournal
<1>7. ReadyOK'
  BY <1>1, <1>2, <1>6 DEF DirOK, ReadyOK
<1> QED BY <1>4, <1>5, <1>7 DEF DirOK

(* The operations of finalize_revision.                                    *)
LEMMA RevisionStepLeaves ==
    ASSUME NEW h, StepOf(h), h.do \in RevisionDos
    PROVE  /\ h.do # "tree" => \A b : ~HasFor("tree", b)
           /\ h.do \notin {"tree", "revise"} => \A b : ~HasFor("revise", b)
           /\ h.do = "revised" => ~Has("sync_revisions")
           /\ \A op \in Todo' : op \in Todo /\ op.do # h.do
           /\ h.do # "sync_revisions" => Has("sync_revisions")' = Has("sync_revisions")
           /\ h.do # "revise" => \A b : HasFor("revise", b)' = HasFor("revise", b)
           /\ h.do # "tree" => \A op \in Todo' : op.do # "tree"
           /\ h.do \notin {"tree", "revise"} => \A op \in Todo' : op.do # "revise"
<1>1. /\ Todo = {h} \cup Todo' /\ \A op \in Todo' : Follows(h, op)
  BY DEF StepOf
<1>2. /\ h.do = "tree" => Stage(h.do) = 7
      /\ h.do = "revise" => Stage(h.do) = 8
      /\ h.do = "sync_revisions" => Stage(h.do) = 9
      /\ h.do = "revised" => Stage(h.do) = 10
  BY DEF Stage
<1>3. \A op \in Todo' : /\ op.do = "tree" => Stage(op.do) = 7
                        /\ op.do = "revise" => Stage(op.do) = 8
                        /\ op.do = "sync_revisions" => Stage(op.do) = 9
                        /\ op.do = "revised" => Stage(op.do) = 10
  BY DEF Stage
<1>4. \A op \in Todo' : Stage(h.do) < Stage(op.do)
  BY <1>1, <1>2 DEF Follows, RevisionDos
<1>5. /\ \A op \in Todo' : op \in Todo /\ op.do # h.do
      /\ h.do # "tree" => \A op \in Todo' : op.do # "tree"
      /\ h.do \notin {"tree", "revise"} => \A op \in Todo' : op.do # "revise"
      /\ h.do = "revised" => \A op \in Todo' : op.do # "sync_revisions"
  BY <1>1, <1>2, <1>3, <1>4 DEF RevisionDos
<1> QED BY <1>1, <1>5 DEF Has, HasFor, RevisionDos

LEMMA TreeStep ==
    ASSUME FilesTypes, RevisionsOK, NEW h, StepOf(h), h.do = "tree",
           now'.revs = now.revs, disk'.revs = disk.revs, told'.revs = told.revs, told'.inputs = told.inputs,
           shadows' = [shadows EXCEPT ![h.file].synced = TRUE]
    PROVE  RevisionsOK' /\ shadows' \in [Builders -> RevisionShadows \cup {Nothing}]
<1>0. h.do \in RevisionDos /\ h \in Todo /\ cuts' = cuts
  BY DEF RevisionDos, StepOf
<1>1. /\ \A op \in Todo' : op \in Todo /\ op.do # "tree"
      /\ Has("sync_revisions")' = Has("sync_revisions")
      /\ \A b : HasFor("revise", b)' = HasFor("revise", b)
  BY <1>0, RevisionStepLeaves
<1>2. h.file \in Builders /\ shadows[h.file] # Nothing /\ shadows[h.file] \in RevisionShadows
  BY <1>0 DEF RevisionsOK, RevisionOpFits, FilesTypes
<1>3. /\ shadows'[h.file].rev = shadows[h.file].rev /\ shadows'[h.file].synced
      /\ shadows'[h.file] \in RevisionShadows
      /\ shadows[h.file].synced => shadows'[h.file] = shadows[h.file]
      /\ shadows' \in [Builders -> RevisionShadows \cup {Nothing}]
  BY <1>2 DEF FilesTypes, RevisionShadows
<1>4. shadows'[h.file] # Nothing
  BY <1>3, StoredIsSomething
<1>5. \A op \in Todo' : op.do \in {"revise", "revised"} => op.file = h.file
  BY <1>0, <1>1 DEF RevisionsOK
<1>6. \A op \in Todo' : RevisionOpFits(op)'
  <2> SUFFICES ASSUME NEW op \in Todo', op.do \in {"revise", "revised"} PROVE RevisionOpFits(op)'
    BY <1>1 DEF RevisionOpFits
  <2>1. RevisionOpFits(op) /\ op.file = h.file
    BY <1>1, <1>5 DEF RevisionsOK
  <2>2. CASE op.do = "revise"
    BY <2>1, <2>2, <1>2, <1>3, <1>4 DEF RevisionOpFits
  <2>3. CASE op.do = "revised" /\ HasFor("revise", op.file) /\ Has("sync_revisions")
    BY <2>1, <2>3, <1>1, <1>2, <1>4 DEF RevisionOpFits
  <2>4. CASE op.do = "revised" /\ ~(HasFor("revise", op.file) /\ Has("sync_revisions"))
    <3>1. /\ now.revs[shadows[h.file].rev] = shadows[h.file]
          /\ Has("sync_revisions") \/ disk.revs[shadows[h.file].rev] = shadows[h.file]
      BY <2>1, <2>4 DEF RevisionOpFits
    <3>2. shadows[h.file].rev \in RevisionSeqs
      BY <1>2 DEF RevisionShadows
    <3>3. shadows[h.file].synced
      BY <3>1, <3>2, <1>2, StoredIsSomething DEF FilesTypes, Volumes, SealedRevisions
    <3> QED BY <2>1, <2>4, <3>1, <3>3, <1>1, <1>2, <1>3, <1>4 DEF RevisionOpFits
  <2> QED BY <2>2, <2>3, <2>4
<1>7. \A a, b \in Todo' : {a.do, b.do} \subseteq {"tree", "revise", "revised"} => a.file = b.file
  BY <1>1 DEF RevisionsOK
<1> QED BY <1>0, <1>3, <1>6, <1>7 DEF RevisionsOK

LEMMA ReviseStep ==
    ASSUME FilesTypes, RevisionsOK, NEW h, StepOf(h), h.do = "revise",
           now'.revs = [now.revs EXCEPT ![shadows[h.file].rev] = shadows[h.file]],
           disk'.revs = disk.revs, told'.revs = told.revs, told'.inputs = told.inputs,
           UNCHANGED shadows
    PROVE  /\ RevisionsOK' /\ now'.revs \in [RevisionSeqs -> SealedRevisions \cup {Nothing}]
           /\ \A r \in RevisionSeqs : now.revs[r] # Nothing => now'.revs[r] # Nothing
<1>0. h.do \in RevisionDos /\ h \in Todo /\ cuts' = cuts
  BY DEF RevisionDos, StepOf
<1>1. /\ \A op \in Todo' : op \in Todo /\ op.do # "revise" /\ op.do # "tree"
      /\ Has("sync_revisions")' = Has("sync_revisions") /\ \A b : ~HasFor("tree", b)
  BY <1>0, RevisionStepLeaves
<1> DEFINE s == shadows[h.file]
<1>2. /\ h.file \in Builders /\ s # Nothing /\ s \in RevisionShadows
      /\ now.revs[s.rev] = Nothing /\ s.synced
  BY <1>0, <1>1 DEF RevisionsOK, RevisionOpFits, FilesTypes
<1>3. s.rev \in RevisionSeqs /\ s \in SealedRevisions
  BY <1>2 DEF RevisionShadows, SealedRevisions
<1>4. now.revs \in [RevisionSeqs -> SealedRevisions \cup {Nothing}]
  BY DEF FilesTypes, Volumes
<1>5. /\ now'.revs[s.rev] = s
      /\ \A r \in RevisionSeqs : r # s.rev => now'.revs[r] = now.revs[r]
      /\ now'.revs \in [RevisionSeqs -> SealedRevisions \cup {Nothing}]
  BY <1>3, <1>4
<1>6. \A op \in Todo' : RevisionOpFits(op)'
  <2> SUFFICES ASSUME NEW op \in Todo', op.do = "revised" PROVE RevisionOpFits(op)'
    BY <1>1 DEF RevisionOpFits
  <2>1. op.file = h.file /\ op \in Todo
    BY <1>0, <1>1 DEF RevisionsOK
  <2>2. Has("sync_revisions")
    <3>1. RevisionOpFits(op)
      BY <2>1 DEF RevisionsOK
    <3> QED BY <3>1, <2>1, <1>2 DEF RevisionOpFits
  <2> QED BY <2>1, <2>2, <1>1, <1>2, <1>5 DEF RevisionOpFits
<1>7. \A a, b \in Todo' : {a.do, b.do} \subseteq {"tree", "revise", "revised"} => a.file = b.file
  BY <1>1 DEF RevisionsOK
<1>8. ASSUME NEW r \in RevisionSeqs
      PROVE  /\ told'.revs[r] # Nothing => told'.revs[r] = now'.revs[r] /\ told'.revs[r] = disk'.revs[r]
             /\ cuts' = 0 => \A i \in told'.inputs[r] : now'.revs[r] # Nothing /\ now'.revs[r].input = i
  BY <1>0, <1>2, <1>5 DEF RevisionsOK
<1> QED BY <1>2, <1>5, <1>6, <1>7, <1>8 DEF RevisionsOK

LEMMA SyncRevisionsStep ==
    ASSUME FilesTypes, RevisionsOK, NEW h, StepOf(h), h.do = "sync_revisions",
           now'.revs = now.revs, disk'.revs = now.revs, told'.revs = told.revs,
           told'.inputs = told.inputs, UNCHANGED shadows
    PROVE  RevisionsOK'
<1>0. h.do \in RevisionDos /\ cuts' = cuts
  BY DEF RevisionDos, StepOf
<1>1. /\ \A op \in Todo' : op \in Todo /\ op.do # "revise" /\ op.do # "tree"
      /\ \A b : ~HasFor("revise", b)
  BY <1>0, RevisionStepLeaves
<1>2. \A op \in Todo' : RevisionOpFits(op)'
  <2> SUFFICES ASSUME NEW op \in Todo', op.do = "revised" PROVE RevisionOpFits(op)'
    BY <1>1 DEF RevisionOpFits
  <2>1. RevisionOpFits(op)
    BY <1>1 DEF RevisionsOK
  <2> QED BY <2>1, <1>1 DEF RevisionOpFits
<1>3. \A a, b \in Todo' : {a.do, b.do} \subseteq {"tree", "revise", "revised"} => a.file = b.file
  BY <1>1 DEF RevisionsOK
<1> QED BY <1>0, <1>2, <1>3 DEF RevisionsOK

LEMMA RevisedStep ==
    ASSUME FilesTypes, RevisionsOK, NEW h, StepOf(h), h.do = "revised",
           now'.revs = now.revs, disk'.revs = disk.revs,
           \/ told'.revs = told.revs /\ told'.inputs = told.inputs
           \/ LET s == shadows[h.file] IN
              /\ told'.revs = [told.revs EXCEPT ![s.rev] = s]
              /\ told'.inputs = [told.inputs EXCEPT ![s.rev] = @ \cup {s.input}],
           shadows' = [shadows EXCEPT ![h.file] = Nothing]
    PROVE  /\ RevisionsOK'
           /\ told'.revs \in [RevisionSeqs -> RevisionShadows \cup {Nothing}]
           /\ told'.inputs \in [RevisionSeqs -> SUBSET Inputs]
           /\ shadows' \in [Builders -> RevisionShadows \cup {Nothing}]
<1>0. h.do \in RevisionDos /\ h \in Todo /\ cuts' = cuts
  BY DEF RevisionDos, StepOf
<1>1. /\ \A op \in Todo' : op \in Todo /\ op.do \notin {"tree", "revise", "revised"}
      /\ ~Has("sync_revisions") /\ \A b : ~HasFor("revise", b)
  BY <1>0, RevisionStepLeaves
<1> DEFINE s == shadows[h.file]
<1>2. /\ h.file \in Builders /\ s # Nothing /\ s \in RevisionShadows
      /\ now.revs[s.rev] = s /\ disk.revs[s.rev] = s
  BY <1>0, <1>1 DEF RevisionsOK, RevisionOpFits, FilesTypes
<1>3. s.rev \in RevisionSeqs /\ s.input \in Inputs
  BY <1>2 DEF RevisionShadows
<1>4. /\ told.revs \in [RevisionSeqs -> RevisionShadows \cup {Nothing}]
      /\ told.inputs \in [RevisionSeqs -> SUBSET Inputs]
      /\ shadows \in [Builders -> RevisionShadows \cup {Nothing}]
  BY DEF FilesTypes
<1>5. /\ told'.revs \in [RevisionSeqs -> RevisionShadows \cup {Nothing}]
      /\ told'.inputs \in [RevisionSeqs -> SUBSET Inputs]
      /\ \A r \in RevisionSeqs :
            /\ told'.revs[r] = told.revs[r] \/ (r = s.rev /\ told'.revs[r] = s)
            /\ told'.inputs[r] = told.inputs[r] \/ (r = s.rev /\ told'.inputs[r] = told.inputs[r] \cup {s.input})
  BY <1>2, <1>3, <1>4
<1>6. \A op \in Todo' : RevisionOpFits(op)'
  BY <1>1 DEF RevisionOpFits
<1>7. \A a, b \in Todo' : {a.do, b.do} \subseteq {"tree", "revise", "revised"} => a.file = b.file
  BY <1>1
<1>8. ASSUME NEW r \in RevisionSeqs
      PROVE  /\ told'.revs[r] # Nothing => told'.revs[r] = now'.revs[r] /\ told'.revs[r] = disk'.revs[r]
             /\ cuts' = 0 => \A i \in told'.inputs[r] : now'.revs[r] # Nothing /\ now'.revs[r].input = i
  BY <1>0, <1>2, <1>5 DEF RevisionsOK
<1> QED BY <1>4, <1>5, <1>6, <1>7, <1>8 DEF RevisionsOK

(* The parts of the invariant an operation does not touch.                 *)
LEMMA Bystanders ==
    ASSUME FilesInv, NEW h, StepOf(h), script # <<>>
    PROVE  /\ h.do \notin DirDos /\ SameDir => DirOK'
           /\ h.do \notin RevisionDos /\ SameRevisions => RevisionsOK'
           /\ h.do \notin {"sync_root", "claimed"} /\ SameOwner => OwnerOK'
           /\ /\ now'.pointers = now.pointers
              /\ now.name = "ready" => now'.name = "ready"
              /\ \A r \in RevisionSeqs : now.revs[r] # Nothing => now'.revs[r] # Nothing
              => PointersOK'
<1>1. /\ Todo = {h} \cup Todo' /\ claimer' = claimer /\ cuts' = cuts /\ claimer = Nothing
      /\ DirOK /\ RevisionsOK /\ OwnerOK /\ PointersOK
  BY DEF StepOf, FilesInv, OwnerOK
<1>2. \A dos : h.do \notin dos => SameTodo(dos)
  BY <1>1 DEF SameTodo
<1>3. h.do \notin DirDos /\ SameDir => DirOK'
  BY <1>1, <1>2, DirKept
<1>4. h.do \notin RevisionDos /\ SameRevisions => RevisionsOK'
  BY <1>1, <1>2, RevisionsKept
<1>5. h.do \notin {"sync_root", "claimed"} /\ SameOwner => OwnerOK'
  BY <1>1, <1>2, OwnerKept
<1>6. /\ now'.pointers = now.pointers
      /\ now.name = "ready" => now'.name = "ready"
      /\ \A r \in RevisionSeqs : now.revs[r] # Nothing => now'.revs[r] # Nothing
      => PointersOK'
  BY <1>1, PointersKept
<1> QED BY <1>3, <1>4, <1>5, <1>6

LEMMA VolumeFields ==
    ASSUME NEW v \in Volumes
    PROVE  /\ v.name \in {"absent", "building", "ready"} /\ v.dir \in Dirs
           /\ v.revs \in [RevisionSeqs -> SealedRevisions \cup {Nothing}]
           /\ v.pointers \in RevisionSeqs \cup {0, Nothing} /\ v.owner \in Replicas \cup {"empty", Nothing}
BY DEF Volumes

LEMMA BareIsDir == BareDir \in Dirs
BY DEF BareDir, Dirs, FileValues, DirFiles

(* A step of the directory: the rest of the invariant.                     *)
LEMMA DirRest ==
    ASSUME FilesInv, NEW h, StepOf(h), Orderly(script'), script # <<>>, h.do \in DirDos,
           now' \in Volumes, disk' \in Volumes, told'.ready \in Dirs \cup {Nothing},
           told' = told \/ told' = [told EXCEPT !.ready = now.dir],
           now'.revs = now.revs, now'.pointers = now.pointers, now'.owner = now.owner,
           disk'.revs = disk.revs, disk'.owner = disk.owner, UNCHANGED shadows,
           now.name = "ready" => now'.name = "ready",
           DirOK'
    PROVE  FilesInv'
<1>1. /\ UNCHANGED <<handle, filled, claimer, cuts, deaths>>
      /\ h.do \notin RevisionDos /\ h.do \notin {"sync_root", "claimed"}
  BY DEF StepOf, DirDos, RevisionDos
<1>2. /\ told'.revs = told.revs /\ told'.inputs = told.inputs /\ told'.claimed = told.claimed
      /\ told' \in [ready : Dirs \cup {Nothing},
                    revs : [RevisionSeqs -> RevisionShadows \cup {Nothing}],
                    inputs : [RevisionSeqs -> SUBSET Inputs], claimed : SUBSET Replicas]
  BY DEF FilesInv, FilesTypes
<1>3. RevisionsOK' /\ OwnerOK' /\ PointersOK'
  BY <1>1, <1>2, Bystanders DEF SameRevisions, SameOwner
<1>4. FilesTypes'
  BY <1>1, <1>2 DEF FilesInv, FilesTypes
<1> QED BY <1>3, <1>4 DEF FilesInv

LEMMA DirOperation ==
    ASSUME FilesInv, DoOperation, Head(script).do \in DirDos
    PROVE  FilesInv'
<1> DEFINE h == Head(script)
<1>1. StepOf(h) /\ Orderly(script') /\ script # <<>> /\ h \in Todo
  <2>1. StepOf(h) /\ Orderly(script')
    BY ScriptStep DEF FilesInv
  <2> QED BY <2>1 DEF StepOf, DoOperation
<1>2. FilesTypes /\ DirOK /\ now \in Volumes /\ disk \in Volumes
      /\ told.ready \in Dirs \cup {Nothing} /\ now.dir \in Dirs /\ disk.dir \in Dirs
  <2>1. FilesTypes /\ DirOK /\ now \in Volumes /\ disk \in Volumes /\ told.ready \in Dirs \cup {Nothing}
    BY DEF FilesInv, FilesTypes
  <2> QED BY <2>1, VolumeFields
<1>3. now' = NowAfter(h) /\ disk' = DiskAfter(h) /\ told' = ToldAfter(h) /\ shadows' = ShadowAfter(h)
  BY DEF DoOperation
<1> HIDE DEF h
<1>4. CASE h.do = "create"
  <2>1. /\ now' = [now EXCEPT !.name = "building", !.dir = BareDir]
        /\ disk' = [disk EXCEPT !.dir = BareDir] /\ told' = told /\ shadows' = shadows
    BY <1>3, <1>4 DEF NowAfter, DiskAfter, ToldAfter, ShadowAfter
  <2>2. /\ now'.name = "building" /\ now'.dir = BareDir /\ now'.revs = now.revs
        /\ now'.pointers = now.pointers /\ now'.owner = now.owner /\ now' \in Volumes
    BY <2>1, <1>2, BareIsDir DEF Volumes
  <2>3. /\ disk'.name = disk.name /\ disk'.dir = BareDir /\ disk'.revs = disk.revs
        /\ disk'.owner = disk.owner /\ disk' \in Volumes
    BY <2>1, <1>2, BareIsDir, VolumeFields DEF Volumes
  <2>4. DirOK'
    BY <2>1, <2>2, <2>3, <1>1, <1>2, <1>4, CreateStep
  <2>5. now.name # "ready"
    BY <1>1, <1>2, <1>4 DEF DirOK, CreateFits, Has
  <2> QED BY <2>1, <2>2, <2>3, <2>4, <2>5, <1>1, <1>2, <1>4, DirRest DEF DirDos
<1>5. CASE h.do = "write"
  <2>1. /\ now' = [now EXCEPT !.dir[h.file] = h.what]
        /\ disk' = disk /\ told' = told /\ shadows' = shadows
    BY <1>3, <1>5 DEF NowAfter, DiskAfter, ToldAfter, ShadowAfter
  <2>2. WriteFits(h)
    BY <1>1, <1>2, <1>5 DEF DirOK, WritesFit
  <2>3. [now.dir EXCEPT ![h.file] = h.what] \in Dirs
    BY <2>2, <1>2 DEF WriteFits, Dirs, DirFiles
  <2>4. /\ now'.name = now.name /\ now'.dir = [now.dir EXCEPT ![h.file] = h.what]
        /\ now'.revs = now.revs /\ now'.pointers = now.pointers /\ now'.owner = now.owner
        /\ now' \in Volumes
    BY <2>1, <2>3, <1>2, VolumeFields DEF Volumes
  <2>5. DirOK'
    BY <2>1, <2>4, <1>1, <1>2, <1>5, WriteStep
  <2> QED BY <2>1, <2>4, <2>5, <1>1, <1>2, <1>5, DirRest DEF DirDos
<1>6. CASE h.do \in {"sync_dir", "flush", "sync_tree"}
  <2> DEFINE d == IF h.do = "sync_tree" THEN now.dir
                  ELSE IF h.do = "sync_dir" THEN [now.dir EXCEPT !["rocks"] = disk.dir["rocks"]]
                  ELSE [disk.dir EXCEPT !["rocks"] = now.dir["rocks"]]
  <2>1. /\ disk' = [disk EXCEPT !.dir = d]
        /\ now' = now /\ told' = told /\ shadows' = shadows
    BY <1>3, <1>6 DEF NowAfter, DiskAfter, ToldAfter, ShadowAfter
  <2>2. d \in Dirs /\ d \in [DirFiles -> FileValues]
        /\ \A f \in DirFiles : d[f] \in {now.dir[f], disk.dir[f]}
    BY <1>2 DEF Dirs, DirFiles
  <2>3. /\ h.do = "flush" => d["rocks"] = now.dir["rocks"]
        /\ h.do = "sync_tree" => d = now.dir
    BY <1>2, <1>6 DEF Dirs, DirFiles
  <2> HIDE DEF d
  <2>4. /\ disk'.name = disk.name /\ disk'.dir = d /\ disk'.revs = disk.revs
        /\ disk'.owner = disk.owner /\ disk' \in Volumes
    BY <2>1, <2>2, <1>2, VolumeFields DEF Volumes
  <2>5. DirOK'
    BY <2>1, <2>2, <2>3, <2>4, <1>1, <1>2, <1>6, SyncStep
  <2> QED BY <2>1, <2>4, <2>5, <1>1, <1>2, <1>6, DirRest DEF DirDos
<1>7. CASE h.do = "publish"
  <2>1. /\ now' = [now EXCEPT !.name = "ready"]
        /\ disk' = disk /\ told' = told /\ shadows' = shadows
    BY <1>3, <1>7 DEF NowAfter, DiskAfter, ToldAfter, ShadowAfter
  <2>2. /\ now'.name = "ready" /\ now'.dir = now.dir /\ now'.revs = now.revs
        /\ now'.pointers = now.pointers /\ now'.owner = now.owner /\ now' \in Volumes
    BY <2>1, <1>2, VolumeFields DEF Volumes
  <2>3. DirOK'
    BY <2>1, <2>2, <1>1, <1>2, <1>7, PublishStep
  <2> QED BY <2>1, <2>2, <2>3, <1>1, <1>2, <1>7, DirRest DEF DirDos
<1>8. CASE h.do = "sync_parent"
  <2>1. /\ disk' = [disk EXCEPT !.name = now.name]
        /\ now' = now /\ told' = told /\ shadows' = shadows
    BY <1>3, <1>8 DEF NowAfter, DiskAfter, ToldAfter, ShadowAfter
  <2>2. /\ disk'.name = now.name /\ disk'.dir = disk.dir /\ disk'.revs = disk.revs
        /\ disk'.owner = disk.owner /\ disk' \in Volumes
    BY <2>1, <1>2, VolumeFields DEF Volumes
  <2>3. DirOK'
    BY <2>1, <2>2, <1>1, <1>2, <1>8, ParentStep
  <2> QED BY <2>1, <2>2, <2>3, <1>1, <1>2, <1>8, DirRest DEF DirDos
<1>9. CASE h.do = "loaded"
  <2>1. /\ now' = now /\ disk' = disk /\ shadows' = shadows
        /\ told' = told \/ told' = [told EXCEPT !.ready = now.dir]
    BY <1>3, <1>9 DEF NowAfter, DiskAfter, ToldAfter, ShadowAfter
  <2>2. told'.ready \in {told.ready, now.dir} /\ told'.ready \in Dirs \cup {Nothing}
    BY <2>1, <1>2 DEF FilesTypes
  <2>3. DirOK'
    BY <2>1, <2>2, <1>1, <1>2, <1>9, LoadedStep
  <2> QED BY <2>1, <2>2, <2>3, <1>1, <1>2, <1>9, DirRest DEF DirDos
<1> QED BY <1>4, <1>5, <1>6, <1>7, <1>8, <1>9 DEF h, DirDos

LEMMA RevisionOperation ==
    ASSUME FilesInv, DoOperation, Head(script).do \in RevisionDos
    PROVE  FilesInv'
<1> DEFINE h == Head(script)
<1>1. StepOf(h) /\ Orderly(script') /\ script # <<>> /\ h \in Todo
  <2>1. StepOf(h) /\ Orderly(script')
    BY ScriptStep DEF FilesInv
  <2> QED BY <2>1 DEF StepOf, DoOperation
<1>2. FilesTypes /\ RevisionsOK /\ now \in Volumes /\ disk \in Volumes
  BY DEF FilesInv, FilesTypes
<1>3. now' = NowAfter(h) /\ disk' = DiskAfter(h) /\ told' = ToldAfter(h) /\ shadows' = ShadowAfter(h)
  BY DEF DoOperation
<1>4. h.do \in RevisionDos /\ UNCHANGED <<handle, filled, claimer, cuts, deaths>>
      /\ h.do \notin DirDos /\ h.do \notin {"sync_root", "claimed"}
  BY <1>1 DEF StepOf, DirDos, RevisionDos
<1> HIDE DEF h
<1>5. ASSUME now' \in Volumes, disk' \in Volumes, now'.name = now.name, now'.dir = now.dir,
             now'.pointers = now.pointers, now'.owner = now.owner,
             disk'.name = disk.name, disk'.dir = disk.dir, disk'.owner = disk.owner,
             told'.ready = told.ready, told'.claimed = told.claimed,
             \A r \in RevisionSeqs : now.revs[r] # Nothing => now'.revs[r] # Nothing,
             told' \in [ready : Dirs \cup {Nothing},
                        revs : [RevisionSeqs -> RevisionShadows \cup {Nothing}],
                        inputs : [RevisionSeqs -> SUBSET Inputs], claimed : SUBSET Replicas],
             shadows' \in [Builders -> RevisionShadows \cup {Nothing}],
             RevisionsOK'
      PROVE  FilesInv'
  <2>1. DirOK' /\ OwnerOK' /\ PointersOK'
    BY <1>1, <1>4, <1>5, Bystanders DEF SameDir, SameOwner
  <2>2. FilesTypes'
    BY <1>1, <1>2, <1>4, <1>5 DEF FilesTypes
  <2> QED BY <2>1, <2>2, <1>5 DEF FilesInv
<1>6. told \in [ready : Dirs \cup {Nothing},
                revs : [RevisionSeqs -> RevisionShadows \cup {Nothing}],
                inputs : [RevisionSeqs -> SUBSET Inputs], claimed : SUBSET Replicas]
      /\ shadows \in [Builders -> RevisionShadows \cup {Nothing}]
  BY <1>2 DEF FilesTypes
<1>7. CASE h.do = "tree"
  <2>1. /\ now' = now /\ disk' = disk /\ told' = told
        /\ shadows' = [shadows EXCEPT ![h.file].synced = TRUE]
    BY <1>3, <1>7 DEF NowAfter, DiskAfter, ToldAfter, ShadowAfter
  <2>2. RevisionsOK' /\ shadows' \in [Builders -> RevisionShadows \cup {Nothing}]
    BY <2>1, <1>1, <1>2, <1>7, TreeStep
  <2> QED BY <2>1, <2>2, <1>2, <1>5, <1>6
<1>8. CASE h.do = "revise"
  <2>1. /\ now' = [now EXCEPT !.revs[shadows[h.file].rev] = shadows[h.file]]
        /\ disk' = disk /\ told' = told /\ shadows' = shadows
    BY <1>3, <1>8 DEF NowAfter, DiskAfter, ToldAfter, ShadowAfter
  <2>2. now'.revs = [now.revs EXCEPT ![shadows[h.file].rev] = shadows[h.file]]
    BY <2>1, <1>2 DEF Volumes
  <2>3. /\ RevisionsOK' /\ now'.revs \in [RevisionSeqs -> SealedRevisions \cup {Nothing}]
        /\ \A r \in RevisionSeqs : now.revs[r] # Nothing => now'.revs[r] # Nothing
    BY <2>1, <2>2, <1>1, <1>2, <1>8, ReviseStep
  <2>4. /\ now' \in Volumes /\ now'.name = now.name /\ now'.dir = now.dir
        /\ now'.pointers = now.pointers /\ now'.owner = now.owner
    BY <2>1, <2>2, <2>3, <1>2, VolumeFields DEF Volumes
  <2> QED BY <2>1, <2>3, <2>4, <1>2, <1>5, <1>6
<1>9. CASE h.do = "sync_revisions"
  <2>1. /\ disk' = [disk EXCEPT !.revs = now.revs]
        /\ now' = now /\ told' = told /\ shadows' = shadows
    BY <1>3, <1>9 DEF NowAfter, DiskAfter, ToldAfter, ShadowAfter
  <2>2. /\ disk' \in Volumes /\ disk'.revs = now.revs /\ disk'.name = disk.name /\ disk'.dir = disk.dir
        /\ disk'.owner = disk.owner
    BY <2>1, <1>2, VolumeFields DEF Volumes
  <2>3. RevisionsOK'
    BY <2>1, <2>2, <1>1, <1>2, <1>9, SyncRevisionsStep
  <2> QED BY <2>1, <2>2, <2>3, <1>2, <1>5, <1>6
<1>10. CASE h.do = "revised"
  <2> DEFINE s == shadows[h.file]
             t == [told EXCEPT !.revs[s.rev] = s, !.inputs[s.rev] = @ \cup {s.input}]
  <2>1. /\ now' = now /\ disk' = disk /\ shadows' = [shadows EXCEPT ![h.file] = Nothing]
        /\ told' = told \/ told' = t
    BY <1>3, <1>10 DEF NowAfter, DiskAfter, ToldAfter, ShadowAfter
  <2>2. /\ \/ told'.revs = told.revs /\ told'.inputs = told.inputs
           \/ /\ told'.revs = [told.revs EXCEPT ![s.rev] = s]
              /\ told'.inputs = [told.inputs EXCEPT ![s.rev] = @ \cup {s.input}]
        /\ told'.ready = told.ready /\ told'.claimed = told.claimed
        /\ told' = [ready |-> told'.ready, revs |-> told'.revs, inputs |-> told'.inputs, claimed |-> told'.claimed]
    BY <2>1, <1>6
  <2>3. /\ RevisionsOK'
        /\ told'.revs \in [RevisionSeqs -> RevisionShadows \cup {Nothing}]
        /\ told'.inputs \in [RevisionSeqs -> SUBSET Inputs]
        /\ shadows' \in [Builders -> RevisionShadows \cup {Nothing}]
    BY <2>1, <2>2, <1>1, <1>2, <1>10, RevisedStep
  <2>4. told' \in [ready : Dirs \cup {Nothing},
                   revs : [RevisionSeqs -> RevisionShadows \cup {Nothing}],
                   inputs : [RevisionSeqs -> SUBSET Inputs], claimed : SUBSET Replicas]
    BY <2>2, <2>3, <1>6
  <2> QED BY <2>1, <2>2, <2>3, <2>4, <1>2, <1>5
<1> QED BY <1>4, <1>7, <1>8, <1>9, <1>10 DEF RevisionDos

LEMMA OtherOperation ==
    ASSUME FilesInv, DoOperation, Head(script).do \in {"point", "sync_scope", "sync_root", "claimed"}
    PROVE  FilesInv'
<1> DEFINE h == Head(script)
<1>1. StepOf(h) /\ Orderly(script') /\ script # <<>> /\ h \in Todo
  <2>1. StepOf(h) /\ Orderly(script')
    BY ScriptStep DEF FilesInv
  <2> QED BY <2>1 DEF StepOf, DoOperation
<1>2. FilesTypes /\ PointersOK /\ OwnerOK /\ now \in Volumes /\ disk \in Volumes
  BY DEF FilesInv, FilesTypes
<1>3. now' = NowAfter(h) /\ disk' = DiskAfter(h) /\ told' = ToldAfter(h) /\ shadows' = ShadowAfter(h)
  BY DEF DoOperation
<1>4. h.do \in {"point", "sync_scope", "sync_root", "claimed"}
      /\ UNCHANGED <<handle, filled, claimer, cuts, deaths>>
      /\ h.do \notin DirDos /\ h.do \notin RevisionDos /\ \A op \in Todo' : op \in Todo
  BY <1>1 DEF StepOf, DirDos, RevisionDos
<1>5. told \in [ready : Dirs \cup {Nothing},
                revs : [RevisionSeqs -> RevisionShadows \cup {Nothing}],
                inputs : [RevisionSeqs -> SUBSET Inputs], claimed : SUBSET Replicas]
  BY <1>2 DEF FilesTypes
<1> HIDE DEF h
<1>6. ASSUME now' \in Volumes, disk' \in Volumes, now'.name = now.name, now'.dir = now.dir, now'.revs = now.revs,
             disk'.name = disk.name, disk'.dir = disk.dir, disk'.revs = disk.revs,
             told' = told \/ \E c \in Replicas : told' = [told EXCEPT !.claimed = @ \cup {c}],
             shadows' = shadows
      PROVE  FilesTypes' /\ DirOK' /\ RevisionsOK'
  <2>1. /\ told'.ready = told.ready /\ told'.revs = told.revs /\ told'.inputs = told.inputs
        /\ told' \in [ready : Dirs \cup {Nothing},
                      revs : [RevisionSeqs -> RevisionShadows \cup {Nothing}],
                      inputs : [RevisionSeqs -> SUBSET Inputs], claimed : SUBSET Replicas]
    BY <1>5, <1>6
  <2>2. DirOK' /\ RevisionsOK'
    BY <2>1, <1>1, <1>4, <1>6, Bystanders DEF SameDir, SameRevisions
  <2>3. FilesTypes'
    BY <2>1, <1>1, <1>2, <1>4, <1>6 DEF FilesTypes
  <2> QED BY <2>2, <2>3
<1>7. CASE h.do = "point"
  <2>1. /\ now' = [now EXCEPT !.pointers = h.what]
        /\ disk' = disk /\ told' = told /\ shadows' = shadows
    BY <1>3, <1>7 DEF NowAfter, DiskAfter, ToldAfter, ShadowAfter
  <2>2. h.what \in RevisionSeqs \cup {0} /\ PointedAt(h.what)
    BY <1>1, <1>2, <1>7 DEF PointersOK
  <2>3. /\ now' \in Volumes /\ now'.name = now.name /\ now'.dir = now.dir /\ now'.revs = now.revs
        /\ now'.owner = now.owner /\ now'.pointers = h.what
    BY <2>1, <2>2, <1>2, VolumeFields DEF Volumes
  <2>4. FilesTypes' /\ DirOK' /\ RevisionsOK'
    BY <2>1, <2>3, <1>2, <1>6
  <2>5. OwnerOK'
    BY <2>1, <2>3, <1>1, <1>4, <1>7, Bystanders DEF SameOwner
  <2>6. PointersOK'
    BY <2>2, <2>3, <1>2, <1>4 DEF PointersOK, PointedAt
  <2> QED BY <2>4, <2>5, <2>6 DEF FilesInv
<1>8. CASE h.do = "sync_scope"
  <2>1. /\ disk' = [disk EXCEPT !.pointers = now.pointers]
        /\ now' = now /\ told' = told /\ shadows' = shadows
    BY <1>3, <1>8 DEF NowAfter, DiskAfter, ToldAfter, ShadowAfter
  <2>2. /\ disk' \in Volumes /\ disk'.name = disk.name /\ disk'.dir = disk.dir /\ disk'.revs = disk.revs
        /\ disk'.owner = disk.owner
    BY <2>1, <1>2, VolumeFields DEF Volumes
  <2>3. FilesTypes' /\ DirOK' /\ RevisionsOK'
    BY <2>1, <2>2, <1>2, <1>6
  <2>4. OwnerOK' /\ PointersOK'
    BY <2>1, <2>2, <1>1, <1>4, <1>8, Bystanders DEF SameOwner
  <2> QED BY <2>3, <2>4 DEF FilesInv
<1>9. CASE h.do = "sync_root"
  <2>1. /\ disk' = [disk EXCEPT !.owner = now.owner]
        /\ now' = now /\ told' = told /\ shadows' = shadows
    BY <1>3, <1>9 DEF NowAfter, DiskAfter, ToldAfter, ShadowAfter
  <2>2. /\ disk' \in Volumes /\ disk'.name = disk.name /\ disk'.dir = disk.dir /\ disk'.revs = disk.revs
        /\ disk'.owner = now.owner
    BY <2>1, <1>2, VolumeFields DEF Volumes
  <2>3. FilesTypes' /\ DirOK' /\ RevisionsOK'
    BY <2>1, <2>2, <1>2, <1>6
  <2>4. PointersOK'
    BY <2>1, <1>1, <1>4, Bystanders
  <2>5. OwnerOK'
    BY <2>1, <2>2, <1>1, <1>2, <1>4 DEF OwnerOK, ClaimIsForGood
  <2> QED BY <2>3, <2>4, <2>5 DEF FilesInv
<1>10. CASE h.do = "claimed"
  <2>1. /\ now' = now /\ disk' = disk /\ shadows' = shadows
        /\ told' = [told EXCEPT !.claimed = @ \cup {h.file}]
    BY <1>3, <1>10 DEF NowAfter, DiskAfter, ToldAfter, ShadowAfter
  <2>2. \A op \in Todo : op.do # "sync_root" /\ (op \in Todo' => op.do # "claimed")
    BY <1>1, <1>10 DEF StepOf, Follows, Stage
  <2>3. /\ h.file \in Replicas /\ told.claimed = {} /\ now.owner = h.file /\ disk.owner = h.file
    BY <2>2, <1>1, <1>2, <1>10 DEF OwnerOK, Has
  <2>4. told'.claimed = {h.file}
    BY <2>1, <2>3, <1>5
  <2>5. FilesTypes' /\ DirOK' /\ RevisionsOK'
    BY <2>1, <2>3, <1>2, <1>6
  <2>6. PointersOK'
    BY <2>1, <1>1, <1>4, Bystanders
  <2>7. claimer' = Nothing
    BY <1>1, <1>2, <1>4 DEF OwnerOK
  <2>8. OwnerOK'
    BY <2>1, <2>2, <2>3, <2>4, <2>7, <1>4 DEF OwnerOK, ClaimIsForGood
  <2> QED BY <2>5, <2>6, <2>8 DEF FilesInv
<1> QED BY <1>4, <1>7, <1>8, <1>9, <1>10

-----------------------------------------------------------------------------
(* Calls that make a shadow, fill it and seal it.                          *)

LEMMA NothingPending ==
    ASSUME FilesInv, Free
    PROVE  /\ Todo = {} /\ claimer = Nothing /\ script = <<>>
           /\ \A do : ~Has(do)
           /\ \A f : ~Owes(f)
BY ScriptEnds DEF Free, Has, Owes

LEMMA WhatBuildingMeans ==
    ASSUME FilesInv, Building
    PROVE  /\ Free /\ handle \in Contents /\ handle # Nothing /\ now.name = "building"
           /\ now.dir["manifest"] = handle /\ now.dir["digest"] = handle
           /\ now.dir["journal"] \in JournalFiles /\ now.dir["journal"] # Nothing
           /\ now.dir["journal"].of = handle
           /\ told.ready = Nothing /\ disk.name # "ready"
           /\ Phase \in EarlyPhases => Fresh
           /\ Phase \in LatePhases => RocksAre(handle)
           /\ filled => RocksAre(handle)
<1>1. /\ Free /\ handle # Nothing /\ now.name = "building"
      /\ \A do : ~Has(do)
      /\ \A f : ~Owes(f)
  BY NothingPending DEF Building
<1>2. handle \in Contents /\ now.dir["journal"] \in JournalFiles \cup {Nothing}
  BY <1>1 DEF FilesInv, FilesTypes, Volumes, Dirs
<1>3. /\ now.dir["manifest"] = handle /\ now.dir["digest"] = handle
      /\ ValidJournal(now.dir, handle)
  BY <1>1 DEF FilesInv, DirOK, IdentityOK
<1>4. told.ready = Nothing /\ disk.name # "ready"
  BY <1>1 DEF FilesInv, DirOK, ReadyOK
<1>5. RocksOK
  BY DEF FilesInv, DirOK
<1>6. now.dir["journal"] # Nothing /\ now.dir["journal"].of = handle
  BY <1>3 DEF ValidJournal
<1>7. Phase \in EarlyPhases => Fresh
  BY <1>5, <1>6 DEF RocksOK, Phase, Fresh, Done, EarlyPhases, LatePhases
<1>8. Phase \in LatePhases => RocksAre(handle)
  BY <1>5, <1>6 DEF RocksOK, Phase, Done
<1>9. filled => RocksAre(handle)
  BY <1>1, <1>5 DEF RocksOK, RocksAre
<1> QED BY <1>1, <1>2, <1>3, <1>4, <1>6, <1>7, <1>8, <1>9

LEMMA CallStarts ==
    ASSUME FilesInv, Free, Orderly(script'), UNCHANGED <<now, disk, shadows, claimer, told, cuts, deaths>>,
           handle' \in Contents \cup {Nothing}, filled' \in BOOLEAN,
           \A op \in Todo' : op.do \in DirDos,
           DirOK'
    PROVE  FilesInv'
<1>1. Todo = {} /\ claimer = Nothing /\ script = <<>>
  BY NothingPending
<1>2. FilesTypes'
  BY DEF FilesInv, FilesTypes
<1>3. \A op \in Todo' : op.do \notin RevisionDos /\ op.do \notin {"point", "sync_scope", "sync_root", "claimed"}
  BY DEF DirDos, RevisionDos
<1>4. SameTodo(RevisionDos) /\ SameTodo({"sync_root", "claimed"})
  BY <1>1, <1>3 DEF SameTodo
<1>5. RevisionsOK'
  BY <1>4, RevisionsKept DEF FilesInv, SameRevisions
<1>6. OwnerOK'
  BY <1>1, <1>4, OwnerKept DEF FilesInv, SameOwner
<1>7. PointersOK'
  BY <1>3, PointersKept DEF FilesInv
<1> QED BY <1>2, <1>5, <1>6, <1>7 DEF FilesInv

(* A call that writes files of the shadow.                                 *)
LEMMA WritingStarts ==
    ASSUME FilesInv, Building, Orderly(script'),
           UNCHANGED <<now, disk, handle, shadows, claimer, told, cuts, deaths>>,
           filled' = filled \/ (filled' = TRUE /\ Owes("rocks")'),
           \A op \in Todo' : op.do \in {"write", "sync_dir", "flush"},
           \A op \in Todo' : op.do = "write" => WriteFits(op)'
    PROVE  FilesInv'
<1>1. /\ Free /\ handle \in Contents /\ handle # Nothing /\ now.name = "building"
      /\ now.dir["manifest"] = handle /\ now.dir["digest"] = handle
      /\ now.dir["journal"] # Nothing /\ now.dir["journal"].of = handle
      /\ told.ready = Nothing /\ disk.name # "ready"
      /\ filled => RocksAre(handle)
  BY WhatBuildingMeans
<1>2. ~Has("create")' /\ ~Has("publish")' /\ ~Has("loaded")'
  BY DEF Has
<1>3. CreateFits' /\ WritesFit' /\ PublishOK'
  BY <1>2 DEF CreateFits, WritesFit, PublishOK
<1>4. RocksOK'
  BY <1>1 DEF FilesInv, DirOK, RocksOK, RocksAre, Done
<1>5. IdentityOK'
  BY <1>1 DEF IdentityOK, ValidJournal
<1>6. ReadyOK'
  BY <1>1, <1>2 DEF ReadyOK
<1>7. DirOK'
  BY <1>3, <1>4, <1>5, <1>6 DEF DirOK
<1>8. \A op \in Todo' : op.do \in DirDos
  BY DEF DirDos
<1>9. filled' \in BOOLEAN
  BY DEF FilesInv, FilesTypes
<1> QED BY <1>1, <1>7, <1>8, <1>9, CallStarts

(* A journal that is written now.                                          *)
LEMMA JournalWriteFits ==
    ASSUME FilesInv, Building, UNCHANGED <<now, disk, handle>>, NEW p \in PhaseNames,
           NEW op, op.do = "write", op.file = "journal", op.what = [of |-> handle, phase |-> p],
           p \in EarlyPhases => Fresh,
           p \in LatePhases => RocksAre(handle) /\ ~Owes("rocks")' /\ ~Has("create")'
    PROVE  WriteFits(op)' /\ op.what \in FileValues
<1>1. handle \in Contents /\ handle # Nothing /\ now.name = "building"
  BY WhatBuildingMeans
<1>2. op.what \in JournalFiles /\ op.what.of = handle /\ op.what.phase = p
  BY <1>1 DEF JournalFiles
<1>3. op.what \in FileValues /\ op.file \in DirFiles
  BY <1>2 DEF FileValues, DirFiles
<1>4. (Fresh => Fresh') /\ (RocksAre(handle) => RocksAre(handle)')
  BY DEF Fresh, Done, RocksAre
<1> QED BY <1>1, <1>2, <1>3, <1>4 DEF WriteFits

LEMMA JournalCall ==
    ASSUME FilesInv, Building, NEW p \in PhaseNames, Make(WriteJournal(handle, p)),
           p \in EarlyPhases => Fresh, p \notin LatePhases
    PROVE  FilesInv'
<1> DEFINE j == [of |-> handle, phase |-> p]
<1>0. PICK o : o = Op("write", "journal", j)
  OBVIOUS
<1>1. /\ script' = AtomicWrite("journal", j)
      /\ UNCHANGED <<now, disk, handle, filled, shadows, claimer, told, cuts, deaths>>
  BY DEF Make, WriteJournal
<1>2. handle \in Contents
  BY WhatBuildingMeans
<1>3. j \in FileValues /\ "journal" \in DirFiles
  BY <1>2 DEF FileValues, JournalFiles, DirFiles
<1>4. Orderly(script') /\ Todo' = {o, Plain("sync_dir")}
  BY <1>0, <1>1, <1>3, AtomicWriteOps DEF Todo
<1>5. o.do = "write" /\ o.file = "journal" /\ o.what = j /\ Plain("sync_dir").do = "sync_dir"
  BY <1>0, <1>3, WriteOp, PlainOp DEF DirDos
<1>6. WriteFits(o)'
  BY <1>1, <1>5, JournalWriteFits
<1>7. \A op \in Todo' : /\ op.do \in {"write", "sync_dir", "flush"}
                        /\ op.do = "write" => WriteFits(op)'
  BY <1>4, <1>5, <1>6
<1> QED BY <1>1, <1>4, <1>7, WritingStarts

LEMMA InstallKeeps ==
    ASSUME FilesInv, InstallFiles
    PROVE  FilesInv'
<1>1. /\ Building /\ handle \in Contents /\ handle # Nothing /\ now.name = "building"
      /\ Phase \in EarlyPhases => Fresh
  BY WhatBuildingMeans DEF InstallFiles
<1>2. Phase \in {"staged", "bundle_verified"} /\ Fresh /\ "bundle_verified" \in PhaseNames
  BY <1>1 DEF InstallFiles, EarlyPhases, PhaseNames
<1>3. CASE Make(WriteJournal(handle, "bundle_verified"))
  BY <1>1, <1>2, <1>3, JournalCall DEF LatePhases
<1> DEFINE j == [of |-> handle, phase |-> "bundle_verified"]
<1>0. PICK o, b : o = Op("write", "journal", j) /\ b = Op("write", "bundle", handle.bundle)
  OBVIOUS
<1>4. CASE Make(<<Op("write", "bundle", handle.bundle), Plain("sync_dir")>>
                \o WriteJournal(handle, "bundle_verified"))
  <2>1. /\ script' = AtomicWrite("bundle", handle.bundle) \o AtomicWrite("journal", j)
        /\ UNCHANGED <<now, disk, handle, filled, shadows, claimer, told, cuts, deaths>>
    BY <1>4 DEF Make, WriteJournal, AtomicWrite
  <2>2. /\ j \in FileValues /\ handle.bundle \in FileValues
        /\ "journal" \in DirFiles \ {"bundle"} /\ "bundle" \in DirFiles
    BY <1>1, <1>2 DEF FileValues, JournalFiles, DirFiles
  <2>3. Orderly(script') /\ Todo' = {b, o, Plain("sync_dir")}
    BY <1>0, <2>1, <2>2, TwoWrites DEF Todo
  <2>4. /\ o.do = "write" /\ o.file = "journal" /\ o.what = j /\ Plain("sync_dir").do = "sync_dir"
        /\ b.do = "write" /\ b.file = "bundle" /\ b.what = handle.bundle
    BY <1>0, <2>2, WriteOp, PlainOp DEF DirDos
  <2>5. WriteFits(o)'
    BY <2>1, <2>4, <1>1, <1>2, JournalWriteFits DEF LatePhases
  <2>6. WriteFits(b)'
    BY <2>1, <2>2, <2>4, <1>1 DEF WriteFits
  <2>7. \A op \in Todo' : /\ op.do \in {"write", "sync_dir", "flush"}
                          /\ op.do = "write" => WriteFits(op)'
    BY <2>3, <2>4, <2>5, <2>6
  <2> QED BY <2>1, <2>3, <2>7, <1>1, WritingStarts
<1> QED BY <1>3, <1>4 DEF InstallFiles

LEMMA MarkKeeps ==
    ASSUME FilesInv, MarkFiles
    PROVE  FilesInv'
<1>1. Building /\ (Phase \in EarlyPhases => Fresh)
  BY WhatBuildingMeans DEF MarkFiles
<1>2. Fresh /\ "materializing" \in PhaseNames /\ "materializing" \notin LatePhases
  BY <1>1 DEF MarkFiles, EarlyPhases, LatePhases, PhaseNames
<1> QED BY <1>1, <1>2, JournalCall DEF MarkFiles

LEMMA FailKeeps ==
    ASSUME FilesInv, FailFiles
    PROVE  FilesInv'
<1>1. Building /\ "failed" \in PhaseNames /\ "failed" \notin LatePhases /\ "failed" \notin EarlyPhases
  BY DEF FailFiles, EarlyPhases, LatePhases, PhaseNames
<1> QED BY <1>1, JournalCall DEF FailFiles

LEMMA FillKeeps ==
    ASSUME FilesInv, FillRocks
    PROVE  FilesInv'
<1>0. PICK r, f : r = Op("write", "rocks", handle.name) /\ f = Plain("flush")
  OBVIOUS
<1>1. /\ Building /\ handle \in Contents /\ handle # Nothing /\ now.name = "building"
      /\ Phase \in EarlyPhases => Fresh
  BY WhatBuildingMeans DEF FillRocks
<1>2. Fresh /\ filled' = TRUE /\ UNCHANGED <<now, disk, handle, shadows, claimer, told, cuts, deaths>>
      /\ script' = <<r, f>>
  BY <1>0, <1>1 DEF FillRocks, EarlyPhases
<1>3. handle.name \in FileValues /\ "rocks" \in DirFiles
  BY <1>1 DEF FileValues, DirFiles
<1>4. /\ r \in FileOps /\ r.do = "write" /\ r.file = "rocks" /\ r.what = handle.name
      /\ f \in FileOps /\ f.do = "flush"
  BY <1>0, <1>3, WriteOp, PlainOp DEF DirDos
<1>5. Follows(r, f)
  BY <1>4 DEF Follows, Stage
<1>6. Orderly(script') /\ Todo' = {r, f}
  BY <1>2, <1>4, <1>5, TwoOps DEF Todo
<1>7. Owes("rocks")' /\ Has("flush")' /\ Fresh'
  BY <1>2, <1>4, <1>6 DEF Owes, Has, Fresh, Done
<1>8. WriteFits(r)'
  BY <1>1, <1>2, <1>3, <1>4, <1>7 DEF WriteFits
<1>9. \A op \in Todo' : /\ op.do \in {"write", "sync_dir", "flush"}
                        /\ op.do = "write" => WriteFits(op)'
  BY <1>4, <1>6, <1>8
<1> QED BY <1>1, <1>2, <1>6, <1>7, <1>9, WritingStarts

LEMMA RecordKeeps ==
    ASSUME FilesInv, NEW sum \in Summaries, RecordFiles(sum)
    PROVE  FilesInv'
<1> DEFINE e == [of |-> handle, sum |-> sum]
           j == [of |-> handle, phase |-> "verified"]
<1>0. PICK w, o : w = Op("write", "evidence", e) /\ o = Op("write", "journal", j)
  OBVIOUS
<1>1. /\ Building /\ handle \in Contents /\ handle # Nothing /\ now.name = "building"
      /\ RocksAre(handle)
  BY WhatBuildingMeans DEF RecordFiles
<1>2. /\ script' = AtomicWrite("evidence", e) \o AtomicWrite("journal", j)
      /\ UNCHANGED <<now, disk, handle, filled, shadows, claimer, told, cuts, deaths>>
  BY DEF RecordFiles, Make, WriteJournal
<1>3. /\ j \in FileValues /\ e \in FileValues /\ e \in EvidenceFiles /\ "verified" \in PhaseNames
      /\ "journal" \in DirFiles \ {"evidence"} /\ "evidence" \in DirFiles
  BY <1>1 DEF FileValues, JournalFiles, EvidenceFiles, DirFiles, PhaseNames, LatePhases
<1>4. Orderly(script') /\ Todo' = {w, o, Plain("sync_dir")}
  BY <1>0, <1>2, <1>3, TwoWrites DEF Todo
<1>5. /\ o.do = "write" /\ o.file = "journal" /\ o.what = j /\ Plain("sync_dir").do = "sync_dir"
      /\ w.do = "write" /\ w.file = "evidence" /\ w.what = e
  BY <1>0, <1>3, WriteOp, PlainOp DEF DirDos
<1>6. ~Owes("rocks")' /\ ~Has("create")'
  BY <1>4, <1>5 DEF Owes, Has
<1>7. WriteFits(o)'
  BY <1>1, <1>2, <1>3, <1>5, <1>6, JournalWriteFits DEF EarlyPhases
<1>8. WriteFits(w)'
  BY <1>1, <1>2, <1>3, <1>5 DEF WriteFits
<1>9. \A op \in Todo' : /\ op.do \in {"write", "sync_dir", "flush"}
                        /\ op.do = "write" => WriteFits(op)'
  BY <1>4, <1>5, <1>7, <1>8
<1> QED BY <1>1, <1>2, <1>4, <1>9, WritingStarts

LEMMA FinalizeKeeps ==
    ASSUME FilesInv, FinalizeFiles
    PROVE  FilesInv'
<1>1. /\ Building /\ Free /\ handle \in Contents /\ handle # Nothing /\ now.name = "building"
      /\ now.dir["manifest"] = handle /\ now.dir["digest"] = handle
      /\ now.dir["journal"] \in JournalFiles /\ now.dir["journal"] # Nothing
      /\ now.dir["journal"].of = handle
      /\ told.ready = Nothing /\ disk.name # "ready" /\ RocksAre(handle)
  <2>1. Building /\ Phase \in LatePhases
    BY DEF FinalizeFiles, LatePhases
  <2> QED BY <2>1, WhatBuildingMeans
<1>2. /\ VerifiedBundle(now.dir, handle) /\ ValidEvidence(now.dir, handle)
      /\ Phase = "verified" \/ (Phase = "ready" /\ ValidMarker(now.dir, handle) /\ MarkerOfEvidence(now.dir))
      /\ UNCHANGED <<now, disk, handle, filled, shadows, claimer, told, cuts, deaths>>
      /\ script' = SealMarker \o PublishReady
  BY DEF FinalizeFiles, Make
<1>3. ASSUME Orderly(script'), Elems(PublishReady) \subseteq Todo',
             \A op \in Todo' \ Elems(PublishReady) : op.do \in {"write", "sync_dir"},
             \A op \in Todo' : op.do = "write" => WriteFits(op)' /\ SealWrites(op),
             Owes("marker")' \/ (ValidMarker(now.dir, handle) /\ MarkerOfEvidence(now.dir)),
             Owes("journal")' \/ now.dir["journal"] = [of |-> handle, phase |-> "ready"]
      PROVE  FilesInv'
  <2>1. /\ Has("sync_tree")' /\ Has("publish")' /\ Has("sync_parent")' /\ ~Has("create")'
        /\ \A op \in Todo' : op.do \in DirDos
    BY <1>3, PublishOps DEF Has, DirDos
  <2>2. CreateFits' /\ WritesFit'
    BY <2>1, <1>3 DEF CreateFits, WritesFit
  <2>3. RocksOK'
    BY <1>1, <1>2 DEF FilesInv, DirOK, RocksOK, RocksAre, Done
  <2>4. IdentityOK'
    BY <1>1, <1>2 DEF IdentityOK, ValidJournal
  <2>5. PublishOK'
    BY <2>1, <1>1, <1>2, <1>3
       DEF PublishOK, SealWrites, VerifiedBundle, ValidEvidence, ValidMarker, MarkerOfEvidence, RocksAre
  <2>6. ReadyOK'
    BY <2>1, <1>1, <1>2 DEF ReadyOK
  <2>7. DirOK'
    BY <2>2, <2>3, <2>4, <2>5, <2>6 DEF DirOK
  <2>8. handle' \in Contents \cup {Nothing} /\ filled' \in BOOLEAN
    BY <1>2 DEF FilesInv, FilesTypes
  <2> QED BY <2>1, <2>7, <2>8, <1>1, <1>2, <1>3, CallStarts
<1>4. CASE Phase = "verified"
  <2> DEFINE k == [of |-> handle, sum |-> now.dir["evidence"].sum]
             j == [of |-> handle, phase |-> "ready"]
  <2>0. PICK w, o : w = Op("write", "marker", k) /\ o = Op("write", "journal", j)
    OBVIOUS
  <2>1. now.dir["evidence"].sum \in Summaries
    BY <1>2 DEF ValidEvidence, FilesInv, FilesTypes, Volumes, Dirs, EvidenceFiles
  <2>2. script' = AtomicWrite("marker", k) \o WriteJournal(handle, "ready") \o PublishReady
    BY <1>2, <1>4 DEF SealMarker
  <2>3. Orderly(script') /\ Todo' = {w, o, Plain("sync_dir")} \cup Elems(PublishReady)
    BY <2>0, <2>1, <2>2, <1>1, SealOps DEF Todo
  <2>4. /\ j \in FileValues /\ k \in FileValues /\ {"marker", "journal"} \subseteq DirFiles
        /\ "ready" \in PhaseNames
    BY <2>1, <1>1 DEF FileValues, JournalFiles, EvidenceFiles, DirFiles, PhaseNames, LatePhases
  <2>5. /\ o.do = "write" /\ o.file = "journal" /\ o.what = j /\ Plain("sync_dir").do = "sync_dir"
        /\ w.do = "write" /\ w.file = "marker" /\ w.what = k
    BY <2>0, <2>4, WriteOp, PlainOp DEF DirDos
  <2>6. \A op \in Todo' : op.do = "write" => op \in {w, o}
    BY <2>3, <2>5, PublishOps
  <2>7. ~Owes("rocks")' /\ ~Has("create")' /\ Owes("marker")' /\ Owes("journal")'
    BY <2>3, <2>5, <2>6, PublishOps DEF Owes, Has
  <2>8. WriteFits(o)'
    BY <2>4, <2>5, <2>7, <1>1, <1>2, JournalWriteFits DEF EarlyPhases
  <2>9. WriteFits(w)'
    BY <2>4, <2>5, <1>1, <1>2 DEF WriteFits
  <2>10. SealWrites(w) /\ SealWrites(o)
    BY <2>5 DEF SealWrites
  <2>11. \A op \in Todo' \ Elems(PublishReady) : op.do \in {"write", "sync_dir"}
    BY <2>3, <2>5
  <2>12. \A op \in Todo' : op.do = "write" => WriteFits(op)' /\ SealWrites(op)
    BY <2>6, <2>8, <2>9, <2>10
  <2>13. Elems(PublishReady) \subseteq Todo'
    BY <2>3
  <2> QED BY <2>3, <2>7, <2>11, <2>12, <2>13, <1>3
<1>5. CASE Phase = "ready" /\ ValidMarker(now.dir, handle) /\ MarkerOfEvidence(now.dir)
  <2>1. PublishReady \in Seq(FileOps)
    BY PublishOps DEF Orderly
  <2>2. script' = PublishReady
    BY <2>1, <1>2, <1>5 DEF SealMarker
  <2>3. Orderly(script') /\ Todo' = Elems(PublishReady)
    BY <2>2, PublishOps DEF Todo
  <2>4. \A op \in Todo' : op.do # "write"
    BY <2>3, PublishOps
  <2>5. now.dir["journal"] = [of |-> handle, phase |-> "ready"]
    BY <1>1, <1>5 DEF JournalFiles, Phase
  <2> QED BY <2>3, <2>4, <2>5, <1>3, <1>5
<1> QED BY <1>2, <1>4, <1>5

LEMMA PrepareKeeps ==
    ASSUME FilesInv, NEW m \in Contents, PrepareFiles(m)
    PROVE  FilesInv'
<1>1. /\ Free /\ Todo = {} /\ script = <<>> /\ m # Nothing
      /\ \A do : ~Has(do)
      /\ \A f : ~Owes(f)
  BY NothingPending, FilesAssumption DEF PrepareFiles
<1>2. /\ handle' = m /\ filled' = FALSE
      /\ UNCHANGED <<now, disk, shadows, claimer, told, cuts, deaths>>
  BY DEF PrepareFiles
<1>3. DirOK /\ RocksOK /\ ReadyOK
  BY DEF FilesInv, DirOK
<1>4. RocksOK'
  BY <1>2, <1>3 DEF RocksOK, RocksAre, Done
<1>5. CASE CreateShadow(m)
  <2>1. script' = CreateScript(m) /\ now.name = "absent"
    BY <1>5 DEF CreateShadow, CreateScript
  <2> DEFINE a == Op("write", "manifest", m)
             b == Op("write", "digest", m)
             j == [of |-> m, phase |-> "staged"]
             c == Op("write", "journal", j)
  <2>2. /\ Orderly(script')
        /\ Todo' = {Plain("create"), Plain("sync_dir"), Plain("sync_parent"), a, b, c}
    BY <2>1, CreateOps DEF Todo
  <2>3. /\ m \in FileValues /\ j \in JournalFiles /\ j \in FileValues
        /\ {"manifest", "digest", "journal"} \subseteq DirFiles
    BY DEF FileValues, JournalFiles, PhaseNames, EarlyPhases, DirFiles
  <2>4. /\ a.do = "write" /\ a.file = "manifest" /\ a.what = m
        /\ b.do = "write" /\ b.file = "digest" /\ b.what = m
        /\ c.do = "write" /\ c.file = "journal" /\ c.what = j
        /\ Plain("create").do = "create" /\ Plain("sync_dir").do = "sync_dir"
        /\ Plain("sync_parent").do = "sync_parent"
    BY <2>3, WriteOp, PlainOp DEF DirDos
  <2>5. PICK o : o = c
    OBVIOUS
  <2>6. PICK x, y : x = a /\ y = b
    OBVIOUS
  <2>7. /\ Has("create")' /\ ~Has("publish")' /\ ~Has("loaded")'
        /\ Owes("manifest")' /\ Owes("digest")' /\ Owes("journal")'
        /\ \A op \in Todo' : op.do \in DirDos /\ (op.do = "write" => op \in {x, y, o})
    BY <2>2, <2>4, <2>5, <2>6 DEF Has, Owes, DirDos
  <2>8. CreateFits'
    BY <2>1, <2>7, <1>1, <1>2 DEF CreateFits
  <2>9. WriteFits(x)' /\ WriteFits(y)'
    BY <2>3, <2>4, <2>6, <2>7, <1>1, <1>2 DEF WriteFits
  <2>10. WriteFits(o)'
    <3>1. j.of = m /\ j.phase = "staged" /\ "staged" \notin LatePhases
      BY DEF LatePhases
    <3> QED BY <3>1, <2>3, <2>4, <2>5, <2>7, <1>1, <1>2 DEF WriteFits
  <2>11. WritesFit'
    BY <2>7, <2>9, <2>10 DEF WritesFit
  <2>12. IdentityOK' /\ PublishOK'
    BY <2>7 DEF IdentityOK, PublishOK
  <2>13. ReadyOK'
    BY <2>1, <2>7, <1>2, <1>3 DEF ReadyOK
  <2>14. DirOK'
    BY <2>8, <2>11, <2>12, <2>13, <1>4 DEF DirOK
  <2> QED BY <2>2, <2>7, <2>14, <1>1, <1>2, CallStarts
<1>6. CASE UNCHANGED script /\ (now.name = "ready" \/ BuildingIdentity(now.dir, m))
  <2>1. Todo' = {} /\ Orderly(script') /\ (\A do : ~Has(do)') /\ (\A f : ~Owes(f)')
    BY <1>1, <1>6 DEF Todo, Has, Owes, FilesInv, FilesTypes
  <2>2. CreateFits' /\ WritesFit' /\ PublishOK'
    BY <2>1 DEF CreateFits, WritesFit, PublishOK
  <2>3. IdentityOK'
    BY <1>2, <1>6 DEF IdentityOK, BuildingIdentity, ValidJournal
  <2>4. now.name = "ready" => Loads(now.dir)'
    BY <1>2, <1>3 DEF ReadyOK, Loads, ValidMarker, VerifiedBundle, ValidEvidence, MarkerOfEvidence, ValidJournal
  <2>5. ReadyOK'
    BY <2>1, <2>4, <1>2, <1>3 DEF ReadyOK
  <2>6. DirOK'
    BY <2>2, <2>3, <2>5, <1>4 DEF DirOK
  <2> QED BY <2>1, <2>6, <1>1, <1>2, CallStarts
<1> QED BY <1>5, <1>6 DEF PrepareFiles, Ready

-----------------------------------------------------------------------------
(* Calls about revisions, the pointer cache and the owner file.            *)

LEMMA PrepareRevisionKeeps ==
    ASSUME FilesInv, NEW b \in Builders, NEW r \in RevisionSeqs, NEW input \in Inputs,
           PrepareRevision(b, r, input)
    PROVE  FilesInv'
<1>1. Todo = {} /\ claimer = Nothing /\ script = <<>>
  BY NothingPending DEF PrepareRevision
<1>2. UNCHANGED <<now, disk, script, handle, filled, claimer, cuts, deaths>> /\ Todo' = {}
  BY <1>1 DEF PrepareRevision, Todo
<1>3. /\ told \in [ready : Dirs \cup {Nothing},
                   revs : [RevisionSeqs -> RevisionShadows \cup {Nothing}],
                   inputs : [RevisionSeqs -> SUBSET Inputs], claimed : SUBSET Replicas]
      /\ shadows \in [Builders -> RevisionShadows \cup {Nothing}]
  BY DEF FilesInv, FilesTypes
<1>4. /\ told' \in [ready : Dirs \cup {Nothing},
                    revs : [RevisionSeqs -> RevisionShadows \cup {Nothing}],
                    inputs : [RevisionSeqs -> SUBSET Inputs], claimed : SUBSET Replicas]
      /\ shadows' \in [Builders -> RevisionShadows \cup {Nothing}]
      /\ told'.ready = told.ready /\ told'.revs = told.revs /\ told'.claimed = told.claimed
      /\ \A q \in RevisionSeqs : \A i \in told'.inputs[q] :
            i \in told.inputs[q] \/ (q = r /\ RevisionIs(r, input) /\ i = input)
  <2>1. CASE RevisionIs(r, input) /\ told' = [told EXCEPT !.inputs[r] = @ \cup {input}] /\ UNCHANGED shadows
    BY <2>1, <1>3
  <2>2. CASE /\ shadows' = [shadows EXCEPT ![b] = [rev |-> r, input |-> input, synced |-> FALSE, rows |-> "whole"]]
             /\ UNCHANGED told
    BY <2>2, <1>3 DEF RevisionShadows
  <2> QED BY <2>1, <2>2 DEF PrepareRevision
<1>5. FilesTypes'
  BY <1>2, <1>4 DEF FilesInv, FilesTypes
<1>6. DirOK' /\ OwnerOK' /\ PointersOK'
  BY <1>1, <1>2, <1>4, DirKept, OwnerKept, PointersKept DEF FilesInv, SameDir, SameOwner, SameTodo
<1>7. RevisionsOK'
  BY <1>2, <1>4 DEF FilesInv, RevisionsOK, RevisionIs
<1> QED BY <1>5, <1>6, <1>7 DEF FilesInv

LEMMA FinalizeRevisionKeeps ==
    ASSUME FilesInv, NEW b \in Builders, FinalizeRevision(b)
    PROVE  FilesInv'
<1>1. Todo = {} /\ claimer = Nothing /\ script = <<>> /\ shadows[b] # Nothing
  BY NothingPending DEF FinalizeRevision
<1>2. UNCHANGED <<now, disk, handle, filled, claimer, cuts, deaths>>
  BY DEF FinalizeRevision
<1>3. /\ told \in [ready : Dirs \cup {Nothing},
                   revs : [RevisionSeqs -> RevisionShadows \cup {Nothing}],
                   inputs : [RevisionSeqs -> SUBSET Inputs], claimed : SUBSET Replicas]
      /\ shadows \in [Builders -> RevisionShadows \cup {Nothing}]
  BY DEF FilesInv, FilesTypes
<1> DEFINE s == shadows[b]
<1>4. s \in RevisionShadows /\ s.rev \in RevisionSeqs /\ s.input \in Inputs
  BY <1>1, <1>3 DEF RevisionShadows
<1>5. CASE now.revs[s.rev] = Nothing
  <2>1. script' = PublishRevision(b) /\ UNCHANGED <<shadows, told>>
    BY <1>5 DEF FinalizeRevision
  <2>2. PICK t, v, y, e : /\ t = Op("tree", b, Nothing) /\ v = Op("revise", b, Nothing)
                          /\ y = Plain("sync_revisions") /\ e = Op("revised", b, Nothing)
    OBVIOUS
  <2>3. /\ Orderly(script') /\ Todo' = {t, v, y, e}
        /\ t.do = "tree" /\ t.file = b /\ v.do = "revise" /\ v.file = b
        /\ e.do = "revised" /\ e.file = b /\ y.do = "sync_revisions"
    BY <2>1, <2>2, RevisionOps DEF Todo
  <2>4. HasFor("tree", b)' /\ HasFor("revise", b)' /\ Has("sync_revisions")'
    BY <2>3 DEF HasFor, Has
  <2>5. \A op \in Todo' : op.do \notin DirDos /\ op.do \notin {"sync_root", "claimed", "point"}
    BY <2>3 DEF DirDos
  <2>6. FilesTypes'
    BY <2>1, <2>3, <1>2 DEF FilesInv, FilesTypes
  <2>7. DirOK' /\ OwnerOK' /\ PointersOK'
    BY <2>1, <2>5, <1>1, <1>2, DirKept, OwnerKept, PointersKept DEF FilesInv, SameDir, SameOwner, SameTodo
  <2>8. \A op \in Todo' : RevisionOpFits(op)'
    BY <2>1, <2>3, <2>4, <1>1, <1>2, <1>5 DEF RevisionOpFits
  <2>9. RevisionsOK'
    BY <2>1, <2>3, <2>8, <1>2 DEF FilesInv, RevisionsOK
  <2> QED BY <2>6, <2>7, <2>9 DEF FilesInv
<1>6. CASE now.revs[s.rev] # Nothing
  <2>1. /\ UNCHANGED script /\ shadows' = [shadows EXCEPT ![b] = Nothing] /\ Todo' = {}
        /\ \/ told' = told
           \/ RevisionIs(s.rev, s.input) /\ told' = [told EXCEPT !.inputs[s.rev] = @ \cup {s.input}]
    BY <1>1, <1>6 DEF FinalizeRevision, Todo
  <2>2. /\ told' \in [ready : Dirs \cup {Nothing},
                      revs : [RevisionSeqs -> RevisionShadows \cup {Nothing}],
                      inputs : [RevisionSeqs -> SUBSET Inputs], claimed : SUBSET Replicas]
        /\ shadows' \in [Builders -> RevisionShadows \cup {Nothing}]
        /\ told'.ready = told.ready /\ told'.revs = told.revs /\ told'.claimed = told.claimed
        /\ \A q \in RevisionSeqs : \A i \in told'.inputs[q] :
              i \in told.inputs[q] \/ (q = s.rev /\ RevisionIs(s.rev, s.input) /\ i = s.input)
    BY <2>1, <1>3, <1>4
  <2>3. FilesTypes'
    BY <2>1, <2>2, <1>2 DEF FilesInv, FilesTypes
  <2>4. DirOK' /\ OwnerOK' /\ PointersOK'
    BY <2>1, <2>2, <1>1, <1>2, DirKept, OwnerKept, PointersKept DEF FilesInv, SameDir, SameOwner, SameTodo
  <2>5. RevisionsOK'
    BY <2>1, <2>2, <1>2 DEF FilesInv, RevisionsOK, RevisionIs
  <2> QED BY <2>3, <2>4, <2>5 DEF FilesInv
<1> QED BY <1>5, <1>6

LEMMA ReconcileKeeps ==
    ASSUME FilesInv, NEW p \in RevisionSeqs \cup {0}, ReconcilePointers(p)
    PROVE  FilesInv'
<1>1. Todo = {} /\ claimer = Nothing /\ script = <<>>
  BY NothingPending DEF ReconcilePointers
<1>2. /\ UNCHANGED <<now, disk, handle, filled, shadows, claimer, told, cuts, deaths>>
      /\ script' = <<Op("point", Nothing, p), Plain("sync_scope")>>
      /\ now.name = "ready" /\ (p # 0 => now.revs[p] # Nothing)
  BY DEF ReconcilePointers, PointerFor, Ready
<1>3. PICK a, y : a = Op("point", Nothing, p) /\ y = Plain("sync_scope")
  OBVIOUS
<1>4. /\ a \in FileOps /\ a.do = "point" /\ a.what = p
      /\ y \in FileOps /\ y.do = "sync_scope"
  BY <1>3 DEF Op, Plain, FileOps, FileValues
<1>5. Follows(a, y)
  BY <1>4 DEF Follows, Stage
<1>6. Orderly(script') /\ Todo' = {a, y}
  BY <1>2, <1>3, <1>4, <1>5, TwoOps DEF Todo
<1>7. \A op \in Todo' : op.do \notin DirDos /\ op.do \notin RevisionDos /\ op.do \notin {"sync_root", "claimed"}
  BY <1>4, <1>6 DEF DirDos, RevisionDos
<1>8. FilesTypes'
  BY <1>2, <1>6 DEF FilesInv, FilesTypes
<1>9. DirOK' /\ RevisionsOK' /\ OwnerOK'
  BY <1>1, <1>2, <1>7, DirKept, RevisionsKept, OwnerKept
     DEF FilesInv, SameDir, SameRevisions, SameOwner, SameTodo
<1>10. PointersOK'
  BY <1>2, <1>4, <1>6 DEF FilesInv, PointersOK, PointedAt
<1> QED BY <1>8, <1>9, <1>10 DEF FilesInv

(* The owner file changes and no operation is pending.                     *)
LEMMA OwnerSteps ==
    ASSUME FilesInv, Todo = {}, NEW o \in Replicas \cup {"empty", Nothing}, now' = [now EXCEPT !.owner = o],
           UNCHANGED <<disk, handle, filled, shadows, told, cuts, deaths>>,
           claimer' \in Replicas \cup {Nothing}, Orderly(script'),
           \A op \in Todo' : op.do \in {"sync_root", "claimed"}
    PROVE  FilesTypes' /\ DirOK' /\ RevisionsOK' /\ PointersOK' /\ now'.owner = o
<1>1. now \in Volumes
  BY DEF FilesInv, FilesTypes
<1>2. /\ now' \in Volumes /\ now'.name = now.name /\ now'.dir = now.dir /\ now'.revs = now.revs
      /\ now'.pointers = now.pointers /\ now'.owner = o
  BY <1>1 DEF Volumes
<1>3. \A op \in Todo' : op.do \notin DirDos /\ op.do \notin RevisionDos /\ op.do # "point"
  BY DEF DirDos, RevisionDos
<1>4. FilesTypes'
  BY <1>2 DEF FilesInv, FilesTypes
<1>5. DirOK' /\ RevisionsOK' /\ PointersOK'
  BY <1>2, <1>3, DirKept, RevisionsKept, PointersKept DEF FilesInv, SameDir, SameRevisions, SameTodo
<1> QED BY <1>2, <1>4, <1>5

LEMMA CreateOwnerKeeps ==
    ASSUME FilesInv, NEW rep \in Replicas, CreateOwner(rep)
    PROVE  FilesInv'
<1>1. Todo = {} /\ claimer = Nothing /\ script = <<>>
  BY NothingPending DEF CreateOwner
<1>2. /\ now.owner = Nothing /\ now' = [now EXCEPT !.owner = "empty"] /\ claimer' = rep
      /\ UNCHANGED <<disk, script, handle, filled, shadows, told, cuts, deaths>>
  BY DEF CreateOwner
<1>3. Todo' = {} /\ Orderly(script')
  BY <1>1, <1>2 DEF Todo, FilesInv, FilesTypes
<1>4. FilesTypes' /\ DirOK' /\ RevisionsOK' /\ PointersOK'
  BY <1>1, <1>2, <1>3, OwnerSteps
<1>5. told.claimed = {}
  BY <1>2, FilesAssumption DEF FilesInv, FilesTypes, OwnerOK, ClaimIsForGood
<1>6. OwnerOK'
  BY <1>1, <1>2, <1>3, <1>5 DEF OwnerOK, ClaimIsForGood
<1> QED BY <1>4, <1>6 DEF FilesInv

LEMMA WriteOwnerKeeps ==
    ASSUME FilesInv, WriteOwner
    PROVE  FilesInv'
<1>1. claimer # Nothing /\ claimer \in Replicas /\ told.claimed = {} /\ script = <<>> /\ Todo = {}
  BY ScriptEnds DEF WriteOwner, FilesInv, FilesTypes, OwnerOK
<1>2. /\ now' = [now EXCEPT !.owner = claimer] /\ claimer' = Nothing
      /\ script' = <<Plain("sync_root"), Op("claimed", claimer, Nothing)>>
      /\ UNCHANGED <<disk, handle, filled, shadows, told, cuts, deaths>>
  BY DEF WriteOwner
<1>3. PICK y, c : y = Plain("sync_root") /\ c = Op("claimed", claimer, Nothing)
  OBVIOUS
<1>4. /\ y \in FileOps /\ y.do = "sync_root"
      /\ c \in FileOps /\ c.do = "claimed" /\ c.file = claimer
  BY <1>1, <1>3 DEF Op, Plain, FileOps, FileValues
<1>5. Follows(y, c)
  BY <1>4 DEF Follows, Stage
<1>6. Orderly(script') /\ Todo' = {y, c}
  BY <1>2, <1>3, <1>4, <1>5, TwoOps DEF Todo
<1>7. FilesTypes' /\ DirOK' /\ RevisionsOK' /\ PointersOK' /\ now'.owner = claimer
  BY <1>1, <1>2, <1>4, <1>6, OwnerSteps
<1>8. Has("sync_root")'
  BY <1>4, <1>6 DEF Has
<1>9. OwnerOK'
  BY <1>1, <1>2, <1>4, <1>6, <1>7, <1>8 DEF OwnerOK, ClaimIsForGood
<1> QED BY <1>7, <1>9 DEF FilesInv

LEMMA RemoveOwnerKeeps ==
    ASSUME FilesInv, RemoveOwner
    PROVE  FilesInv'
<1>1. told.claimed = {} /\ script = <<>> /\ Todo = {}
  BY ScriptEnds DEF RemoveOwner, FilesInv, OwnerOK
<1>2. /\ now' = [now EXCEPT !.owner = Nothing] /\ claimer' = Nothing
      /\ UNCHANGED <<disk, script, handle, filled, shadows, told, cuts, deaths>>
  BY DEF RemoveOwner
<1>3. Todo' = {} /\ Orderly(script')
  BY <1>1, <1>2 DEF Todo, FilesInv, FilesTypes
<1>4. FilesTypes' /\ DirOK' /\ RevisionsOK' /\ PointersOK'
  BY <1>1, <1>2, <1>3, OwnerSteps
<1>5. OwnerOK'
  BY <1>1, <1>2, <1>3 DEF OwnerOK, ClaimIsForGood
<1> QED BY <1>4, <1>5 DEF FilesInv

-----------------------------------------------------------------------------
(* Deaths of the process and power cuts.                                   *)

LEMMA Forgotten ==
    ASSUME Forget
    PROVE  /\ Todo' = {} /\ Orderly(script') /\ (\A do : ~Has(do)') /\ (\A f : ~Owes(f)')
           /\ CreateFits' /\ WritesFit' /\ IdentityOK' /\ PublishOK'
           /\ handle' = Nothing /\ filled' = FALSE /\ claimer' = Nothing /\ told' = told
           /\ shadows' = [b \in Builders |-> Nothing]
<1>1. script' = <<>> /\ handle' = Nothing /\ filled' = FALSE
  BY DEF Forget
<1>2. Todo' = {} /\ Orderly(script')
  BY <1>1, ScriptEnds DEF Todo
<1>3. (\A do : ~Has(do)') /\ (\A f : ~Owes(f)')
  BY <1>2 DEF Has, Owes
<1> QED BY <1>1, <1>2, <1>3 DEF Forget, CreateFits, WritesFit, IdentityOK, PublishOK

LEMMA DeathKeeps ==
    ASSUME FilesInv, ProcessDies
    PROVE  FilesInv'
<1>1. Forget /\ deaths' = deaths + 1 /\ UNCHANGED <<now, disk, cuts>>
  BY DEF ProcessDies
<1>2. /\ Todo' = {} /\ Orderly(script') /\ (\A do : ~Has(do)') /\ (\A f : ~Owes(f)')
      /\ CreateFits' /\ WritesFit' /\ IdentityOK' /\ PublishOK'
      /\ handle' = Nothing /\ filled' = FALSE /\ claimer' = Nothing /\ told' = told
      /\ shadows' = [b \in Builders |-> Nothing]
  BY <1>1, Forgotten
<1>3. FilesTypes'
  <2>1. deaths' \in Nat /\ cuts' \in Nat /\ now' \in Volumes /\ disk' \in Volumes
    BY <1>1 DEF FilesInv, FilesTypes
  <2>2. shadows' \in [Builders -> RevisionShadows \cup {Nothing}]
    BY <1>2
  <2> QED BY <2>1, <2>2, <1>2 DEF FilesInv, FilesTypes
<1>4. RocksOK'
  BY <1>1, <1>2 DEF FilesInv, DirOK, RocksOK, RocksAre, Done
<1>5. now.name = "ready" => Loads(now.dir)'
  BY <1>1 DEF FilesInv, DirOK, ReadyOK, Loads, ValidMarker, VerifiedBundle, ValidEvidence, MarkerOfEvidence, ValidJournal
<1>6. ReadyOK'
  BY <1>1, <1>2, <1>5 DEF FilesInv, DirOK, ReadyOK
<1>7. DirOK'
  BY <1>2, <1>4, <1>6 DEF DirOK
<1>8. RevisionsOK'
  BY <1>1, <1>2 DEF FilesInv, RevisionsOK
<1>9. PointersOK'
  BY <1>1, <1>2, PointersKept DEF FilesInv
<1>10. OwnerOK'
  BY <1>1, <1>2 DEF FilesInv, OwnerOK, ClaimIsForGood
<1> QED BY <1>3, <1>7, <1>8, <1>9, <1>10 DEF FilesInv

LEMMA CutKeeps ==
    ASSUME FilesInv, CutPower
    PROVE  FilesInv'
<1>1. Forget /\ cuts' = cuts + 1 /\ deaths' = deaths /\ disk' = now' /\ cuts \in Nat /\ deaths \in Nat
  BY DEF CutPower, FilesInv, FilesTypes
<1>2. /\ Todo' = {} /\ Orderly(script') /\ (\A do : ~Has(do)') /\ (\A f : ~Owes(f)')
      /\ CreateFits' /\ WritesFit' /\ IdentityOK' /\ PublishOK'
      /\ handle' = Nothing /\ filled' = FALSE /\ claimer' = Nothing /\ told' = told
      /\ shadows' = [b \in Builders |-> Nothing]
  BY <1>1, Forgotten
<1>3. PICK n \in {now.name, disk.name}, p \in {now.pointers, disk.pointers},
           o \in {now.owner, disk.owner}, kept \in SUBSET Unsynced, torn \in BOOLEAN,
           revised \in SUBSET {r \in RevisionSeqs : now.revs[r] # disk.revs[r]} :
        now' = [name |-> n,
                dir |-> IF n = "absent" THEN BareDir ELSE Left(kept, torn),
                revs |-> [r \in RevisionSeqs |-> LeftRevision(r, revised)],
                pointers |-> p, owner |-> o]
  BY DEF CutPower
<1>4. /\ now \in Volumes /\ disk \in Volumes /\ now.dir \in Dirs /\ disk.dir \in Dirs
      /\ now.revs \in [RevisionSeqs -> SealedRevisions \cup {Nothing}]
      /\ disk.revs \in [RevisionSeqs -> SealedRevisions \cup {Nothing}]
  <2>1. now \in Volumes /\ disk \in Volumes
    BY DEF FilesInv, FilesTypes
  <2> QED BY <2>1, VolumeFields
<1> DEFINE d == Left(kept, torn)
<1>5. /\ \A f \in DirFiles : f # "rocks" => d[f] \in {now.dir[f], disk.dir[f]}
      /\ now.dir["rocks"] = disk.dir["rocks"] => d["rocks"] = disk.dir["rocks"]
      /\ now.dir = disk.dir => d = disk.dir
      /\ d \in Dirs
  BY <1>4 DEF Left, Unsynced, Dirs, DirFiles, FileValues
<1>6. ASSUME NEW r \in RevisionSeqs
      PROVE  /\ LeftRevision(r, revised) \in {now.revs[r], disk.revs[r]}
             /\ now.revs[r] = disk.revs[r] => LeftRevision(r, revised) = disk.revs[r]
  BY <1>4 DEF LeftRevision, SealedRevisions
<1>7. [r \in RevisionSeqs |-> LeftRevision(r, revised)] \in [RevisionSeqs -> SealedRevisions \cup {Nothing}]
  BY <1>4, <1>6
<1>8. /\ now'.name = n /\ now'.dir = IF n = "absent" THEN BareDir ELSE d
      /\ now'.revs = [r \in RevisionSeqs |-> LeftRevision(r, revised)]
      /\ now'.pointers = p /\ now'.owner = o
  BY <1>3
<1>9. now' \in Volumes
  BY <1>3, <1>4, <1>5, <1>7, BareIsDir, VolumeFields DEF Volumes
<1> HIDE DEF d
<1>10. FilesTypes'
  <2>1. deaths' \in Nat /\ cuts' \in Nat /\ disk' \in Volumes
    BY <1>1, <1>9
  <2>2. shadows' \in [Builders -> RevisionShadows \cup {Nothing}]
    BY <1>2
  <2> QED BY <2>1, <2>2, <1>2, <1>9 DEF FilesInv, FilesTypes
<1>11. RocksOK'
  <2>0. RocksOK /\ {"journal", "rocks"} \subseteq DirFiles
    BY DEF FilesInv, DirOK, DirFiles
  <2>1. CASE n = "absent"
    <3>1. ~Done(now.dir)' /\ ~Done(disk.dir)'
      BY <2>1, <1>1, <1>8 DEF Done, BareDir, DirFiles
    <3> QED BY <3>1, <1>2 DEF RocksOK
  <2>2. CASE n # "absent"
    <3>1. now'.dir = d /\ disk'.dir = d
      BY <2>2, <1>1, <1>8
    <3>2. Done(d) => d["rocks"] = d["journal"].of.name
      <4> SUFFICES ASSUME Done(d) PROVE d["rocks"] = d["journal"].of.name
        OBVIOUS
      <4>1. \/ d["journal"] = now.dir["journal"] /\ Done(now.dir)
            \/ d["journal"] = disk.dir["journal"] /\ Done(disk.dir)
        BY <2>0, <1>5 DEF Done
      <4>2. RocksAre(d["journal"].of)
        BY <4>1, <2>0 DEF RocksOK
      <4> QED BY <4>2, <1>5 DEF RocksAre
    <3>3. d["journal"] # Nothing /\ d["journal"].phase \in EarlyPhases => ~Done(d)
      BY DEF Done, EarlyPhases, LatePhases
    <3> QED BY <3>1, <3>2, <3>3, <1>2 DEF RocksOK, RocksAre, Done
  <2> QED BY <2>1, <2>2
<1>12. ReadyOK'
  <2>0. ReadyOK
    BY DEF FilesInv, DirOK
  <2>1. now'.name = "ready" =>
           now.name = "ready" /\ now'.dir = now.dir /\ Loads(now.dir) /\ disk.dir = now.dir
             /\ now.dir["rocks"] = now.dir["manifest"].name
    BY <2>0, <1>5, <1>8 DEF ReadyOK
  <2>2. now'.name = "ready" => Loads(now.dir)'
    BY <2>1 DEF Loads, ValidMarker, VerifiedBundle, ValidEvidence, MarkerOfEvidence, ValidJournal
  <2>3. told.ready # Nothing => now'.name = "ready" /\ now'.dir = told.ready
    BY <2>0, <1>5, <1>8 DEF ReadyOK
  <2> QED BY <2>1, <2>2, <2>3, <1>1, <1>2 DEF ReadyOK
<1>13. DirOK'
  BY <1>2, <1>11, <1>12 DEF DirOK
<1>14. RevisionsOK'
  <2>1. ASSUME NEW r \in RevisionSeqs, told.revs[r] # Nothing
        PROVE  told.revs[r] = now'.revs[r]
    BY <2>1, <1>6, <1>8 DEF FilesInv, RevisionsOK
  <2>2. cuts' # 0
    BY <1>1
  <2> QED BY <2>1, <2>2, <1>1, <1>2 DEF RevisionsOK
<1>15. PointersOK'
  <2>1. cuts' # 0
    BY <1>1
  <2> QED BY <2>1, <1>2 DEF PointersOK
<1>16. OwnerOK'
  BY <1>1, <1>2, <1>8 DEF FilesInv, OwnerOK, ClaimIsForGood
<1> QED BY <1>10, <1>13, <1>14, <1>15, <1>16 DEF FilesInv

-----------------------------------------------------------------------------
LEMMA FilesStart == FilesInit => FilesInv
<1> SUFFICES ASSUME FilesInit PROVE FilesInv
  OBVIOUS
<1>1. /\ Todo = {} /\ Orderly(script) /\ script = <<>> /\ handle = Nothing /\ filled = FALSE /\ claimer = Nothing
      /\ (\A do : ~Has(do)) /\ (\A f : ~Owes(f))
  BY ScriptEnds DEF FilesInit, Todo, Has, Owes
<1>2. /\ now = [name |-> "absent", dir |-> BareDir, revs |-> NoRevisions,
                pointers |-> Nothing, owner |-> Nothing]
      /\ disk = now /\ cuts = 0 /\ deaths = 0
      /\ shadows = [b \in Builders |-> Nothing]
      /\ told = [ready |-> Nothing, revs |-> NoRevisions,
                 inputs |-> [r \in RevisionSeqs |-> {}], claimed |-> {}]
  BY DEF FilesInit
<1>3. now \in Volumes
  BY <1>2, BareIsDir DEF Volumes, NoRevisions
<1>4. told \in [ready : Dirs \cup {Nothing},
                revs : [RevisionSeqs -> RevisionShadows \cup {Nothing}],
                inputs : [RevisionSeqs -> SUBSET Inputs], claimed : SUBSET Replicas]
  BY <1>2 DEF NoRevisions
<1>5. FilesTypes
  BY <1>1, <1>2, <1>3, <1>4 DEF FilesTypes
<1>6. now.dir["journal"] = Nothing /\ now.name = "absent" /\ now.pointers = Nothing /\ disk = now
  BY <1>2 DEF BareDir, DirFiles
<1>7. DirOK
  BY <1>1, <1>2, <1>6 DEF DirOK, CreateFits, WritesFit, RocksOK, Done, IdentityOK, PublishOK, ReadyOK
<1>8. RevisionsOK /\ PointersOK /\ OwnerOK
  BY <1>1, <1>2 DEF RevisionsOK, NoRevisions, PointersOK, OwnerOK, ClaimIsForGood
<1> QED BY <1>5, <1>7, <1>8 DEF FilesInv

LEMMA FilesStep == FilesInv /\ [FilesNext]_fileVars => FilesInv'
<1> SUFFICES ASSUME FilesInv, [FilesNext]_fileVars PROVE FilesInv'
  OBVIOUS
<1>1. CASE DoOperation
  <2>1. Head(script).do \in DirDos \cup RevisionDos \cup {"point", "sync_scope", "sync_root", "claimed"}
    BY <1>1, ScriptStep DEF FilesInv, StepOf, FileOps
  <2> QED BY <2>1, <1>1, DirOperation, RevisionOperation, OtherOperation
<1>2. CASE UNCHANGED fileVars
  <2>1. Todo' = Todo
    BY <1>2 DEF fileVars, Todo
  <2>2. DirOK' /\ RevisionsOK' /\ PointersOK' /\ OwnerOK'
    BY <2>1, <1>2, DirKept, RevisionsKept, PointersKept, OwnerKept
       DEF fileVars, FilesInv, SameDir, SameRevisions, SameOwner, SameTodo, OwnerOK
  <2>3. FilesTypes'
    BY <1>2 DEF fileVars, FilesInv, FilesTypes
  <2> QED BY <2>2, <2>3 DEF FilesInv
<1> QED
  BY <1>1, <1>2, PrepareKeeps, InstallKeeps, MarkKeeps, FillKeeps, RecordKeeps, FinalizeKeeps, FailKeeps,
     PrepareRevisionKeeps, FinalizeRevisionKeeps, ReconcileKeeps, CreateOwnerKeeps, WriteOwnerKeeps,
     RemoveOwnerKeeps, DeathKeeps, CutKeeps
  DEF FilesNext

LEMMA InvImpliesWhole == FilesInv => FilesWhole
<1> SUFFICES ASSUME FilesInv PROVE FilesWhole
  OBVIOUS
<1>1. /\ now.revs \in [RevisionSeqs -> SealedRevisions \cup {Nothing}]
      /\ told.inputs \in [RevisionSeqs -> SUBSET Inputs]
  BY VolumeFields DEF FilesInv, FilesTypes
<1>2. PublishedIsWhole
  BY <1>1 DEF FilesInv, DirOK, ReadyOK, PublishedIsWhole, SealedRevisions, RevisionShadows
<1>3. AnswersSurvive
  BY DEF FilesInv, DirOK, ReadyOK, RevisionsOK, AnswersSurvive
<1>4. ClaimIsForGood
  BY DEF FilesInv, OwnerOK
<1>5. ASSUME cuts = 0, NEW r \in RevisionSeqs
      PROVE  Cardinality(told.inputs[r]) <= 1
  <2>1. \A i, j \in told.inputs[r] : i = j
    BY <1>5 DEF FilesInv, RevisionsOK
  <2>2. CASE told.inputs[r] = {}
    <3>1. Cardinality({}) = 0
      BY FS_EmptySet
    <3> QED BY <2>2, <3>1
  <2>3. CASE told.inputs[r] # {}
    <3>1. PICK i : told.inputs[r] = {i}
      BY <2>1, <2>3
    <3>2. Cardinality({i}) = 1
      BY FS_Singleton
    <3> QED BY <3>1, <3>2
  <2> QED BY <2>2, <2>3
<1>6. CacheLoads
  BY DEF FilesInv, DirOK, ReadyOK, PointersOK, PointedAt, CacheLoads, PointersLoad, PointerTarget, Ready
<1> QED BY <1>2, <1>3, <1>4, <1>5, <1>6 DEF FilesWhole, OneTailPerCheckpoint

(* Whatever the process dies in and wherever the power is cut, what the    *)
(* generation layout has published is whole and survives, an owner file    *)
(* keeps its owner, and without cuts a checkpoint has one tail and the     *)
(* pointer cache loads.                                                    *)
THEOREM FilesAlwaysWhole == FilesSpec => []FilesWhole
<1>1. FilesSpec => []FilesInv
  BY FilesStart, FilesStep, PTL DEF FilesSpec
<1> QED BY <1>1, InvImpliesWhole, PTL

-----------------------------------------------------------------------------
(* Snapshots as sets of objects.  PromisedIsStored says nothing of the     *)
(* calls that run: a save has written all but what it has left, unless     *)
(* somebody deletes its snapshot meanwhile, and an eviction only touches   *)
(* what is doomed.                                                         *)

Saves == [op : {"save"}, id : SnapIds, left : SUBSET Files]
Evictions == [op : {"evict"}, id : SnapIds \cup {NoCall}, left : SUBSET SnapIds]

StoreTypes ==
    /\ stored \in [SnapIds -> SUBSET (Files \cup {"meta", "marker"})]
    /\ createdAt \in [SnapIds -> Nat \cup {NoCall}] /\ wallClock \in Nat
    /\ makerCall \in [Makers -> Saves \cup Evictions \cup {NoCall}]
    /\ promised \subseteq SnapIds /\ doomed \subseteq SnapIds

SavedSoFar(c, made, gone, objs) == c \in Saves =>
    /\ made[c.id] # NoCall
    /\ c.id \notin gone => (Files \ c.left) \cup {"meta"} \subseteq objs[c.id]

StoreInv ==
    /\ StoreTypes
    /\ \A s \in promised : createdAt[s] # NoCall
    /\ \A t \in Makers : SavedSoFar(makerCall[t], createdAt, doomed, stored)
    /\ \A t \in Makers : makerCall[t] \in Evictions => makerCall[t].left \subseteq doomed
    /\ PromisedIsStored

LEMMA CallKinds ==
    /\ NoCall \notin Saves /\ NoCall \notin Evictions /\ NoCall \notin Nat
    /\ \A c \in Saves : c.op = "save" /\ c \notin Evictions
    /\ \A c \in Evictions : c.op = "evict" /\ c \notin Saves
<1>1. NoCall \notin Saves /\ NoCall \notin Evictions /\ NoCall \notin Nat
  BY StoreAssumption DEF Saves, Evictions, Files
<1>2. \A c \in Saves : c.op = "save"
  BY DEF Saves
<1>3. \A c \in Evictions : c.op = "evict"
  BY DEF Evictions
<1> QED BY <1>1, <1>2, <1>3

LEMMA StoreStarts == StoreInit => StoreInv
  BY CallKinds DEF StoreInit, StoreInv, StoreTypes, SavedSoFar, PromisedIsStored

(* Calls that run are kept when only doomed snapshots lose objects.        *)
LEMMA StoreKept ==
    ASSUME StoreInv, stored' \in [SnapIds -> SUBSET (Files \cup {"meta", "marker"})],
           \A s \in SnapIds : s \in doomed' \/ stored[s] \subseteq stored'[s] \/ createdAt[s] = NoCall,
           createdAt' \in [SnapIds -> Nat \cup {NoCall}], \A s \in SnapIds : createdAt[s] # NoCall => createdAt'[s] # NoCall,
           wallClock' \in Nat, promised \subseteq promised', promised' \subseteq SnapIds, doomed \subseteq doomed', doomed' \subseteq SnapIds,
           NEW t \in Makers, NEW c \in Saves \cup Evictions \cup {NoCall}, makerCall' = [makerCall EXCEPT ![t] = c],
           SavedSoFar(c, createdAt', doomed', stored'), c \in Evictions => c.left \subseteq doomed',
           \A s \in promised' \ promised : createdAt[s] # NoCall /\ (s \in doomed' \/ Files \cup {"meta"} \subseteq stored'[s])
    PROVE  StoreInv'
<1>1. StoreTypes'
  BY DEF StoreInv, StoreTypes
<1>2. makerCall'[t] = c /\ \A u \in Makers \ {t} : makerCall'[u] = makerCall[u]
  BY DEF StoreInv, StoreTypes
<1>3. \A s \in promised' : s \in SnapIds /\ createdAt'[s] # NoCall
  BY DEF StoreInv
<1>4. ASSUME NEW u \in Makers PROVE SavedSoFar(makerCall'[u], createdAt', doomed', stored')
  <2>1. CASE u = t
    BY <2>1, <1>2
  <2>2. CASE u # t
    <3> SUFFICES ASSUME makerCall[u] \in Saves PROVE SavedSoFar(makerCall'[u], createdAt', doomed', stored')
      BY <1>2, <2>2 DEF SavedSoFar
    <3>1. SavedSoFar(makerCall[u], createdAt, doomed, stored) /\ makerCall[u].id \in SnapIds
      BY DEF StoreInv, Saves
    <3> QED BY <1>2, <2>2, <3>1 DEF SavedSoFar
  <2> QED BY <2>1, <2>2
<1>5. \A u \in Makers : makerCall'[u] \in Evictions => makerCall'[u].left \subseteq doomed'
  BY <1>2 DEF StoreInv
<1>6. PromisedIsStored'
  BY <1>3 DEF StoreInv, PromisedIsStored
<1> QED BY <1>1, <1>3, <1>4, <1>5, <1>6 DEF StoreInv, SavedSoFar

LEMMA StoreSteps == StoreInv /\ [StoreNext]_storeVars => StoreInv'
<1> SUFFICES ASSUME StoreInv, [StoreNext]_storeVars PROVE StoreInv'
  OBVIOUS
<1>0. StoreTypes
  BY DEF StoreInv
<1>1. CASE UNCHANGED <<stored, createdAt, makerCall, promised, doomed>> /\ wallClock' \in Nat
  BY <1>1 DEF StoreInv, StoreTypes, SavedSoFar, PromisedIsStored
<1>2. ASSUME NEW t \in Makers, NEW s \in SnapIds, SaveMetadata(t, s) PROVE StoreInv'
  <2> DEFINE c == [op |-> "save", id |-> s, left |-> Files]
  <2>1. c \in Saves
    BY DEF Saves
  <2>2. /\ stored' = [stored EXCEPT ![s] = {"meta"}] /\ createdAt' = [createdAt EXCEPT ![s] = wallClock]
        /\ makerCall' = [makerCall EXCEPT ![t] = c] /\ UNCHANGED <<wallClock, promised, doomed>> /\ createdAt[s] = NoCall
    BY <1>2 DEF SaveMetadata
  <2>3. wallClock # NoCall
    BY <1>0, CallKinds DEF StoreTypes
  <2>4. createdAt'[s] = wallClock /\ stored'[s] = {"meta"} /\ c.id = s /\ c.left = Files
    BY <1>0, <2>2 DEF StoreTypes
  <2>5. SavedSoFar(c, createdAt', doomed', stored')
    BY <2>1, <2>3, <2>4 DEF SavedSoFar
  <2> HIDE DEF c
  <2> QED BY <1>0, <2>1, <2>2, <2>3, <2>4, <2>5, CallKinds, StoreKept DEF StoreTypes
<1>3. ASSUME NEW t \in Makers, SaveFile(t) PROVE StoreInv'
  <2> DEFINE c == makerCall[t]
             f == CHOOSE x \in c.left : TRUE
             d == [c EXCEPT !.left = @ \ {f}]
  <2>1. c \in Saves /\ f \in c.left
    BY <1>3, <1>0, CallKinds DEF SaveFile, StoreTypes
  <2>2. /\ stored' = [stored EXCEPT ![c.id] = @ \cup {f}] /\ UNCHANGED <<createdAt, wallClock, promised, doomed>>
        /\ makerCall' = [makerCall EXCEPT ![t].left = @ \ {f}]
    BY <1>3 DEF SaveFile
  <2>3. SavedSoFar(c, createdAt, doomed, stored)
    BY DEF StoreInv
  <2> HIDE DEF f
  <2>4. d \in Saves /\ d.id = c.id /\ d.left = c.left \ {f} /\ c.id \in SnapIds /\ f \in Files
    BY <2>1 DEF Saves
  <2>5. makerCall' = [makerCall EXCEPT ![t] = d]
    BY <2>2
  <2>6. stored'[c.id] = stored[c.id] \cup {f} /\ \A s \in SnapIds : stored[s] \subseteq stored'[s]
    BY <1>0, <2>2, <2>4 DEF StoreTypes
  <2>7. SavedSoFar(d, createdAt', doomed', stored')
    BY <2>1, <2>2, <2>3, <2>4, <2>6 DEF SavedSoFar
  <2>8. stored' \in [SnapIds -> SUBSET (Files \cup {"meta", "marker"})]
    BY <1>0, <2>2, <2>4 DEF StoreTypes
  <2> HIDE DEF c, d
  <2> QED BY <1>0, <2>2, <2>4, <2>5, <2>6, <2>7, <2>8, CallKinds, StoreKept DEF StoreTypes
<1>4. ASSUME NEW t \in Makers, SaveDone(t) PROVE StoreInv'
  <2>1. PICK keep \in SUBSET Listed :
          /\ makerCall' = [makerCall EXCEPT ![t] = [op |-> "evict", id |-> makerCall[t].id, left |-> Listed \ keep]]
          /\ doomed' = doomed \cup (Listed \ keep)
    BY <1>4 DEF SaveDone
  <2> DEFINE c == [op |-> "evict", id |-> makerCall[t].id, left |-> Listed \ keep]
  <2>2. makerCall[t] \in Saves /\ makerCall[t].left = {} /\ promised' = promised \cup {makerCall[t].id}
        /\ UNCHANGED <<stored, createdAt, wallClock>>
    BY <1>4, <1>0, CallKinds DEF SaveDone, StoreTypes
  <2>3. makerCall[t].id \in SnapIds /\ Listed \subseteq SnapIds
    BY <2>2 DEF Saves, Listed
  <2>4. c \in Evictions /\ c.left \subseteq doomed'
    BY <2>1, <2>3 DEF Evictions
  <2>5. SavedSoFar(makerCall[t], createdAt, doomed, stored)
    BY DEF StoreInv
  <2>6. createdAt[makerCall[t].id] # NoCall /\ (makerCall[t].id \in doomed \/ Files \cup {"meta"} \subseteq stored[makerCall[t].id])
    BY <2>2, <2>5 DEF SavedSoFar
  <2>7. SavedSoFar(c, createdAt', doomed', stored')
    BY <2>4, CallKinds DEF SavedSoFar
  <2>8. doomed \subseteq doomed' /\ doomed' \subseteq SnapIds /\ promised \subseteq promised' /\ promised' \subseteq SnapIds
    BY <1>0, <2>1, <2>2, <2>3 DEF StoreTypes
  <2>9. \A s \in promised' \ promised : createdAt[s] # NoCall /\ (s \in doomed' \/ Files \cup {"meta"} \subseteq stored'[s])
    BY <2>2, <2>6, <2>8
  <2>10. makerCall' = [makerCall EXCEPT ![t] = c]
    BY <2>1
  <2> HIDE DEF c
  <2> QED BY <1>0, <2>2, <2>4, <2>7, <2>8, <2>9, <2>10, StoreKept DEF StoreTypes
<1>5. ASSUME NEW t \in Makers, NEW s \in SnapIds, DeleteSnapshot(t, s) PROVE StoreInv'
  <2> DEFINE c == [op |-> "evict", id |-> NoCall, left |-> {s}]
  <2>1. c \in Evictions /\ c.left = {s}
    BY DEF Evictions
  <2>2. SavedSoFar(c, createdAt', doomed', stored')
    BY <2>1, CallKinds DEF SavedSoFar
  <2>3. /\ makerCall' = [makerCall EXCEPT ![t] = c] /\ doomed' = doomed \cup {s}
        /\ UNCHANGED <<stored, createdAt, wallClock, promised>>
    BY <1>5 DEF DeleteSnapshot
  <2> HIDE DEF c
  <2> QED BY <1>0, <2>1, <2>2, <2>3, StoreKept DEF StoreTypes
<1>6. ASSUME NEW t \in Makers, NEW s \in SnapIds, NEW objs \in SUBSET (Files \cup {"meta", "marker"}),
             Evicting(t), s \in makerCall[t].left \/ stored[s] \subseteq objs, stored' = [stored EXCEPT ![s] = objs],
             UNCHANGED makerCall \/ makerCall' = [makerCall EXCEPT ![t].left = @ \ {s}],
             UNCHANGED <<createdAt, wallClock, promised, doomed>>
      PROVE  StoreInv'
  <2> DEFINE c == makerCall'[t]
  <2>1. makerCall[t] \in Evictions /\ makerCall[t].left \subseteq doomed
    BY <1>6, <1>0, CallKinds DEF Evicting, StoreTypes, StoreInv
  <2>2. c \in Evictions /\ c.left \subseteq doomed' /\ makerCall' = [makerCall EXCEPT ![t] = c]
    <3>1. CASE UNCHANGED makerCall
      BY <3>1, <2>1, <1>6, <1>0 DEF StoreTypes
    <3>2. CASE makerCall' = [makerCall EXCEPT ![t].left = @ \ {s}]
      <4>1. [makerCall[t] EXCEPT !.left = @ \ {s}] \in Evictions /\ [makerCall[t] EXCEPT !.left = @ \ {s}].left \subseteq doomed
        BY <2>1 DEF Evictions
      <4>2. c = [makerCall[t] EXCEPT !.left = @ \ {s}]
        BY <3>2, <1>0 DEF StoreTypes
      <4> QED BY <3>2, <4>1, <4>2, <1>6
    <3> QED BY <3>1, <3>2, <1>6
  <2>3. SavedSoFar(c, createdAt', doomed', stored')
    BY <2>2, CallKinds DEF SavedSoFar
  <2>4. /\ stored' \in [SnapIds -> SUBSET (Files \cup {"meta", "marker"})]
        /\ \A r \in SnapIds : r \in doomed' \/ stored[r] \subseteq stored'[r]
    BY <1>0, <1>6, <2>1 DEF StoreTypes
  <2> HIDE DEF c
  <2> QED BY <1>0, <1>6, <2>2, <2>3, <2>4, StoreKept DEF StoreTypes
<1>7. ASSUME NEW t \in Makers, NEW s \in SnapIds,
             \/ RemoveDirectory(t, s) \/ PutMarker(t, s) \/ DeleteMarker(t, s)
             \/ \E o \in Files \cup {"meta"} : DeleteObject(t, s, o)
      PROVE  StoreInv'
  <2>1. stored[s] \subseteq Files \cup {"meta", "marker"}
    BY <1>0 DEF StoreTypes
  <2>2. CASE RemoveDirectory(t, s)
    BY <2>2, <1>6 DEF RemoveDirectory
  <2>3. CASE PutMarker(t, s)
    <3>1. stored[s] \cup {"marker"} \in SUBSET (Files \cup {"meta", "marker"})
      BY <2>1
    <3> QED BY <3>1, <2>3, <1>6 DEF PutMarker
  <2>4. CASE DeleteMarker(t, s)
    BY <2>4, <1>6 DEF DeleteMarker
  <2>5. ASSUME NEW o \in Files \cup {"meta"}, DeleteObject(t, s, o) PROVE StoreInv'
    <3>1. stored[s] \ {o} \in SUBSET (Files \cup {"meta", "marker"})
      BY <2>1
    <3> QED BY <3>1, <2>5, <1>6 DEF DeleteObject
  <2> QED BY <1>7, <2>2, <2>3, <2>4, <2>5
<1>8. ASSUME NEW t \in Makers, CallDone(t) \/ CallFails(t) PROVE StoreInv'
  <2>1. makerCall' = [makerCall EXCEPT ![t] = NoCall] /\ UNCHANGED <<stored, createdAt, wallClock, promised, doomed>>
    BY <1>8 DEF CallDone, CallFails
  <2>2. SavedSoFar(NoCall, createdAt', doomed', stored')
    BY CallKinds DEF SavedSoFar
  <2> QED BY <1>0, <2>1, <2>2, CallKinds, StoreKept DEF StoreTypes
<1>9. ASSUME WallTick \/ UNCHANGED storeVars PROVE StoreInv'
  BY <1>0, <1>1, <1>9 DEF WallTick, storeVars, StoreTypes
<1> QED BY <1>2, <1>3, <1>4, <1>5, <1>7, <1>8, <1>9 DEF StoreNext

(* A snapshot whose save returned keeps its metadata and all its files as  *)
(* long as nobody sets out to delete it, for every number of makers,       *)
(* snapshots and files, on both backends, wherever calls fail.             *)
THEOREM PromisedAlwaysStored == StoreSpec => []PromisedIsStored
<1>1. StoreSpec => []StoreInv
  BY StoreStarts, StoreSteps, PTL DEF StoreSpec
<1>2. StoreInv => PromisedIsStored
  BY DEF StoreInv
<1> QED BY <1>1, <1>2, PTL

-----------------------------------------------------------------------------
(* The upload of a snapshot.  What holds of the saved record must hold of  *)
(* the one in memory, which becomes it.                                    *)

PartMaps == UNION {[D -> Seq(1..Blocks)] : D \in SUBSET Nat}
Uploads == [open : BOOLEAN, parts : PartMaps]
Checkpoints == [id : Nat, parts : SUBSET Nat, next : Nat \ {0}, bytes : Nat]
SnapStates == {"idle", "compressing", "uploading", "verifying", "completing", "completed", "failed"}
SnapRecords == [state : SnapStates, orig : SnapStates, retries : Nat, ck : Checkpoints \cup {NoUpload}]

PartsHeld(ck, ups) ==
    /\ ck.id \in 1..Len(ups)
    /\ ups[ck.id].open => ck.parts \subseteq DOMAIN ups[ck.id].parts
RecordHeld(r, ups) == r \in SnapRecords /\ (r.ck \in Checkpoints => PartsHeld(r.ck, ups))

UploadInv ==
    /\ uploads \in Seq(Uploads)
    /\ executor \in [at : {"off", "begin", "complete", "finish"}] \cup [at : {"loop"}, pos : Nat]
    /\ snapSaved = NoUpload \/ RecordHeld(snapSaved, uploads)
    /\ snapLive = NoUpload \/ RecordHeld(snapLive, uploads)
    /\ executor.at # "off" => snapLive # NoUpload
    /\ executor.at \in {"loop", "complete"} => snapLive.ck \in Checkpoints

LEMMA NoneIsNoRecord == NoUpload \notin Checkpoints /\ NoUpload \notin SnapRecords
<1> DEFINE checkpoints == [id : Nat, parts : SUBSET Nat, next : Nat, bytes : Nat]
<1>1. Checkpoints \subseteq checkpoints
  BY DEF Checkpoints
<1>2. /\ NoUpload \notin checkpoints
      /\ NoUpload \notin [state : SnapStates, orig : SnapStates, retries : Nat, ck : checkpoints \cup {NoUpload}]
  BY UploadAssumption DEF SnapStates
<1> HIDE DEF checkpoints
<1> QED BY <1>1, <1>2 DEF SnapRecords

LEMMA UploadStarts == UploadInit => UploadInv
  BY DEF UploadInit, UploadInv, Off

(* A step that saves a record the store fits.                              *)
LEMMA SavesHeld ==
    ASSUME NEW r, SaveSnap(r), RecordHeld(r, uploads'), NoUpload \notin SnapRecords,
           uploads' \in Seq(Uploads),
           executor' \in [at : {"off", "begin", "complete", "finish"}] \cup [at : {"loop"}, pos : Nat],
           executor'.at \in {"loop", "complete"} => r.ck \in Checkpoints
    PROVE  UploadInv'
  BY DEF SaveSnap, UploadInv, RecordHeld

LEMMA FailedHeld ==
    ASSUME NEW r, NEW ups, RecordHeld(r, ups)
    PROVE  RecordHeld(Failed(r), ups)
<1>0. r \in SnapRecords
  BY DEF RecordHeld
<1>1. Failed(r) \in SnapRecords /\ Failed(r).ck = r.ck
  <2>1. CASE r.state = "failed"
    <3>1. Failed(r) = [r EXCEPT !.retries = @ + 1]
      BY <2>1 DEF Failed
    <3> QED BY <3>1, <1>0 DEF SnapRecords
  <2>2. CASE r.state # "failed"
    <3>1. Failed(r) = [state |-> "failed", orig |-> r.state, retries |-> 0, ck |-> r.ck]
      BY <2>2, <1>0 DEF Failed, SnapRecords
    <3>2. "failed" \in SnapStates
      BY DEF SnapStates
    <3> QED BY <3>1, <3>2, <1>0 DEF SnapRecords
  <2> QED BY <2>1, <2>2
<1> QED BY <1>1 DEF RecordHeld

(* The store of uploads grows, gets a part, or closes one: a checkpoint    *)
(* that was held is.                                                       *)
LEMMA HeldLater ==
    ASSUME NEW r, RecordHeld(r, uploads), Len(uploads) <= Len(uploads'), Len(uploads) \in Nat, Len(uploads') \in Nat,
           \A k \in 1..Len(uploads) : uploads'[k].open => uploads[k].open /\ DOMAIN uploads[k].parts \subseteq DOMAIN uploads'[k].parts
    PROVE  RecordHeld(r, uploads')
  BY DEF RecordHeld, PartsHeld

(* A part is put under the next number.                                    *)
LEMMA PartPut ==
    ASSUME UploadInv, executor.at = "loop", NEW n \in 1..ChunkSize, Reads(n),
           uploads' = PutPart(snapLive.ck.id, snapLive.ck.next, SubSeq(FileBlocks, executor.pos + 1, executor.pos + n))
    PROVE  /\ uploads' \in Seq(Uploads) /\ Len(uploads') = Len(uploads)
           /\ \A k \in 1..Len(uploads) : /\ uploads'[k].open = uploads[k].open
                                         /\ DOMAIN uploads[k].parts \subseteq DOMAIN uploads'[k].parts
           /\ snapLive.ck.next \in DOMAIN uploads'[snapLive.ck.id].parts
           /\ RecordHeld(snapLive, uploads) /\ snapLive.ck \in Checkpoints /\ executor.pos \in Nat /\ n \in Nat
<1> DEFINE i == snapLive.ck.id
           m == snapLive.ck.next
           data == SubSeq(FileBlocks, executor.pos + 1, executor.pos + n)
           old == uploads[i].parts
           new == [k \in DOMAIN old \cup {m} |-> IF k = m THEN data ELSE old[k]]
<1>1. RecordHeld(snapLive, uploads) /\ snapLive.ck \in Checkpoints /\ executor.pos \in Nat /\ n \in Nat
  BY UploadAssumption DEF UploadInv
<1>2. i \in 1..Len(uploads) /\ m \in Nat /\ uploads \in Seq(Uploads)
  BY <1>1 DEF RecordHeld, PartsHeld, UploadInv, Checkpoints
<1>3. data \in Seq(1..Blocks)
  <2>1. executor.pos + 1 \in Nat /\ executor.pos + n \in Nat /\ executor.pos + n <= Blocks /\ Blocks \in Nat
    BY <1>1, UploadAssumption DEF Reads
  <2>2. FileBlocks \in Seq(1..Blocks) /\ Len(FileBlocks) = Blocks
    BY <2>1 DEF FileBlocks
  <2>3. executor.pos + 1 >= 1
    BY <1>1
  <2> QED BY <2>1, <2>2, <2>3, SubSeqProperties
<1> HIDE DEF i, m
<1>4. uploads[i] \in Uploads /\ old \in PartMaps
  <2>1. uploads[i] \in Uploads
    BY <1>2
  <2> QED BY <2>1 DEF Uploads
<1> HIDE DEF data, old
<1>5. PICK D \in SUBSET Nat : old \in [D -> Seq(1..Blocks)]
  BY <1>4 DEF PartMaps
<1>6. new \in [D \cup {m} -> Seq(1..Blocks)] /\ D \cup {m} \in SUBSET Nat /\ DOMAIN old = D
  BY <1>2, <1>3, <1>5
<1>7. new \in PartMaps /\ DOMAIN new = DOMAIN old \cup {m}
  BY <1>6, Zenon DEF PartMaps
<1>8. uploads' = [uploads EXCEPT ![i] = [uploads[i] EXCEPT !.parts = new]]
  BY DEF PutPart, i, m, data, old
<1> HIDE DEF new
<1>9. [uploads[i] EXCEPT !.parts = new] \in Uploads
      /\ [uploads[i] EXCEPT !.parts = new].open = uploads[i].open
      /\ [uploads[i] EXCEPT !.parts = new].parts = new
  BY <1>4, <1>7 DEF Uploads
<1>10. /\ uploads' \in Seq(Uploads) /\ Len(uploads') = Len(uploads)
       /\ uploads'[i] = [uploads[i] EXCEPT !.parts = new]
       /\ \A k \in 1..Len(uploads) : k # i => uploads'[k] = uploads[k]
  BY <1>2, <1>8, <1>9
<1>11. uploads'[i].open = uploads[i].open /\ uploads'[i].parts = new
  BY <1>9, <1>10
<1> QED BY <1>1, <1>2, <1>7, <1>10, <1>11 DEF i, m, old

(* One more upload, empty and open.                                        *)
LEMMA UploadAdded ==
    ASSUME UploadInv, uploads' = Append(uploads, [open |-> TRUE, parts |-> <<>>])
    PROVE  /\ uploads' \in Seq(Uploads) /\ Len(uploads') = Len(uploads) + 1
           /\ \A k \in 1..Len(uploads) : uploads'[k] = uploads[k]
<1>1. <<>> \in PartMaps
  <2>1. <<>> \in [{} -> Seq(1..Blocks)] /\ {} \in SUBSET Nat
    OBVIOUS
  <2> QED BY <2>1, Zenon DEF PartMaps
<1>2. [open |-> TRUE, parts |-> <<>>] \in Uploads
  BY <1>1 DEF Uploads
<1> QED BY <1>2 DEF UploadInv

(* One upload is closed, with its parts or without.                        *)
LEMMA UploadClosed ==
    ASSUME UploadInv, NEW i \in 1..Len(uploads), NEW u \in Uploads, ~u.open,
           uploads' = [uploads EXCEPT ![i] = u]
    PROVE  /\ uploads' \in Seq(Uploads) /\ Len(uploads') = Len(uploads)
           /\ \A k \in 1..Len(uploads) : uploads'[k].open => uploads[k].open /\ DOMAIN uploads[k].parts \subseteq DOMAIN uploads'[k].parts
<1>1. uploads \in Seq(Uploads)
  BY DEF UploadInv
<1> QED BY <1>1

LEMMA UploadSteps == UploadInv /\ [UploadNext]_uploadVars => UploadInv'
<1> SUFFICES ASSUME UploadInv, [UploadNext]_uploadVars PROVE UploadInv'
  OBVIOUS
<1>0. /\ uploads \in Seq(Uploads) /\ Len(uploads) \in Nat
      /\ executor \in [at : {"off", "begin", "complete", "finish"}] \cup [at : {"loop"}, pos : Nat]
      /\ snapLive # NoUpload \/ executor.at # "off" => RecordHeld(snapLive, uploads)
  BY DEF UploadInv
<1>b. NoUpload \notin Checkpoints /\ NoUpload \notin SnapRecords
  BY NoneIsNoRecord
<1>a. ASSUME NEW r, RecordHeld(r, uploads), SaveSnap(r), UNCHANGED uploads, executor' \in [at : {"off", "begin", "finish"}]
      PROVE  UploadInv'
  BY <1>0, <1>a, <1>b, SavesHeld
<1>c. snapLive # NoUpload => RecordHeld(snapLive, uploads) /\ RecordHeld(Failed(snapLive), uploads)
  BY <1>0, FailedHeld
<1>1. CASE StartSnapshot
  <2>1. RecordHeld(NewRecord, uploads)
    BY <1>b DEF RecordHeld, NewRecord, SnapRecords, SnapStates
  <2>2. SaveSnap(NewRecord) /\ UNCHANGED <<uploads, executor>>
    BY <1>1 DEF StartSnapshot
  <2>3. executor.at = "off"
    BY <1>1 DEF StartSnapshot, UploadInv
  <2> QED BY <1>0, <1>b, <2>1, <2>2, <2>3, SavesHeld
<1>2. CASE Compress
  <2> DEFINE r == [snapLive EXCEPT !.state = "compressing"]
  <2>1. RecordHeld(snapLive, uploads) /\ SaveSnap(r) /\ UNCHANGED <<uploads, executor>>
    BY <1>2, <1>c DEF Compress
  <2>2. r \in SnapRecords /\ r.ck = snapLive.ck
    BY <2>1 DEF RecordHeld, SnapRecords, SnapStates
  <2>3. RecordHeld(r, uploads)
    BY <2>1, <2>2 DEF RecordHeld
  <2>4. executor.at \in {"loop", "complete"} => r.ck \in Checkpoints
    BY <2>2 DEF UploadInv
  <2> HIDE DEF r
  <2> QED BY <1>0, <1>b, <2>1, <2>3, <2>4, SavesHeld
<1>3. CASE Execute
  <2>1. executor' = [at |-> "begin"] /\ UNCHANGED <<snapLive, snapSaved, uploads>> /\ snapLive # NoUpload
    BY <1>3 DEF Execute
  <2> QED BY <2>1 DEF UploadInv
<1>4. CASE Resume
  <2> DEFINE r == IF snapLive.state = "failed" THEN [snapLive EXCEPT !.state = snapLive.orig] ELSE snapLive
  <2>1. RecordHeld(snapLive, uploads) /\ SaveSnap(r) /\ UNCHANGED uploads /\ executor' \in [at : {"off", "begin", "finish"}]
    BY <1>4, <1>c DEF Resume, Off
  <2>2. r \in SnapRecords /\ r.ck = snapLive.ck
    BY <2>1 DEF RecordHeld, SnapRecords
  <2>3. RecordHeld(r, uploads)
    BY <2>1, <2>2 DEF RecordHeld
  <2> HIDE DEF r
  <2> QED BY <2>1, <2>3, <1>a
<1>5. CASE ExecuteFails
  <2>1. SaveSnap(Failed(snapLive)) /\ executor' \in [at : {"off", "begin", "finish"}] /\ UNCHANGED uploads
    BY <1>5 DEF ExecuteFails, Off
  <2>2. snapLive # NoUpload
    BY <1>5 DEF ExecuteFails, UploadInv
  <2> QED BY <2>1, <2>2, <1>a, <1>c
<1>6. CASE Continue
  <2> DEFINE r == [snapLive EXCEPT !.state = "uploading"]
  <2>1. RecordHeld(snapLive, uploads) /\ SaveSnap(r) /\ UNCHANGED uploads
        /\ executor' = [at |-> "loop", pos |-> Offset(snapLive.ck.next)] /\ snapLive.ck # NoUpload
    BY <1>6, <1>c DEF Continue, UploadInv
  <2>2. r \in SnapRecords /\ r.ck = snapLive.ck /\ snapLive.ck \in Checkpoints
    BY <2>1 DEF RecordHeld, SnapRecords, SnapStates
  <2>3. RecordHeld(r, uploads)
    BY <2>1, <2>2 DEF RecordHeld
  <2>4. Offset(snapLive.ck.next) \in Nat
    <3>1. snapLive.ck.next \in Nat \ {0}
      BY <2>2 DEF Checkpoints
    <3>2. ChunkSize \in Nat
      BY UploadAssumption
    <3>3. snapLive.ck.next - 1 \in Nat
      BY <3>1
    <3>4. \A a, b \in Nat : a * b \in Nat
      OBVIOUS
    <3> QED BY <3>2, <3>3, <3>4 DEF Offset
  <2> HIDE DEF r
  <2> QED BY <1>0, <1>b, <2>1, <2>2, <2>3, <2>4, SavesHeld
<1>7. CASE Initiate \/ InitiateLost
  <2>1. uploads' = Append(uploads, [open |-> TRUE, parts |-> <<>>]) /\ snapLive # NoUpload /\ executor.at = "begin"
    BY <1>7 DEF Initiate, InitiateLost, UploadInv
  <2>2. /\ uploads' \in Seq(Uploads) /\ Len(uploads') = Len(uploads) + 1
        /\ \A k \in 1..Len(uploads) : uploads'[k] = uploads[k]
    BY <2>1, UploadAdded
  <2>3. RecordHeld(snapLive, uploads')
    BY <1>0, <1>c, <2>1, <2>2, HeldLater
  <2>4. CASE Initiate
    <3> DEFINE ck == Checkpoint(Len(uploads) + 1, {}, 1, 0)
               r == [snapLive EXCEPT !.state = "uploading", !.ck = ck]
    <3>1. SaveSnap(r) /\ executor' = [at |-> "loop", pos |-> 0]
      BY <2>4 DEF Initiate
    <3>2. ck \in Checkpoints /\ ck.id = Len(uploads) + 1 /\ ck.parts = {}
      BY <1>0 DEF Checkpoints, Checkpoint
    <3> HIDE DEF ck
    <3>3. r \in SnapRecords /\ r.ck = ck
      BY <2>3, <3>2 DEF RecordHeld, SnapRecords, SnapStates
    <3>4. RecordHeld(r, uploads')
      BY <1>0, <2>2, <3>2, <3>3 DEF RecordHeld, PartsHeld
    <3> HIDE DEF r
    <3> QED BY <1>b, <2>2, <3>1, <3>2, <3>3, <3>4, SavesHeld
  <2>5. CASE InitiateLost
    <3>1. SaveSnap(Failed(snapLive)) /\ executor' = [at |-> "off"]
      BY <2>5 DEF InitiateLost, Off
    <3> QED BY <1>b, <2>2, <2>3, <3>1, FailedHeld, SavesHeld
  <2> QED BY <1>7, <2>4, <2>5
<1>8. ASSUME NEW n \in 1..ChunkSize, UploadPart(n) \/ UploadPartLost(n) PROVE UploadInv'
  <2> DEFINE i == snapLive.ck.id
             m == snapLive.ck.next
  <2>1. executor.at = "loop" /\ Reads(n)
        /\ uploads' = PutPart(snapLive.ck.id, snapLive.ck.next, SubSeq(FileBlocks, executor.pos + 1, executor.pos + n))
    BY <1>8 DEF UploadPart, UploadPartLost
  <2>2. /\ uploads' \in Seq(Uploads) /\ Len(uploads') = Len(uploads)
        /\ \A k \in 1..Len(uploads) : /\ uploads'[k].open = uploads[k].open
                                      /\ DOMAIN uploads[k].parts \subseteq DOMAIN uploads'[k].parts
        /\ m \in DOMAIN uploads'[i].parts
        /\ RecordHeld(snapLive, uploads) /\ snapLive.ck \in Checkpoints /\ executor.pos \in Nat /\ n \in Nat
    BY <2>1, PartPut
  <2>3. RecordHeld(snapLive, uploads')
    BY <1>0, <2>2, HeldLater
  <2>4. CASE UploadPart(n)
    <3> DEFINE ck == Checkpoint(i, snapLive.ck.parts \cup {m}, m + 1, snapLive.ck.bytes + n)
    <3>1. SaveSnap(ProgressOf(n)) /\ executor' = [executor EXCEPT !.pos = @ + n]
      BY <2>4 DEF UploadPart
    <3>2. ck \in Checkpoints /\ ck.id = i /\ ck.parts = snapLive.ck.parts \cup {m}
      BY <2>2 DEF Checkpoints, Checkpoint
    <3>3. ProgressOf(n) = [snapLive EXCEPT !.ck = ck]
      BY DEF ProgressOf
    <3> HIDE DEF ck
    <3>4. ProgressOf(n) \in SnapRecords /\ ProgressOf(n).ck = ck
      BY <2>3, <3>2, <3>3 DEF RecordHeld, SnapRecords
    <3>5. PartsHeld(snapLive.ck, uploads')
      BY <2>2, <2>3 DEF RecordHeld
    <3>6. PartsHeld(ck, uploads')
      BY <2>2, <3>2, <3>5 DEF PartsHeld
    <3>7. RecordHeld(ProgressOf(n), uploads')
      BY <3>4, <3>6 DEF RecordHeld
    <3>8. executor' \in [at : {"loop"}, pos : Nat]
      <4>1. executor \in [at : {"loop"}, pos : Nat]
        BY <1>0, <2>1
      <4> QED BY <4>1, <3>1, <2>2
    <3> QED BY <1>b, <2>2, <3>1, <3>2, <3>4, <3>7, <3>8, SavesHeld
  <2>5. CASE UploadPartLost(n)
    <3>1. SaveSnap(Failed(snapLive)) /\ executor' = [at |-> "off"]
      BY <2>5 DEF UploadPartLost, Off
    <3> QED BY <1>b, <2>2, <2>3, <3>1, FailedHeld, SavesHeld
  <2> QED BY <1>8, <2>4, <2>5
<1>9. CASE EndOfFile
  <2>1. executor.at = "loop" /\ executor' = [at |-> "complete"] /\ UNCHANGED <<snapLive, snapSaved, uploads>>
    BY <1>9 DEF EndOfFile
  <2> QED BY <2>1 DEF UploadInv
<1>10. CASE CompleteUpload \/ CompleteLost
  <2> DEFINE i == snapLive.ck.id
             u == [uploads[i] EXCEPT !.open = FALSE]
  <2>1. executor.at = "complete" /\ uploads' = [uploads EXCEPT ![i].open = FALSE]
    BY <1>10 DEF CompleteUpload, CompleteLost, StoreCompletes
  <2>2. snapLive # NoUpload /\ RecordHeld(snapLive, uploads) /\ snapLive.ck \in Checkpoints
    BY <2>1, <1>c DEF UploadInv
  <2>3. i \in 1..Len(uploads)
    BY <2>2 DEF RecordHeld, PartsHeld
  <2> HIDE DEF i
  <2>4. uploads[i] \in Uploads
    BY <2>3, <1>0
  <2>5. u \in Uploads /\ ~u.open
    BY <2>4 DEF Uploads
  <2>6. uploads' = [uploads EXCEPT ![i] = u]
    BY <2>1 DEF i
  <2> HIDE DEF u
  <2>7. uploads' \in Seq(Uploads) /\ RecordHeld(snapLive, uploads')
    <3>1. /\ uploads' \in Seq(Uploads) /\ Len(uploads') = Len(uploads)
          /\ \A k \in 1..Len(uploads) : uploads'[k].open => uploads[k].open /\ DOMAIN uploads[k].parts \subseteq DOMAIN uploads'[k].parts
      BY <2>3, <2>5, <2>6, UploadClosed
    <3> QED BY <1>0, <2>2, <3>1, HeldLater
  <2>8. CASE CompleteUpload
    <3> DEFINE r == [snapLive EXCEPT !.state = "verifying"]
    <3>1. SaveSnap(r) /\ executor' = [at |-> "finish"]
      BY <2>8 DEF CompleteUpload
    <3>2. r \in SnapRecords /\ r.ck = snapLive.ck
      BY <2>7 DEF RecordHeld, SnapRecords, SnapStates
    <3>3. RecordHeld(r, uploads')
      BY <2>7, <3>2 DEF RecordHeld
    <3> HIDE DEF r
    <3> QED BY <1>b, <2>7, <3>1, <3>3, SavesHeld
  <2>9. CASE CompleteLost
    <3>1. SaveSnap(Failed(snapLive)) /\ executor' = [at |-> "off"]
      BY <2>9 DEF CompleteLost, Off
    <3> QED BY <1>b, <2>7, <3>1, FailedHeld, SavesHeld
  <2> QED BY <1>10, <2>8, <2>9
<1>11. CASE Finish
  <2> DEFINE r == IF snapLive.state = "verifying" THEN [snapLive EXCEPT !.state = "completing"]
                  ELSE [snapLive EXCEPT !.state = "completed", !.ck = NoUpload]
  <2>1. SaveSnap(r) /\ UNCHANGED uploads /\ executor' \in [at : {"off", "begin", "finish"}] /\ snapLive # NoUpload
    BY <1>11, <1>0 DEF Finish, Off, UploadInv
  <2>2. RecordHeld(snapLive, uploads)
    BY <2>1, <1>c
  <2>3. r \in SnapRecords /\ r.ck \in {snapLive.ck, NoUpload}
    BY <2>2 DEF RecordHeld, SnapRecords, SnapStates
  <2>4. RecordHeld(r, uploads)
    BY <2>2, <2>3, <1>b DEF RecordHeld
  <2> HIDE DEF r
  <2> QED BY <2>1, <2>4, <1>a
<1>12. ASSUME NEW id \in 1..MaxUploads, AbortOrphan(id) PROVE UploadInv'
  <2>1. id \in 1..Len(uploads) /\ uploads' = [uploads EXCEPT ![id] = [open |-> FALSE, parts |-> <<>>]]
        /\ UNCHANGED <<snapLive, snapSaved, executor>>
    BY <1>12, <1>0 DEF AbortOrphan
  <2>2. <<>> \in PartMaps
    <3>1. <<>> \in [{} -> Seq(1..Blocks)] /\ {} \in SUBSET Nat
      OBVIOUS
    <3> QED BY <3>1, Zenon DEF PartMaps
  <2> DEFINE u == [open |-> FALSE, parts |-> <<>>]
  <2>3. u \in Uploads /\ ~u.open /\ uploads' = [uploads EXCEPT ![id] = u]
    BY <2>1, <2>2 DEF Uploads
  <2> HIDE DEF u
  <2>4. /\ uploads' \in Seq(Uploads) /\ Len(uploads') = Len(uploads)
        /\ \A k \in 1..Len(uploads) : uploads'[k].open => uploads[k].open /\ DOMAIN uploads[k].parts \subseteq DOMAIN uploads'[k].parts
    BY <2>1, <2>3, UploadClosed
  <2>5. /\ snapSaved = NoUpload \/ RecordHeld(snapSaved, uploads')
        /\ snapLive = NoUpload \/ RecordHeld(snapLive, uploads')
    BY <1>0, <2>4, HeldLater DEF UploadInv
  <2> QED BY <2>1, <2>4, <2>5 DEF UploadInv
<1>13. CASE SnapCrash \/ RecoverSnapshot \/ UNCHANGED uploadVars
  BY <1>13 DEF SnapCrash, RecoverSnapshot, uploadVars, UploadInv, Off
<1> QED
  BY <1>1, <1>2, <1>3, <1>4, <1>5, <1>6, <1>7, <1>8, <1>9, <1>10, <1>11, <1>12, <1>13 DEF UploadNext

(* A saved checkpoint never lists a part that the store, while it keeps    *)
(* the upload open, does not hold: whatever answers were lost, wherever    *)
(* the process died, and though orphans are swept by age; for every file,  *)
(* chunk size and number of uploads and retries.                           *)
THEOREM CheckpointsAlwaysHeld == UploadSpec => []CheckpointPartsHeld
<1>1. UploadSpec => []UploadInv
  BY UploadStarts, UploadSteps, PTL DEF UploadSpec
<1>2. ASSUME UploadInv, snapSaved # NoUpload, snapSaved.ck # NoUpload
      PROVE  PartsHeld(snapSaved.ck, uploads)
  BY <1>2 DEF UploadInv, RecordHeld, SnapRecords
<1>3. UploadInv => CheckpointPartsHeld
  BY <1>2 DEF CheckpointPartsHeld, PartsHeld
<1> QED BY <1>1, <1>3, PTL
=============================================================================
