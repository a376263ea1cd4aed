------------------------- MODULE VectorShardProofs -------------------------
(***************************************************************************)
(* The vector shard for every instance: its index, text index, graph and   *)
(* rows agree between calls, and its rows implement VectorMap.             *)
(*                                                                         *)
(* What the properties say holds between the mutations of an id; the       *)
(* inductive invariant says what holds inside them.  The index is a pair   *)
(* of inverse tables whose internal ids are never used twice (IndexInv),   *)
(* so the steps of one id neither move nor hide what another one has; an   *)
(* upsert in progress owns the slot it wrote (OpInv); a row names a slot   *)
(* of its own id or an empty one (RowInv); and a chunk of the graph        *)
(* belongs to a stored vector at every moment (GraphInv), which is why     *)
(* comparing counts at start-up is enough.                                 *)
(*                                                                         *)
(* The start from a snapshot of the HNSW index is proved at the end.       *)
(***************************************************************************)
EXTENDS VectorShard, HnswIndex, FiniteSetTheorems, TLAPS

Busy(id, steps) == op[id] # NoValue /\ op[id].step \in steps
Quiet(id) == op[id] = NoValue \/ op[id].step = "unlinked"
Owns(id, n) == n \in Internals /\ n < nextId /\ (slot[n] = NoValue \/ slot[n].id = id)
Slotted(id, v) == fwd[id] # NoValue /\ fwd[id] \notin tomb /\ slot[fwd[id]] = [id |-> id, val |-> v]

IndexInv ==
    /\ \A id \in Ids : fwd[id] # NoValue =>
          fwd[id] < nextId /\ slot[fwd[id]] # NoValue /\ slot[fwd[id]].id = id
    /\ \A n \in Internals : slot[n] # NoValue => fwd[slot[n].id] = n
    /\ \A n \in tomb : n < nextId

SnapInv == snap # NoValue =>
    /\ snap.nextId \in 0..MaxInternal
    /\ snap.vectors \subseteq [id : Ids, internal : Internals, val : Vals]
    /\ \A s \in snap.vectors : s.internal < snap.nextId
    /\ \A s, t \in snap.vectors : s.id = t.id \/ s.internal = t.internal => s = t

ReaderInv == reader # NoValue => reader.id \in Ids /\ Owns(reader.id, reader.internal)

PhaseInv ==
    /\ phase # "up" => /\ \A id \in Ids : op[id] = NoValue
                       /\ reader = NoValue /\ hurt = {} /\ tomb = {}
    /\ phase = "down" => /\ \A id \in Ids : fwd[id] = NoValue
                         /\ \A n \in Internals : slot[n] = NoValue
                         /\ nextId = 0
    /\ phase = "reload" => \A id \in Ids : fwd[id] # NoValue =>
                              Active(id) /\ row[id].internal = fwd[id] /\ Slotted(id, row[id].val)

OpInv(id) ==
    /\ Busy(id, {"indexed", "persisted", "text"}) =>
          op[id].val \in Vals /\ op[id].new = fwd[id] /\ Slotted(id, op[id].val)
    /\ Busy(id, {"indexed"}) => ~OwnedByOther(id, op[id].ws) /\ op[id].old = Replaced(id)
    /\ Busy(id, {"persisted", "text"}) =>
          row[id] = [val |-> op[id].val, ws |-> op[id].ws, internal |-> op[id].new, live |-> TRUE]
    /\ Busy(id, {"persisted"}) /\ op[id].old # NoValue => Owns(id, op[id].old)
    /\ Busy(id, {"marked"}) =>
          /\ ~Active(id) /\ Owns(id, op[id].old)
          /\ fwd[id] # NoValue /\ fwd[id] \notin tomb => op[id].old = fwd[id]

RowInv(id) == phase = "up" /\ Active(id) => Owns(id, row[id].internal)

SearchInv(id) == phase = "up" /\ Quiet(id) =>
    /\ Active(id) /\ <<id, "index">> \notin hurt =>
          fwd[id] = row[id].internal /\ Slotted(id, row[id].val)
    /\ fwd[id] # NoValue /\ fwd[id] \notin tomb =>
          Active(id) /\ row[id].internal = fwd[id] /\ slot[fwd[id]].val = row[id].val

TextInv(id) ==
    /\ ~Active(id) => textRow[id] = NoValue
    /\ phase = "up" =>
          /\ Quiet(id) \/ Busy(id, {"indexed", "text"}) => docs[id] = textRow[id]
          /\ Busy(id, {"persisted"}) => textRow[id] = IF op[id].text = "keep" THEN docs[id] ELSE op[id].text

GraphInv(id) ==
    /\ graph[id] # NoValue => Active(id)
    /\ Busy(id, {"unlinked"}) => graph[id] = NoValue
    /\ phase = "up" /\ (op[id] = NoValue \/ Busy(id, {"indexed"})) /\ <<id, "graph">> \notin hurt =>
          (graph[id] # NoValue <=> Active(id))

IdInv(id) == OpInv(id) /\ RowInv(id) /\ SearchInv(id) /\ TextInv(id) /\ GraphInv(id)

ShardInv ==
    /\ ShardTypeOK /\ IndexInv /\ SnapInv /\ ReaderInv /\ PhaseInv
    /\ \A id \in Ids : IdInv(id)

-----------------------------------------------------------------------------
(* The index.  An insert and a deletion of one id leave the slots of the   *)
(* others alone.                                                           *)

(* What a step of another id leaves to id.                                 *)
Kept(id) ==
    /\ fwd'[id] = fwd[id]
    /\ fwd[id] # NoValue => slot'[fwd[id]] = slot[fwd[id]] /\ (fwd[id] \in tomb' <=> fwd[id] \in tomb)
MineKept == \A id \in Ids : \A n \in Internals : Owns(id, n) => Owns(id, n)'
Beside(id) ==
    /\ row'[id] = row[id] /\ textRow'[id] = textRow[id] /\ graph'[id] = graph[id]
    /\ docs'[id] = docs[id] /\ op'[id] = op[id] /\ phase' = phase
    /\ <<id, "index">> \in hurt' <=> <<id, "index">> \in hurt
    /\ <<id, "graph">> \in hurt' <=> <<id, "graph">> \in hurt

IndexType ==
    /\ fwd \in [Ids -> Internals \cup {NoValue}] /\ slot \in [Internals -> Slots \cup {NoValue}]
    /\ tomb \subseteq Internals /\ nextId \in 0..MaxInternal

LEMMA InsertIndex ==
    ASSUME IndexType, IndexInv, NEW id \in Ids, NEW v \in Vals, IndexInsert(id, v)
    PROVE  /\ IndexType' /\ IndexInv' /\ MineKept
           /\ fwd'[id] = TargetOf(id) /\ TargetOf(id) \in Internals
           /\ Slotted(id, v)' /\ Owns(id, fwd[id])'
           /\ \A j \in Ids \ {id} : Kept(j)
<1> DEFINE n == TargetOf(id)
<1>0. n \in Internals /\ n < MaxInternal
  BY ShardAssumption DEF IndexInsert, TargetOf, IndexType, Internals
<1>1. /\ fwd' = [fwd EXCEPT ![id] = n]
      /\ slot' = [slot EXCEPT ![n] = [id |-> id, val |-> v]]
      /\ tomb' = tomb \ {n}
      /\ nextId' = IF n = nextId THEN nextId + 1 ELSE nextId
  BY DEF IndexInsert
<1>2. \/ n = nextId /\ fwd[id] = NoValue
      \/ n = fwd[id] /\ n < nextId /\ slot[n] # NoValue /\ slot[n].id = id
  BY DEF TargetOf, IndexInv
<1>3. [id |-> id, val |-> v] \in Slots /\ [id |-> id, val |-> v] # NoValue /\ n # NoValue
  BY <1>0, NoValueAssumption DEF Slots
<1> HIDE DEF n
<1>4. IndexType'
  BY <1>0, <1>1, <1>3, ShardAssumption DEF IndexType, Internals
<1>5. /\ \A j \in Ids : fwd'[j] = IF j = id THEN n ELSE fwd[j]
      /\ \A m \in Internals : slot'[m] = IF m = n THEN [id |-> id, val |-> v] ELSE slot[m]
      /\ nextId \in Nat /\ nextId' \in Nat /\ nextId' >= nextId /\ n < nextId'
  BY <1>0, <1>1, <1>2, ShardAssumption DEF IndexType, Internals
<1>6. \A j \in Ids \ {id} : fwd[j] # n
  <2> SUFFICES ASSUME NEW j \in Ids \ {id}, fwd[j] = n PROVE FALSE
    OBVIOUS
  <2>1. fwd[j] < nextId /\ slot[fwd[j]].id = j
    BY <1>3 DEF IndexInv
  <2> QED
    BY <1>0, <1>2, <1>5, <2>1 DEF Internals
<1>7. \A j \in Ids \ {id} : fwd[j] # NoValue => fwd[j] \in Internals
  BY DEF IndexType
<1>8. IndexInv'
  <2>1. ASSUME NEW j \in Ids, fwd'[j] # NoValue
        PROVE  fwd'[j] < nextId' /\ slot'[fwd'[j]] # NoValue /\ slot'[fwd'[j]].id = j
    <3>1. CASE j = id
      BY <1>0, <1>3, <1>5, <3>1
    <3>2. CASE j # id
      <4>1. fwd'[j] = fwd[j] /\ fwd[j] \in Internals /\ fwd[j] # n
        BY <1>5, <1>6, <1>7, <2>1, <3>2
      <4>2. fwd[j] < nextId /\ slot[fwd[j]] # NoValue /\ slot[fwd[j]].id = j
        BY <2>1, <4>1 DEF IndexInv
      <4>3. fwd[j] < nextId'
        BY <1>5, <4>1, <4>2 DEF Internals
      <4> QED
        BY <1>5, <4>1, <4>2, <4>3
    <3> QED
      BY <3>1, <3>2
  <2>2. ASSUME NEW m \in Internals, slot'[m] # NoValue PROVE fwd'[slot'[m].id] = m
    <3>1. CASE m = n
      BY <1>5, <3>1
    <3>2. CASE m # n
      <4>1. slot'[m] = slot[m] /\ slot[m] \in Slots
        BY <1>5, <2>2, <3>2 DEF IndexType
      <4>2. slot[m].id \in Ids /\ fwd[slot[m].id] = m
        BY <2>2, <4>1 DEF IndexInv, Slots
      <4>3. slot[m].id # id
        BY <1>2, <3>2, <4>2, NoValueAssumption
      <4> QED
        BY <1>5, <4>1, <4>2, <4>3
    <3> QED
      BY <3>1, <3>2
  <2>3. ASSUME NEW m \in tomb' PROVE m < nextId'
    <3>1. m \in tomb /\ m \in Internals
      BY <1>1, <2>3 DEF IndexType
    <3>2. m < nextId
      BY <3>1 DEF IndexInv
    <3> QED
      BY <1>5, <3>1, <3>2 DEF Internals
  <2> QED
    BY <2>1, <2>2, <2>3 DEF IndexInv
<1>9. MineKept
  <2> SUFFICES ASSUME NEW j \in Ids, NEW m \in Internals, Owns(j, m) PROVE Owns(j, m)'
    BY DEF MineKept
  <2>1. m < nextId'
    BY <1>5 DEF Owns, Internals
  <2>2. slot'[m] = NoValue \/ slot'[m].id = j
    BY <1>0, <1>2, <1>3, <1>5 DEF Owns
  <2> QED
    BY <2>1, <2>2 DEF Owns
<1>10. Slotted(id, v)' /\ Owns(id, fwd[id])'
  BY <1>0, <1>1, <1>3, <1>5 DEF Slotted, Owns
<1>11. \A j \in Ids \ {id} : Kept(j)
  BY <1>1, <1>5, <1>6, <1>7 DEF Kept
<1> QED
  BY <1>0, <1>4, <1>5, <1>8, <1>9, <1>10, <1>11 DEF n

LEMMA TombIndex ==
    ASSUME IndexType, IndexInv, NEW id \in Ids, NEW n, Owns(id, n), IndexDelete(n)
    PROVE  /\ IndexType' /\ IndexInv' /\ MineKept
           /\ \A j \in Ids \ {id} : Kept(j)
<1>1. tomb' = tomb \cup {n} /\ fwd' = fwd /\ slot' = slot /\ nextId' = nextId /\ n \in Internals
  BY DEF IndexDelete, Owns
<1>2. IndexType'
  BY <1>1 DEF IndexType
<1>3. IndexInv'
  BY <1>1 DEF IndexInv, Owns
<1>4. MineKept
  BY <1>1 DEF MineKept, Owns
<1>5. \A j \in Ids \ {id} : fwd[j] # NoValue => fwd[j] # n
  BY DEF IndexInv, Owns
<1>6. \A j \in Ids \ {id} : Kept(j)
  BY <1>1, <1>5 DEF Kept
<1> QED
  BY <1>2, <1>3, <1>4, <1>6

LEMMA SameIndex ==
    ASSUME IndexType, IndexInv, UNCHANGED indexVars
    PROVE  /\ IndexType' /\ IndexInv' /\ MineKept
           /\ \A j \in Ids : Kept(j)
BY DEF IndexType, IndexInv, MineKept, Owns, Kept, indexVars

(* An id that a step passes by keeps its part of the invariant.            *)
LEMMA BesideKeeps ==
    ASSUME ShardTypeOK, IndexInv, NEW id \in Ids, IdInv(id), Beside(id), Kept(id), MineKept
    PROVE  IdInv(id)'
<1>0. /\ op[id] \in Ops \cup {NoValue} /\ row[id] \in Rows \cup {NoValue}
      /\ fwd[id] \in Internals \cup {NoValue}
  BY DEF ShardTypeOK
<1>1. /\ \A steps : Busy(id, steps)' <=> Busy(id, steps)
      /\ Quiet(id)' <=> Quiet(id)
      /\ Active(id)' <=> Active(id)
      /\ \A ws : OwnedByOther(id, ws)' <=> OwnedByOther(id, ws)
      /\ Replaced(id)' = Replaced(id)
      /\ \A v : Slotted(id, v)' <=> Slotted(id, v)
  BY DEF Beside, Kept, Busy, Quiet, Active, OwnedByOther, Replaced, Slotted
<1>2. OpInv(id)'
  <2>0. \A n : Owns(id, n) => Owns(id, n)'
    BY DEF MineKept, Owns
  <2>1. ASSUME Busy(id, {"persisted"}), op[id].old # NoValue PROVE Owns(id, op[id].old)'
    BY <2>0, <2>1 DEF IdInv, OpInv, Beside
  <2>2. ASSUME Busy(id, {"marked"}) PROVE Owns(id, op[id].old)'
    BY <2>0, <2>2 DEF IdInv, OpInv, Beside
  <2> QED
    BY <1>1, <2>1, <2>2 DEF IdInv, OpInv, Beside, Kept
<1>3. RowInv(id)'
  BY <1>0, <1>1 DEF IdInv, RowInv, Beside, MineKept, Owns
<1>4. SearchInv(id)'
  BY <1>1 DEF IdInv, SearchInv, Beside, Kept
<1>5. TextInv(id)'
  BY <1>1 DEF IdInv, TextInv, Beside
<1>6. GraphInv(id)'
  BY <1>1 DEF IdInv, GraphInv, Beside
<1> QED
  BY <1>2, <1>3, <1>4, <1>5, <1>6 DEF IdInv

-----------------------------------------------------------------------------
(* Mutations, each under the lock of its id.                               *)

RowType ==
    /\ row \in [Ids -> Rows \cup {NoValue}] /\ textRow \in [Ids -> Vals \cup {NoValue}]
    /\ graph \in [Ids -> Vals \cup {NoValue}] /\ phase \in {"up", "down", "reload"}
    /\ docs \in [Ids -> Vals \cup {NoValue}] /\ op \in [Ids -> Ops \cup {NoValue}]
    /\ hurt \subseteq Ids \X {"index", "graph"}

LEMMA TypeParts == ShardTypeOK <=> RowType /\ IndexType
BY DEF ShardTypeOK, RowType, IndexType

LEMMA Locked == ASSUME ShardInv, NEW id \in Ids, op[id] # NoValue PROVE phase = "up"
BY DEF ShardInv, PhaseInv

(* A step of one id that keeps its own part keeps the whole.               *)
LEMMA StepKeeps ==
    ASSUME ShardInv, phase = "up", NEW id \in Ids, RowType', IndexType', IndexInv', MineKept,
           \A j \in Ids \ {id} : Kept(j) /\ Beside(j), IdInv(id)',
           phase' = phase, snap' = snap, ReaderInv'
    PROVE  ShardInv'
<1>1. ShardTypeOK'
  BY DEF ShardTypeOK, RowType, IndexType
<1>2. SnapInv'
  BY DEF ShardInv, SnapInv
<1>3. PhaseInv'
  BY DEF PhaseInv
<1>4. \A j \in Ids : IdInv(j)'
  BY BesideKeeps DEF ShardInv
<1> QED
  BY <1>1, <1>2, <1>3, <1>4 DEF ShardInv

LEMMA SameReader == ASSUME ShardInv, MineKept, reader' = reader PROVE ReaderInv'
BY DEF ShardInv, ReaderInv, MineKept, Owns

LEMMA IndexStepKeeps ==
    ASSUME ShardInv, NEW id \in Ids, NEW kind \in {"insert", "update"}, NEW v \in Vals,
           NEW ws \in Workspaces, NEW text \in Vals \cup {NoValue, "keep"},
           ~OwnedByOther(id, ws), IndexStep(kind, id, v, ws, text)
    PROVE  ShardInv'
<1> DEFINE new == [kind |-> kind, step |-> "indexed", val |-> v, ws |-> ws,
                   text |-> text, new |-> TargetOf(id), old |-> Replaced(id)]
<1>0. RowType /\ IndexType /\ IndexInv /\ IdInv(id)
  BY TypeParts DEF ShardInv
<1>1. /\ phase = "up" /\ op[id] = NoValue /\ op' = [op EXCEPT ![id] = new]
      /\ row' = row /\ textRow' = textRow /\ graph' = graph /\ snap' = snap
      /\ phase' = phase /\ docs' = docs /\ reader' = reader /\ hurt' = hurt
  BY DEF IndexStep, shardRows
<1>2. /\ IndexType' /\ IndexInv' /\ MineKept /\ fwd'[id] = TargetOf(id) /\ TargetOf(id) \in Internals
      /\ Slotted(id, v)' /\ \A j \in Ids \ {id} : Kept(j)
  BY <1>0, InsertIndex DEF IndexStep
<1>3. Replaced(id) \in Internals \cup {NoValue} /\ Replaced(id)' = Replaced(id)
  BY <1>0, <1>1 DEF Replaced, Active, RowType, Rows
<1>4. new \in Ops /\ new # NoValue
  BY <1>2, <1>3, NoValueAssumption DEF Ops
<1>5. /\ new.step = "indexed" /\ new.val = v /\ new.ws = ws /\ new.text = text
      /\ new.new = TargetOf(id) /\ new.old = Replaced(id)
  OBVIOUS
<1> HIDE DEF new
<1>6. RowType' /\ op'[id] = new
  BY <1>0, <1>1, <1>4 DEF RowType
<1>7. \A j \in Ids \ {id} : Beside(j)
  BY <1>0, <1>1 DEF Beside, RowType
<1>8. /\ Busy(id, {"indexed"})' /\ ~Busy(id, {"persisted", "text"})' /\ ~Busy(id, {"persisted"})'
      /\ ~Busy(id, {"marked"})' /\ ~Busy(id, {"unlinked"})' /\ ~Quiet(id)'
  BY <1>4, <1>5, <1>6 DEF Busy, Quiet
<1>9. (Active(id)' <=> Active(id)) /\ (OwnedByOther(id, ws)' <=> OwnedByOther(id, ws))
  BY <1>1 DEF Active, OwnedByOther
<1>10. OpInv(id)'
  BY <1>2, <1>3, <1>5, <1>6, <1>8, <1>9 DEF OpInv
<1>11. RowInv(id)'
  BY <1>0, <1>1, <1>2, <1>9 DEF IdInv, RowInv, MineKept, Owns
<1>12. SearchInv(id)'
  BY <1>8 DEF SearchInv
<1>13. TextInv(id)'
  BY <1>0, <1>1, <1>8, <1>9 DEF IdInv, TextInv, Quiet
<1>14. GraphInv(id)'
  BY <1>0, <1>1, <1>8, <1>9 DEF IdInv, GraphInv
<1>15. IdInv(id)'
  BY <1>10, <1>11, <1>12, <1>13, <1>14 DEF IdInv
<1> QED
  BY <1>1, <1>2, <1>6, <1>7, <1>15, StepKeeps, SameReader

LEMMA PersistUpsertKeeps ==
    ASSUME ShardInv, NEW id \in Ids, PersistUpsert(id) PROVE ShardInv'
<1> DEFINE new == [val |-> op[id].val, ws |-> op[id].ws, internal |-> op[id].new, live |-> TRUE]
<1>0. RowType /\ IndexType /\ IndexInv /\ IdInv(id)
  BY TypeParts DEF ShardInv
<1>1. /\ op[id] # NoValue /\ op[id].step = "indexed" /\ row' = [row EXCEPT ![id] = new]
      /\ textRow' = IF op[id].text = "keep" THEN textRow ELSE [textRow EXCEPT ![id] = op[id].text]
      /\ op' = [op EXCEPT ![id].step = "persisted"] /\ hurt' = hurt \ {<<id, "index">>}
      /\ graph' = graph /\ snap' = snap /\ phase' = phase /\ docs' = docs /\ reader' = reader
      /\ UNCHANGED indexVars
  BY DEF PersistUpsert, UpsertRow
<1>2. phase = "up"
  BY <1>1, Locked
<1>3. op[id] \in Ops /\ Busy(id, {"indexed", "persisted", "text"}) /\ Busy(id, {"indexed"})
  BY <1>0, <1>1 DEF RowType, Busy
<1>4. /\ op[id].val \in Vals /\ op[id].new = fwd[id] /\ Slotted(id, op[id].val)
      /\ op[id].old = Replaced(id) /\ docs[id] = textRow[id]
  BY <1>0, <1>2, <1>3 DEF IdInv, OpInv, TextInv, Busy
<1>5. fwd[id] \in Internals /\ Owns(id, fwd[id])
  BY <1>0, <1>4 DEF Slotted, IndexType, IndexInv, Owns
<1>6. new \in Rows /\ new # NoValue /\ new.live /\ new.internal = fwd[id]
  <2>1. op[id].ws \in Workspaces /\ op[id].new \in Internals /\ op[id].val \in Vals
    BY <1>3, <1>4, <1>5 DEF Ops
  <2>2. new \in Rows
    BY <2>1 DEF Rows
  <2>3. new.live = TRUE /\ new.internal = fwd[id]
    BY <1>4
  <2> QED
    BY <2>2, <2>3, NoValueAssumption
<1>7. /\ op'[id] = [op[id] EXCEPT !.step = "persisted"] /\ op'[id] \in Ops /\ op'[id] # NoValue
      /\ op'[id].step = "persisted" /\ op'[id].val = op[id].val /\ op'[id].ws = op[id].ws
      /\ op'[id].text = op[id].text /\ op'[id].new = op[id].new /\ op'[id].old = op[id].old
  <2>1. op'[id] = [op[id] EXCEPT !.step = "persisted"]
    BY <1>0, <1>1 DEF RowType
  <2>2. op'[id] \in Ops
    BY <1>3, <2>1 DEF Ops
  <2> QED
    BY <1>3, <2>1, <2>2, NoValueAssumption DEF Ops
<1> HIDE DEF new
<1>8. row'[id] = new /\ textRow'[id] = IF op[id].text = "keep" THEN textRow[id] ELSE op[id].text
  BY <1>0, <1>1 DEF RowType
<1>9. RowType'
  <2>1. row' \in [Ids -> Rows \cup {NoValue}]
    BY <1>0, <1>1, <1>6 DEF RowType
  <2>2. textRow' \in [Ids -> Vals \cup {NoValue}]
    <3>1. op[id].text \in Vals \cup {NoValue, "keep"}
      BY <1>3 DEF Ops
    <3> QED
      BY <1>0, <1>1, <3>1 DEF RowType
  <2>3. op' \in [Ids -> Ops \cup {NoValue}]
    BY <1>0, <1>1, <1>3 DEF RowType, Ops
  <2> QED
    BY <1>0, <1>1, <2>1, <2>2, <2>3 DEF RowType
<1>10. \A j \in Ids \ {id} : Beside(j)
  BY <1>0, <1>1 DEF Beside, RowType
<1>11. IndexType' /\ IndexInv' /\ MineKept /\ \A j \in Ids : Kept(j)
  BY <1>0, <1>1, SameIndex
<1>12. /\ Busy(id, {"indexed", "persisted", "text"})' /\ ~Busy(id, {"indexed"})' /\ Busy(id, {"persisted", "text"})'
       /\ ~Busy(id, {"marked"})' /\ ~Busy(id, {"unlinked"})' /\ ~Quiet(id)' /\ ~Busy(id, {"indexed", "text"})'
       /\ Active(id)' /\ op'[id] # NoValue
  BY <1>6, <1>7, <1>8 DEF Busy, Quiet, Active
<1>13. \A v, n : (Slotted(id, v)' <=> Slotted(id, v)) /\ (Owns(id, n)' <=> Owns(id, n))
  BY <1>1 DEF Slotted, Owns, indexVars
<1>14. OpInv(id)'
  <2>1. op[id].old # NoValue => Owns(id, op[id].old)
    BY <1>0, <1>2, <1>4 DEF IdInv, RowInv, Replaced
  <2>2. fwd' = fwd
    BY <1>1 DEF indexVars
  <2>3. row'[id] = [val |-> op'[id].val, ws |-> op'[id].ws, internal |-> op'[id].new, live |-> TRUE]
    BY <1>7, <1>8 DEF new
  <2>4. Slotted(id, op[id].val)'
    BY <1>1, <1>4, <1>7 DEF Slotted, indexVars
  <2>5. op'[id].old # NoValue => Owns(id, op[id].old)'
    BY <1>7, <1>13, <2>1 DEF Owns
  <2> QED
    BY <1>4, <1>7, <1>12, <2>2, <2>3, <2>4, <2>5 DEF OpInv, Slotted
<1>15. RowInv(id)'
  BY <1>1, <1>5, <1>6, <1>8 DEF RowInv, Owns, indexVars
<1>16. SearchInv(id)'
  BY <1>12 DEF SearchInv
<1>17. TextInv(id)'
  BY <1>1, <1>4, <1>7, <1>8, <1>12 DEF TextInv
<1>18. GraphInv(id)'
  BY <1>12 DEF GraphInv
<1>19. IdInv(id)'
  BY <1>14, <1>15, <1>16, <1>17, <1>18 DEF IdInv
<1> QED
  BY <1>1, <1>2, <1>9, <1>10, <1>11, <1>19, StepKeeps, SameReader

(* What a mutation that ends leaves behind is for its caller to say.       *)
LEMMA RollbackUpsertKeeps ==
    ASSUME ShardInv, NEW id \in Ids, RollbackUpsert(id) PROVE ShardInv'
<1>0. RowType /\ IndexType /\ IndexInv /\ IdInv(id)
  BY TypeParts DEF ShardInv
<1>1. /\ op[id] # NoValue /\ op[id].step = "indexed" /\ IndexDelete(op[id].new)
      /\ op' = [op EXCEPT ![id] = NoValue]
      /\ hurt' = IF Active(id) THEN hurt \cup {<<id, "index">>} ELSE hurt
      /\ row' = row /\ textRow' = textRow /\ graph' = graph /\ snap' = snap
      /\ phase' = phase /\ docs' = docs /\ reader' = reader
  BY DEF RollbackUpsert, shardRows
<1>2. phase = "up" /\ Busy(id, {"indexed", "persisted", "text"}) /\ Busy(id, {"indexed"})
  BY <1>1, Locked DEF Busy
<1>3. op[id].new = fwd[id] /\ fwd[id] # NoValue
  BY <1>0, <1>2 DEF IdInv, OpInv, Slotted
<1>4. Owns(id, fwd[id])
  BY <1>0, <1>3 DEF IndexType, IndexInv, Owns
<1>5. IndexType' /\ IndexInv' /\ MineKept /\ \A j \in Ids \ {id} : Kept(j)
  BY <1>0, <1>1, <1>3, <1>4, TombIndex
<1>6. RowType' /\ op'[id] = NoValue
  BY <1>0, <1>1 DEF RowType
<1>7. \A j \in Ids \ {id} : Beside(j)
  BY <1>0, <1>1 DEF Beside, RowType
<1>8. (Active(id)' <=> Active(id)) /\ (\A steps : ~Busy(id, steps)') /\ fwd'[id] \in tomb'
  BY <1>1, <1>3, <1>6 DEF Active, Busy, IndexDelete
<1>9. OpInv(id)'
  BY <1>8 DEF OpInv
<1>10. RowInv(id)'
  BY <1>0, <1>1, <1>5, <1>8 DEF IdInv, RowInv, MineKept, Owns
<1>11. SearchInv(id)'
  BY <1>1, <1>8 DEF SearchInv
<1>12. TextInv(id)'
  BY <1>0, <1>1, <1>2, <1>8 DEF IdInv, TextInv, Busy
<1>13. GraphInv(id)'
  BY <1>0, <1>1, <1>2, <1>8 DEF IdInv, GraphInv
<1>14. IdInv(id)'
  BY <1>9, <1>10, <1>11, <1>12, <1>13 DEF IdInv
<1> QED
  BY <1>1, <1>2, <1>5, <1>6, <1>7, <1>14, StepKeeps, SameReader

LEMMA ReplaceAndSyncKeeps ==
    ASSUME ShardInv, NEW id \in Ids, ReplaceAndSync(id) PROVE ShardInv'
<1>0. RowType /\ IndexType /\ IndexInv /\ IdInv(id)
  BY TypeParts DEF ShardInv
<1>1. /\ op[id] # NoValue /\ op[id].step = "persisted"
      /\ tomb' = IF op[id].old \notin {NoValue, op[id].new} THEN tomb \cup {op[id].old} ELSE tomb
      /\ docs' = SyncSourceText(id) /\ op' = [op EXCEPT ![id].step = "text"]
      /\ row' = row /\ textRow' = textRow /\ graph' = graph /\ snap' = snap /\ hurt' = hurt
      /\ phase' = phase /\ fwd' = fwd /\ slot' = slot /\ nextId' = nextId /\ reader' = reader
  BY DEF ReplaceAndSync, shardRows
<1>2. /\ phase = "up" /\ Busy(id, {"indexed", "persisted", "text"}) /\ Busy(id, {"persisted"})
      /\ Busy(id, {"persisted", "text"}) /\ op[id] \in Ops
  BY <1>0, <1>1, Locked DEF Busy, RowType
<1>3. /\ op[id].val \in Vals /\ op[id].new = fwd[id] /\ Slotted(id, op[id].val)
      /\ row[id] = [val |-> op[id].val, ws |-> op[id].ws, internal |-> op[id].new, live |-> TRUE]
      /\ op[id].old # NoValue => Owns(id, op[id].old)
      /\ textRow[id] = IF op[id].text = "keep" THEN docs[id] ELSE op[id].text
  BY <1>0, <1>2 DEF IdInv, OpInv, TextInv
<1>4. /\ op'[id] = [op[id] EXCEPT !.step = "text"] /\ op'[id] \in Ops /\ op'[id] # NoValue
      /\ op'[id].step = "text" /\ op'[id].val = op[id].val /\ op'[id].ws = op[id].ws
      /\ op'[id].new = op[id].new
  <2>1. op'[id] = [op[id] EXCEPT !.step = "text"]
    BY <1>0, <1>1 DEF RowType
  <2>2. op'[id] \in Ops
    BY <1>2, <2>1 DEF Ops
  <2> QED
    BY <1>2, <2>1, <2>2, NoValueAssumption DEF Ops
<1>5. IndexType' /\ IndexInv' /\ MineKept /\ \A j \in Ids \ {id} : Kept(j)
  <2>1. CASE op[id].old \notin {NoValue, op[id].new}
    <3>1. IndexDelete(op[id].old)
      BY <1>1, <2>1 DEF IndexDelete
    <3> QED
      BY <1>0, <1>3, <2>1, <3>1, TombIndex
  <2>2. CASE op[id].old \in {NoValue, op[id].new}
    <3>1. UNCHANGED indexVars
      BY <1>1, <2>2 DEF indexVars
    <3> QED
      BY <1>0, <3>1, SameIndex
  <2> QED
    BY <2>1, <2>2
<1>6. docs'[id] = textRow[id]
  BY <1>0, <1>1, <1>3 DEF SyncSourceText, RowType
<1>7. RowType'
  <2>1. op[id].text \in Vals \cup {NoValue, "keep"}
    BY <1>2 DEF Ops
  <2>2. docs' \in [Ids -> Vals \cup {NoValue}]
    BY <1>0, <1>1, <2>1 DEF RowType, SyncSourceText
  <2>3. op' \in [Ids -> Ops \cup {NoValue}]
    BY <1>0, <1>1, <1>2 DEF RowType, Ops
  <2> QED
    BY <1>0, <1>1, <2>2, <2>3 DEF RowType
<1>8. \A j \in Ids \ {id} : Beside(j)
  BY <1>0, <1>1 DEF Beside, RowType, SyncSourceText
<1>9. /\ Busy(id, {"persisted", "text"})' /\ ~Busy(id, {"indexed"})' /\ ~Busy(id, {"persisted"})'
      /\ ~Busy(id, {"marked"})' /\ ~Busy(id, {"unlinked"})' /\ ~Quiet(id)'
      /\ Active(id)' /\ Active(id) /\ op'[id] # NoValue
  <2>1. row[id] # NoValue /\ row[id].live
    <3>1. row[id] \in Rows
      <4>1. op[id].ws \in Workspaces /\ op[id].new \in Internals
        BY <1>0, <1>2, <1>3 DEF Ops, IndexType, Slotted
      <4> QED
        BY <1>3, <4>1 DEF Rows
    <3>2. row[id].live = TRUE
      BY <1>3
    <3> QED
      BY <3>1, <3>2, NoValueAssumption
  <2> QED
    BY <1>1, <1>4, <2>1 DEF Busy, Quiet, Active
<1>10. Slotted(id, op[id].val)'
  BY <1>1, <1>3, <1>4 DEF Slotted
<1>11. OpInv(id)'
  BY <1>1, <1>3, <1>4, <1>9, <1>10 DEF OpInv
<1>12. RowInv(id)'
  BY <1>0, <1>1, <1>2, <1>5, <1>9 DEF IdInv, RowInv, MineKept, Owns
<1>13. SearchInv(id)'
  BY <1>9 DEF SearchInv
<1>14. TextInv(id)'
  BY <1>1, <1>6, <1>9 DEF TextInv
<1>15. GraphInv(id)'
  BY <1>9 DEF GraphInv
<1>16. IdInv(id)'
  BY <1>11, <1>12, <1>13, <1>14, <1>15 DEF IdInv
<1> QED
  BY <1>1, <1>2, <1>5, <1>7, <1>8, <1>16, StepKeeps, SameReader

LEMMA ProjectGraphKeeps ==
    ASSUME ShardInv, NEW id \in Ids, ProjectGraph(id) PROVE ShardInv'
<1>0. RowType /\ IndexType /\ IndexInv /\ IdInv(id)
  BY TypeParts DEF ShardInv
<1>1. /\ op[id] # NoValue /\ op[id].step = "text" /\ op' = [op EXCEPT ![id] = NoValue]
      /\ row' = row /\ textRow' = textRow /\ snap' = snap /\ phase' = phase
      /\ UNCHANGED indexVars /\ docs' = docs /\ reader' = reader
      /\ \/ graph' = [graph EXCEPT ![id] = op[id].val] /\ hurt' = hurt \ {<<id, "graph">>}
         \/ graph' = graph /\ hurt' = hurt \cup {<<id, "graph">>}
  BY DEF ProjectGraph
<1>2. /\ phase = "up" /\ Busy(id, {"indexed", "persisted", "text"}) /\ Busy(id, {"indexed", "text"})
      /\ Busy(id, {"persisted", "text"}) /\ op[id] \in Ops
  BY <1>0, <1>1, Locked DEF Busy, RowType
<1>3. /\ op[id].val \in Vals /\ op[id].new = fwd[id] /\ Slotted(id, op[id].val)
      /\ row[id] = [val |-> op[id].val, ws |-> op[id].ws, internal |-> op[id].new, live |-> TRUE]
      /\ textRow[id] = docs[id]
  BY <1>0, <1>2 DEF IdInv, OpInv, TextInv
<1>4. row[id] # NoValue /\ row[id].live /\ row[id].internal = fwd[id] /\ row[id].val = op[id].val
  <2>1. op[id].ws \in Workspaces /\ op[id].new \in Internals
    BY <1>0, <1>2, <1>3 DEF Ops, IndexType, Slotted
  <2>2. row[id] \in Rows
    BY <1>3, <2>1 DEF Rows
  <2>3. row[id].live = TRUE /\ row[id].internal = fwd[id] /\ row[id].val = op[id].val
    BY <1>3
  <2> QED
    BY <2>2, <2>3, NoValueAssumption
<1>5. IndexType' /\ IndexInv' /\ MineKept /\ \A j \in Ids : Kept(j)
  BY <1>0, <1>1, SameIndex
<1>6. RowType' /\ op'[id] = NoValue
  BY <1>0, <1>1, <1>3 DEF RowType
<1>7. \A j \in Ids \ {id} : Beside(j)
  BY <1>0, <1>1 DEF Beside, RowType
<1>8. Active(id)' /\ Active(id) /\ (\A steps : ~Busy(id, steps)')
  BY <1>1, <1>4, <1>6 DEF Active, Busy
<1>9. OpInv(id)'
  BY <1>8 DEF OpInv
<1>10. RowInv(id)'
  BY <1>0, <1>1, <1>2, <1>5, <1>8 DEF IdInv, RowInv, MineKept, Owns
<1>11. SearchInv(id)'
  BY <1>1, <1>3, <1>4, <1>8 DEF SearchInv, Slotted, indexVars
<1>12. TextInv(id)'
  BY <1>1, <1>3, <1>8 DEF TextInv
<1>13. GraphInv(id)'
  <2>1. CASE graph'[id] = op[id].val
    BY <1>3, <1>8, <2>1, NoValueAssumption DEF GraphInv
  <2>2. CASE <<id, "graph">> \in hurt'
    BY <1>8, <2>2 DEF GraphInv
  <2> QED
    BY <1>0, <1>1, <2>1, <2>2 DEF RowType
<1>14. IdInv(id)'
  BY <1>9, <1>10, <1>11, <1>12, <1>13 DEF IdInv
<1> QED
  BY <1>1, <1>2, <1>5, <1>6, <1>7, <1>14, StepKeeps, SameReader

LEMMA DeleteBeginKeeps ==
    ASSUME ShardInv, NEW id \in Ids, NEW ws \in Workspaces, DeleteBegin(id, ws) PROVE ShardInv'
<1> DEFINE new == [kind |-> "delete", step |-> "unlinked", val |-> NoValue, ws |-> ws,
                   text |-> NoValue, new |-> NoValue, old |-> NoValue]
<1>0. RowType /\ IndexType /\ IndexInv /\ IdInv(id)
  BY TypeParts DEF ShardInv
<1>1. /\ phase = "up" /\ op[id] = NoValue /\ graph' = [graph EXCEPT ![id] = NoValue]
      /\ op' = [op EXCEPT ![id] = new]
      /\ row' = row /\ textRow' = textRow /\ snap' = snap /\ phase' = phase
      /\ UNCHANGED indexVars /\ docs' = docs /\ reader' = reader /\ hurt' = hurt
  BY DEF DeleteBegin
<1>2. new \in Ops /\ new # NoValue /\ new.step = "unlinked"
  <2>1. new \in Ops
    BY DEF Ops
  <2> QED
    BY <2>1, NoValueAssumption
<1> HIDE DEF new
<1>3. IndexType' /\ IndexInv' /\ MineKept /\ \A j \in Ids : Kept(j)
  BY <1>0, <1>1, SameIndex
<1>4. RowType' /\ op'[id] = new /\ graph'[id] = NoValue
  BY <1>0, <1>1, <1>2 DEF RowType
<1>5. \A j \in Ids \ {id} : Beside(j)
  BY <1>0, <1>1 DEF Beside, RowType
<1>6. /\ Quiet(id) /\ Quiet(id)' /\ (Active(id)' <=> Active(id))
      /\ \A steps : "unlinked" \notin steps => ~Busy(id, steps)'
  BY <1>1, <1>2, <1>4 DEF Quiet, Active, Busy
<1>7. OpInv(id)'
  BY <1>6 DEF OpInv
<1>8. RowInv(id)'
  BY <1>0, <1>1, <1>3, <1>6 DEF IdInv, RowInv, MineKept, Owns
<1>9. SearchInv(id)'
  BY <1>0, <1>1, <1>6 DEF IdInv, SearchInv, Slotted, indexVars
<1>10. TextInv(id)'
  BY <1>0, <1>1, <1>6 DEF IdInv, TextInv
<1>11. GraphInv(id)'
  BY <1>2, <1>4, <1>6 DEF GraphInv
<1>12. IdInv(id)'
  BY <1>7, <1>8, <1>9, <1>10, <1>11 DEF IdInv
<1> QED
  BY <1>1, <1>3, <1>4, <1>5, <1>12, StepKeeps, SameReader

LEMMA MarkDeletedKeeps ==
    ASSUME ShardInv, NEW id \in Ids, MarkDeleted(id) PROVE ShardInv'
<1>0. RowType /\ IndexType /\ IndexInv /\ IdInv(id)
  BY TypeParts DEF ShardInv
<1>1. /\ op[id] # NoValue /\ op[id].step = "unlinked" /\ graph' = graph /\ snap' = snap
      /\ phase' = phase /\ UNCHANGED indexVars /\ docs' = docs /\ reader' = reader
  BY DEF MarkDeleted
<1>2. phase = "up" /\ Quiet(id) /\ Busy(id, {"unlinked"}) /\ op[id] \in Ops
  BY <1>0, <1>1, Locked DEF Busy, Quiet, RowType
<1>3. graph[id] = NoValue /\ graph'[id] = NoValue
  BY <1>0, <1>1, <1>2 DEF IdInv, GraphInv
<1>4. IndexType' /\ IndexInv' /\ MineKept /\ \A j \in Ids : Kept(j)
  BY <1>0, <1>1, SameIndex
<1>5. CASE /\ Active(id) /\ row' = [row EXCEPT ![id].live = FALSE]
           /\ textRow' = [textRow EXCEPT ![id] = NoValue]
           /\ op' = [op EXCEPT ![id].step = "marked", ![id].old = row[id].internal]
           /\ hurt' = hurt \ {<<id, "graph">>}
  <2>1. row[id] \in Rows /\ Owns(id, row[id].internal)
    BY <1>0, <1>2, <1>5 DEF RowType, Active, IdInv, RowInv
  <2>2. row'[id] = [row[id] EXCEPT !.live = FALSE] /\ textRow'[id] = NoValue
    BY <1>0, <1>5 DEF RowType
  <2>3. row'[id] \in Rows /\ row'[id].live = FALSE
    BY <2>1, <2>2 DEF Rows
  <2>4. op'[id] = [op[id] EXCEPT !.step = "marked", !.old = row[id].internal]
    BY <1>0, <1>5 DEF RowType
  <2>5. row[id].internal \in Internals
    BY <2>1 DEF Rows
  <2>6. op'[id] \in Ops /\ op'[id].step = "marked" /\ op'[id].old = row[id].internal
    BY <1>2, <2>4, <2>5 DEF Ops
  <2>7. op'[id] # NoValue
    BY <2>6, NoValueAssumption
  <2>8. RowType'
    <3>1. row' \in [Ids -> Rows \cup {NoValue}]
      BY <1>0, <1>5, <2>2, <2>3 DEF RowType
    <3>2. op' \in [Ids -> Ops \cup {NoValue}]
      BY <1>0, <1>5, <2>4, <2>6 DEF RowType
    <3> QED
      BY <1>0, <1>1, <1>5, <3>1, <3>2 DEF RowType
  <2>9. \A j \in Ids \ {id} : Beside(j)
    BY <1>0, <1>1, <1>5 DEF Beside, RowType
  <2>10. /\ ~Active(id)' /\ ~Quiet(id)'
         /\ \A steps : "marked" \notin steps => ~Busy(id, steps)'
    BY <2>3, <2>6, <2>7 DEF Active, Quiet, Busy
  <2>11. OpInv(id)'
    <3>1. fwd[id] # NoValue /\ fwd[id] \notin tomb => row[id].internal = fwd[id]
      BY <1>0, <1>2 DEF IdInv, SearchInv
    <3> QED
      BY <1>1, <2>1, <2>6, <2>10, <3>1 DEF OpInv, Owns, indexVars
  <2>12. IdInv(id)'
    BY <1>3, <2>2, <2>7, <2>10, <2>11 DEF IdInv, RowInv, SearchInv, TextInv, GraphInv
  <2> QED
    BY <1>1, <1>2, <1>4, <2>8, <2>9, <2>12, StepKeeps, SameReader
<1>6. CASE /\ op' = [op EXCEPT ![id] = NoValue] /\ row' = row /\ textRow' = textRow
           /\ \/ ~Active(id) /\ hurt' = hurt
              \/ Active(id) /\ hurt' = hurt \cup {<<id, "graph">>}
  <2>1. RowType' /\ op'[id] = NoValue
    BY <1>0, <1>1, <1>6 DEF RowType
  <2>2. \A j \in Ids \ {id} : Beside(j)
    BY <1>0, <1>1, <1>6 DEF Beside, RowType
  <2>3. (Active(id)' <=> Active(id)) /\ Quiet(id)' /\ \A steps : ~Busy(id, steps)'
    BY <1>6, <2>1 DEF Active, Quiet, Busy
  <2>4. OpInv(id)'
    BY <2>3 DEF OpInv
  <2>5. RowInv(id)'
    BY <1>0, <1>1, <1>2, <1>4, <1>6, <2>3 DEF IdInv, RowInv, MineKept, Owns
  <2>6. SearchInv(id)'
    BY <1>0, <1>1, <1>2, <1>6, <2>3 DEF IdInv, SearchInv, Slotted, indexVars
  <2>7. TextInv(id)'
    BY <1>0, <1>1, <1>2, <1>6, <2>3 DEF IdInv, TextInv
  <2>8. GraphInv(id)'
    BY <1>3, <1>6, <2>3 DEF GraphInv
  <2>9. IdInv(id)'
    BY <2>4, <2>5, <2>6, <2>7, <2>8 DEF IdInv
  <2> QED
    BY <1>1, <1>2, <1>4, <2>1, <2>2, <2>9, StepKeeps, SameReader
<1> QED
  BY <1>5, <1>6 DEF MarkDeleted

LEMMA DeleteFromIndexKeeps ==
    ASSUME ShardInv, NEW id \in Ids, DeleteFromIndex(id) PROVE ShardInv'
<1>0. RowType /\ IndexType /\ IndexInv /\ IdInv(id)
  BY TypeParts DEF ShardInv
<1>1. /\ op[id] # NoValue /\ op[id].step = "marked" /\ IndexDelete(op[id].old)
      /\ docs' = [docs EXCEPT ![id] = NoValue] /\ op' = [op EXCEPT ![id] = NoValue]
      /\ hurt' = hurt \ {<<id, "index">>}
      /\ row' = row /\ textRow' = textRow /\ graph' = graph /\ snap' = snap
      /\ phase' = phase /\ reader' = reader
  BY DEF DeleteFromIndex, shardRows
<1>2. phase = "up" /\ Busy(id, {"marked"})
  BY <1>1, Locked DEF Busy
<1>3. /\ ~Active(id) /\ Owns(id, op[id].old)
      /\ fwd[id] # NoValue /\ fwd[id] \notin tomb => op[id].old = fwd[id]
      /\ textRow[id] = NoValue /\ graph[id] = NoValue
  BY <1>0, <1>2 DEF IdInv, OpInv, TextInv, GraphInv
<1>4. IndexType' /\ IndexInv' /\ MineKept /\ \A j \in Ids \ {id} : Kept(j)
  BY <1>0, <1>1, <1>3, TombIndex
<1>5. RowType' /\ op'[id] = NoValue /\ docs'[id] = NoValue
  BY <1>0, <1>1 DEF RowType
<1>6. \A j \in Ids \ {id} : Beside(j)
  BY <1>0, <1>1 DEF Beside, RowType
<1>7. ~Active(id)' /\ \A steps : ~Busy(id, steps)'
  BY <1>1, <1>3, <1>5 DEF Active, Busy
<1>8. fwd'[id] # NoValue => fwd'[id] \in tomb'
  BY <1>1, <1>3 DEF IndexDelete
<1>9. IdInv(id)'
  BY <1>1, <1>3, <1>5, <1>7, <1>8 DEF IdInv, OpInv, RowInv, SearchInv, TextInv, GraphInv
<1> QED
  BY <1>1, <1>2, <1>4, <1>5, <1>6, <1>9, StepKeeps, SameReader

-----------------------------------------------------------------------------
(* Readers and the compaction task.                                        *)

LEMMA GetKeeps ==
    ASSUME ShardInv, GetEnd \/ \E id \in Ids, ws \in Workspaces : GetBegin(id, ws)
    PROVE  ShardInv'
<1>0. RowType /\ IndexType /\ IndexInv /\ \A id \in Ids : IdInv(id)
  BY TypeParts DEF ShardInv
<1>1. /\ row' = row /\ textRow' = textRow /\ graph' = graph /\ snap' = snap /\ phase' = phase
      /\ docs' = docs /\ op' = op /\ hurt' = hurt /\ UNCHANGED indexVars
  BY DEF GetEnd, GetBegin, shardRows
<1>2. IndexType' /\ IndexInv' /\ MineKept /\ \A j \in Ids : Kept(j)
  BY <1>0, <1>1, SameIndex
<1>3. ReaderInv'
  <2>1. CASE GetEnd
    BY <2>1 DEF GetEnd, ReaderInv
  <2>2. ASSUME NEW id \in Ids, NEW ws \in Workspaces, GetBegin(id, ws) PROVE ReaderInv'
    <3>1. Owns(id, row[id].internal)
      BY <1>0, <2>2 DEF GetBegin, IdInv, RowInv
    <3>2. reader' = [id |-> id, internal |-> row[id].internal]
      BY <2>2 DEF GetBegin
    <3> QED
      BY <1>1, <3>1, <3>2 DEF ReaderInv, Owns, indexVars
  <2> QED
    BY <2>1, <2>2
<1>4. SnapInv'
  BY <1>1 DEF ShardInv, SnapInv
<1>5. PhaseInv'
  <2>1. phase' # "up" => reader' = NoValue
    BY <1>1 DEF ShardInv, PhaseInv, GetEnd, GetBegin
  <2> QED
    BY <1>1, <2>1 DEF ShardInv, PhaseInv, Slotted, Active, indexVars
<1>6. \A j \in Ids : IdInv(j)'
  <2>1. \A j \in Ids : Beside(j)
    BY <1>1 DEF Beside
  <2> QED
    BY <1>0, <1>2, <2>1, BesideKeeps DEF ShardInv
<1>7. ShardTypeOK'
  BY <1>0, <1>1, <1>2 DEF ShardTypeOK, RowType, IndexType
<1> QED
  BY <1>2, <1>3, <1>4, <1>5, <1>6, <1>7 DEF ShardInv

(* Only what a tombstone hides goes, so nothing that is searchable moves.  *)
LEMMA CompactKeeps == ASSUME ShardInv, Compact PROVE ShardInv'
<1>0. RowType /\ IndexType /\ IndexInv /\ \A id \in Ids : IdInv(id)
  BY TypeParts DEF ShardInv
<1>1. PICK gone \in SUBSET {n \in tomb : slot[n] # NoValue} :
           /\ slot' = [n \in Internals |-> IF n \in gone THEN NoValue ELSE slot[n]]
           /\ fwd' = [id \in Ids |-> IF fwd[id] \in gone THEN NoValue ELSE fwd[id]]
           /\ tomb' = tomb \ gone
  BY DEF Compact
<1>2. /\ phase = "up" /\ row' = row /\ textRow' = textRow /\ graph' = graph /\ snap' = snap
      /\ phase' = phase /\ docs' = docs /\ op' = op /\ hurt' = hurt /\ nextId' = nextId
      /\ reader' = reader
  BY DEF Compact
<1>3. IndexType'
  BY <1>0, <1>1, <1>2 DEF IndexType
<1>4. \A id \in Ids : fwd'[id] # NoValue => fwd'[id] = fwd[id] /\ fwd[id] \notin gone /\ slot'[fwd[id]] = slot[fwd[id]]
  BY <1>0, <1>1 DEF IndexType
<1>5. \A n \in Internals : slot'[n] # NoValue => slot'[n] = slot[n] /\ n \notin gone
  BY <1>1
<1>6. IndexInv'
  <2>1. \A n \in Internals : slot[n] # NoValue => slot[n].id \in Ids
    BY <1>0 DEF IndexType, Slots
  <2>2. \A n \in Internals : slot'[n] # NoValue => fwd'[slot'[n].id] = n
    BY <1>0, <1>1, <1>5, <2>1 DEF IndexInv
  <2>3. \A id \in Ids : fwd'[id] # NoValue =>
           fwd'[id] < nextId' /\ slot'[fwd'[id]] # NoValue /\ slot'[fwd'[id]].id = id
    BY <1>0, <1>2, <1>4 DEF IndexInv
  <2> QED
    BY <1>0, <1>1, <1>2, <2>2, <2>3 DEF IndexInv
<1>7. MineKept
  BY <1>1, <1>2, <1>5 DEF MineKept, Owns
<1>8. ReaderInv'
  BY <1>2, <1>7, SameReader
<1>9. ASSUME NEW id \in Ids PROVE IdInv(id)'
  <2>0. IdInv(id) /\ row[id] \in Rows \cup {NoValue} /\ op[id] \in Ops \cup {NoValue}
    BY <1>0 DEF RowType
  <2>1. /\ \A steps : Busy(id, steps)' <=> Busy(id, steps)
        /\ Quiet(id)' <=> Quiet(id)
        /\ Active(id)' <=> Active(id)
        /\ \A ws : OwnedByOther(id, ws)' <=> OwnedByOther(id, ws)
        /\ Replaced(id)' = Replaced(id)
    BY <1>2 DEF Busy, Quiet, Active, OwnedByOther, Replaced
  <2>2. fwd[id] # NoValue /\ fwd[id] \notin tomb =>
           fwd'[id] = fwd[id] /\ slot'[fwd[id]] = slot[fwd[id]] /\ fwd[id] \notin tomb'
    BY <1>0, <1>1 DEF IndexType
  <2>3. fwd'[id] # NoValue /\ fwd'[id] \notin tomb' => fwd'[id] = fwd[id] /\ fwd[id] \notin tomb
    BY <1>1, <1>4
  <2>4. \A v : Slotted(id, v) => Slotted(id, v)' /\ fwd'[id] = fwd[id]
    BY <2>2 DEF Slotted
  <2>5. \A n : Owns(id, n) => Owns(id, n)'
    BY <1>7 DEF MineKept, Owns
  <2>6. OpInv(id)'
    <3>1. ASSUME Busy(id, {"persisted"}), op[id].old # NoValue PROVE Owns(id, op[id].old)'
      BY <2>0, <2>5, <3>1, <1>2 DEF IdInv, OpInv
    <3>2. ASSUME Busy(id, {"marked"}) PROVE Owns(id, op[id].old)'
      BY <2>0, <2>5, <3>2, <1>2 DEF IdInv, OpInv
    <3>3. ASSUME Busy(id, {"indexed", "persisted", "text"}) PROVE Slotted(id, op[id].val)' /\ fwd'[id] = fwd[id]
      BY <1>2, <2>0, <2>2, <3>3 DEF IdInv, OpInv, Slotted
    <3> QED
      BY <1>2, <2>0, <2>1, <2>3, <3>1, <3>2, <3>3 DEF IdInv, OpInv
  <2>7. RowInv(id)'
    BY <1>2, <1>7, <2>0, <2>1 DEF IdInv, RowInv, MineKept, Owns
  <2>8. SearchInv(id)'
    BY <1>2, <2>0, <2>1, <2>2, <2>3 DEF IdInv, SearchInv, Slotted
  <2>9. TextInv(id)' /\ GraphInv(id)'
    BY <1>2, <2>0, <2>1 DEF IdInv, TextInv, GraphInv
  <2> QED
    BY <2>6, <2>7, <2>8, <2>9 DEF IdInv
<1>10. SnapInv' /\ PhaseInv'
  BY <1>2 DEF ShardInv, SnapInv, PhaseInv
<1>11. ShardTypeOK'
  BY <1>0, <1>2, <1>3 DEF ShardTypeOK, RowType, IndexType
<1> QED
  BY <1>6, <1>8, <1>9, <1>10, <1>11 DEF ShardInv
-----------------------------------------------------------------------------
(* Crash and start-up.                                                     *)

LEMMA MinOfNaturals == ASSUME NEW S \in SUBSET Nat, S # {} PROVE Min(S) \in S
<1> DEFINE R == OpToRel(<, Nat)
<1>1. IsWellFoundedOn(R, Nat)
  BY NatLessThanWellFounded
<1>2. \A m, n \in Nat : <<m, n>> \in R <=> m < n
  BY DEF OpToRel
<1> HIDE DEF R
<1>3. PICK x \in S : \A y \in S : ~(<<y, x>> \in R)
  BY <1>1, WFMin
<1>4. ASSUME NEW y \in S PROVE x <= y
  <2>1. x \in Nat /\ y \in Nat
    OBVIOUS
  <2>2. ~(y < x)
    BY <1>2, <1>3, <2>1
  <2> QED
    BY <2>1, <2>2
<1> QED
  BY <1>4 DEF Min

LEMMA CrashKeeps == ASSUME ShardInv, Crash PROVE ShardInv'
<1>1. /\ phase' = "down" /\ fwd' = [id \in Ids |-> NoValue] /\ slot' = [n \in Internals |-> NoValue]
      /\ tomb' = {} /\ nextId' = 0 /\ docs' = [id \in Ids |-> NoValue] /\ op' = [id \in Ids |-> NoValue]
      /\ reader' = NoValue /\ hurt' = {}
      /\ row' = row /\ textRow' = textRow /\ graph' = graph /\ snap' = snap
  BY DEF Crash, NoIndex, shardRows
<1>2. ShardTypeOK'
  BY <1>1, ShardAssumption DEF ShardInv, ShardTypeOK
<1>3. IndexInv' /\ SnapInv' /\ ReaderInv' /\ PhaseInv'
  BY <1>1 DEF ShardInv, IndexInv, SnapInv, ReaderInv, PhaseInv
<1>4. ASSUME NEW id \in Ids PROVE IdInv(id)'
  <2>1. (Active(id)' <=> Active(id)) /\ \A steps : ~Busy(id, steps)'
    BY <1>1 DEF Active, Busy
  <2> QED
    BY <1>1, <2>1 DEF ShardInv, IdInv, OpInv, RowInv, SearchInv, TextInv, GraphInv
<1> QED
  BY <1>2, <1>3, <1>4 DEF ShardInv

(* Chunks belong to stored vectors, so equal counts are equal sets.        *)
LEMMA ServeReconciles ==
    ASSUME RowType, \A id \in Ids : graph[id] # NoValue => Active(id),
           \A id \in Ids : ~Active(id) => textRow[id] = NoValue, row' = row, textRow' = textRow, Serve
    PROVE  /\ phase' = "up" /\ docs' \in [Ids -> Vals \cup {NoValue}] /\ graph' \in [Ids -> Vals \cup {NoValue}]
           /\ \A id \in Ids : docs'[id] = textRow[id] /\ (graph'[id] # NoValue <=> Active(id))
<1> DEFINE chunks == {id \in Ids : graph[id] # NoValue}
<1>1. chunks \subseteq ActiveIds /\ ActiveIds \subseteq Ids
  BY DEF ActiveIds
<1>2. IsFiniteSet(ActiveIds)
  BY <1>1, ShardAssumption, FS_Subset
<1>3. Cardinality(ActiveIds) = Cardinality(chunks) => ActiveIds = chunks
  BY <1>1, <1>2, FS_Subset
<1>4. phase' = "up" /\ docs' = [id \in Ids |-> IF Active(id) THEN textRow[id] ELSE NoValue]
  BY DEF Serve
<1>5. docs' \in [Ids -> Vals \cup {NoValue}] /\ \A id \in Ids : docs'[id] = textRow[id]
  BY <1>4 DEF RowType
<1>6. \A id \in Ids : Active(id) => row[id].val \in Vals /\ row[id].val # NoValue
  BY NoValueAssumption DEF RowType, Active, Rows
<1>7. CASE graph' = graph /\ ActiveIds = chunks
  BY <1>4, <1>5, <1>7 DEF RowType, ActiveIds
<1>8. CASE graph' = Reprojected
  <2>1. graph' \in [Ids -> Vals \cup {NoValue}]
    BY <1>6, <1>8 DEF Reprojected, RowType
  <2>2. \A id \in Ids : graph'[id] # NoValue <=> Active(id)
    BY <1>6, <1>8 DEF Reprojected
  <2> QED
    BY <1>4, <1>5, <2>1, <2>2
<1> QED
  BY <1>3, <1>7, <1>8 DEF Serve

(* What a start-up has to have built when it serves.                       *)
LEMMA ServeKeeps ==
    ASSUME ShardInv, phase # "up", row' = row, textRow' = textRow, op' = op, reader' = reader,
           hurt' = hurt, Serve, IndexType', IndexInv', SnapInv', tomb' = {},
           \A id \in Ids : Active(id) =>
               fwd'[id] = row[id].internal /\ slot'[fwd'[id]] = [id |-> id, val |-> row[id].val],
           \A id \in Ids : fwd'[id] # NoValue => Active(id)
    PROVE  ShardInv'
<1>0. RowType /\ \A id \in Ids : IdInv(id)
  BY TypeParts DEF ShardInv
<1>1. /\ phase' = "up" /\ docs' \in [Ids -> Vals \cup {NoValue}] /\ graph' \in [Ids -> Vals \cup {NoValue}]
      /\ \A id \in Ids : docs'[id] = textRow[id] /\ (graph'[id] # NoValue <=> Active(id))
  BY <1>0, ServeReconciles DEF IdInv, GraphInv, TextInv
<1>2. (\A id \in Ids : op[id] = NoValue) /\ reader = NoValue /\ hurt = {}
  BY DEF ShardInv, PhaseInv
<1>3. ShardTypeOK'
  BY <1>0, <1>1 DEF ShardTypeOK, RowType, IndexType
<1>4. ReaderInv' /\ PhaseInv'
  BY <1>1, <1>2 DEF ReaderInv, PhaseInv
<1>5. ASSUME NEW id \in Ids PROVE IdInv(id)'
  <2>1. (Active(id)' <=> Active(id)) /\ op'[id] = NoValue /\ \A steps : ~Busy(id, steps)'
    BY <1>2 DEF Active, Busy
  <2>2. Active(id) => row[id] \in Rows /\ row[id].internal \in Internals /\ row[id].internal # NoValue
    BY <1>0, NoValueAssumption DEF Active, RowType, Rows
  <2>3. Active(id) => Owns(id, row[id].internal)'
    BY <2>2 DEF IndexInv, Owns
  <2>4. Active(id) => Slotted(id, row[id].val)'
    BY <2>2 DEF Slotted
  <2>5. OpInv(id)' /\ RowInv(id)'
    BY <2>1, <2>3 DEF OpInv, RowInv, Owns
  <2>6. SearchInv(id)'
    BY <2>1, <2>2, <2>4 DEF SearchInv, Slotted
  <2>7. TextInv(id)' /\ GraphInv(id)'
    BY <1>0, <1>1, <2>1 DEF IdInv, TextInv, GraphInv
  <2> QED
    BY <2>5, <2>6, <2>7 DEF IdInv
<1> QED
  BY <1>3, <1>4, <1>5 DEF ShardInv

LEMMA LoadSnapshotKeeps == ASSUME ShardInv, LoadSnapshot PROVE ShardInv'
<1> DEFINE vs == snap.vectors
           entry(id) == [id |-> id, internal |-> row[id].internal, val |-> row[id].val]
<1>0. RowType /\ \A id \in Ids : IdInv(id)
  BY TypeParts DEF ShardInv
<1>1. /\ phase = "down" /\ snap # NoValue /\ vs = Fingerprint
      /\ row' = row /\ textRow' = textRow /\ op' = op /\ reader' = reader /\ hurt' = hurt
      /\ snap' = snap /\ Serve /\ nextId' = snap.nextId /\ tomb' = {}
  BY DEF LoadSnapshot, SnapshotFits
<1>2. /\ snap.nextId \in 0..MaxInternal
      /\ vs \subseteq [id : Ids, internal : Internals, val : Vals]
      /\ \A s \in vs : s.internal < snap.nextId
      /\ \A s, t \in vs : s.id = t.id \/ s.internal = t.internal => s = t
  BY <1>1 DEF ShardInv, SnapInv
<1>3. \A id \in Ids : Active(id) => entry(id) \in vs
  BY <1>1 DEF Fingerprint, ActiveIds
<1>4. \A s \in vs : s.id \in Ids /\ Active(s.id) /\ s = entry(s.id)
  BY <1>1 DEF Fingerprint, ActiveIds
<1>5. /\ fwd' = [id \in Ids |-> IF \E s \in vs : s.id = id THEN (CHOOSE s \in vs : s.id = id).internal ELSE NoValue]
      /\ slot' = [n \in Internals |-> IF \E s \in vs : s.internal = n
                     THEN LET s == CHOOSE s \in vs : s.internal = n IN  [id |-> s.id, val |-> s.val] ELSE NoValue]
  BY DEF LoadSnapshot
<1> HIDE DEF vs
<1>6. ASSUME NEW s \in vs
      PROVE  fwd'[s.id] = s.internal /\ slot'[s.internal] = [id |-> s.id, val |-> s.val] /\ s.internal \in Internals
  <2>1. s.id \in Ids /\ s.internal \in Internals
    BY <1>2
  <2>2. (CHOOSE t \in vs : t.id = s.id) = s
    BY <1>2
  <2>3. (CHOOSE t \in vs : t.internal = s.internal) = s
    BY <1>2
  <2> QED
    BY <1>5, <2>1, <2>2, <2>3
<1>7. \A id \in Ids : fwd'[id] # NoValue => \E s \in vs : s.id = id
  BY <1>5
<1>8. \A n \in Internals : slot'[n] # NoValue => \E s \in vs : s.internal = n
  BY <1>5
<1>9. IndexType'
  <2>1. \A id \in Ids : fwd'[id] \in Internals \cup {NoValue}
    <3> SUFFICES ASSUME NEW id \in Ids, fwd'[id] # NoValue PROVE fwd'[id] \in Internals
      OBVIOUS
    <3>1. PICK s \in vs : s.id = id
      BY <1>7
    <3> QED
      BY <1>6, <3>1
  <2>2. \A n \in Internals : slot'[n] \in Slots \cup {NoValue}
    <3>1. \A s \in vs : [id |-> s.id, val |-> s.val] \in Slots
      BY <1>2 DEF Slots
    <3> SUFFICES ASSUME NEW n \in Internals, slot'[n] # NoValue PROVE slot'[n] \in Slots
      OBVIOUS
    <3>2. PICK s \in vs : s.internal = n
      BY <1>8
    <3>3. slot'[n] = [id |-> s.id, val |-> s.val]
      BY <1>6, <3>2
    <3> QED
      BY <3>1, <3>3
  <2>3. fwd' \in [Ids -> Internals \cup {NoValue}] /\ slot' \in [Internals -> Slots \cup {NoValue}]
    BY <1>5, <2>1, <2>2
  <2> QED
    BY <1>1, <1>2, <2>3 DEF IndexType
<1>10. IndexInv'
  <2>1. ASSUME NEW id \in Ids, fwd'[id] # NoValue
        PROVE  fwd'[id] < nextId' /\ slot'[fwd'[id]] # NoValue /\ slot'[fwd'[id]].id = id
    <3>1. PICK s \in vs : s.id = id
      BY <1>7, <2>1
    <3>2. [id |-> s.id, val |-> s.val] \in Slots
      BY <1>2 DEF Slots
    <3>3. fwd'[id] = s.internal /\ slot'[s.internal] = [id |-> s.id, val |-> s.val]
      BY <1>6, <3>1
    <3>4. slot'[s.internal] # NoValue
      BY <3>2, <3>3, NoValueAssumption
    <3> QED
      BY <1>1, <1>2, <3>1, <3>3, <3>4
  <2>2. ASSUME NEW n \in Internals, slot'[n] # NoValue PROVE fwd'[slot'[n].id] = n
    <3>1. PICK s \in vs : s.internal = n
      BY <1>8, <2>2
    <3>2. fwd'[s.id] = n /\ slot'[n] = [id |-> s.id, val |-> s.val]
      BY <1>6, <3>1
    <3>3. slot'[n].id = s.id
      BY <3>2
    <3> QED
      BY <3>2, <3>3
  <2> QED
    BY <1>1, <2>1, <2>2 DEF IndexInv
<1>11. SnapInv'
  BY <1>1 DEF ShardInv, SnapInv
<1>12. ASSUME NEW id \in Ids, Active(id)
       PROVE  fwd'[id] = row[id].internal /\ slot'[fwd'[id]] = [id |-> id, val |-> row[id].val]
  <2>1. entry(id) \in vs /\ entry(id).id = id /\ entry(id).internal = row[id].internal /\ entry(id).val = row[id].val
    BY <1>3, <1>12
  <2> QED
    BY <1>6, <2>1
<1>13. \A id \in Ids : fwd'[id] # NoValue => Active(id)
  BY <1>4, <1>7
<1> QED
  BY <1>1, <1>9, <1>10, <1>11, <1>12, <1>13, ServeKeeps

LEMMA ReloadBeginKeeps == ASSUME ShardInv, ReloadBegin PROVE ShardInv'
<1>1. /\ phase = "down" /\ phase' = "reload" /\ docs' = docs /\ op' = op /\ reader' = reader /\ hurt' = hurt
      /\ row' = row /\ textRow' = textRow /\ graph' = graph /\ snap' = snap
      /\ fwd' = fwd /\ slot' = slot /\ tomb' = tomb /\ nextId' = nextId
  BY DEF ReloadBegin, shardRows, indexVars
<1>2. /\ \A id \in Ids : op[id] = NoValue /\ fwd[id] = NoValue
      /\ reader = NoValue /\ hurt = {} /\ tomb = {}
  BY <1>1 DEF ShardInv, PhaseInv
<1>3. ShardTypeOK' /\ IndexInv' /\ SnapInv' /\ ReaderInv' /\ PhaseInv'
  <2>1. ShardTypeOK'
    BY <1>1 DEF ShardInv, ShardTypeOK
  <2>2. IndexInv' /\ SnapInv'
    BY <1>1 DEF ShardInv, IndexInv, SnapInv
  <2> QED
    BY <1>1, <1>2, <2>1, <2>2 DEF ReaderInv, PhaseInv
<1>4. ASSUME NEW id \in Ids PROVE IdInv(id)'
  <2>1. (Active(id)' <=> Active(id)) /\ \A steps : ~Busy(id, steps)'
    BY <1>1, <1>2 DEF Active, Busy
  <2> QED
    BY <1>1, <2>1 DEF ShardInv, IdInv, OpInv, RowInv, SearchInv, TextInv, GraphInv
<1> QED
  BY <1>3, <1>4 DEF ShardInv
(* The first row that is not in the index yet.                             *)
LEMMA ReloadOnePicks ==
    ASSUME ShardAssumption, ReloadOne
    PROVE  \E id \in Ids : /\ Active(id) /\ fwd[id] = NoValue /\ IndexInsert(id, row[id].val)
                           /\ UpsertRow(id, nextId, row[id].val, row[id].ws, "keep")
<1> DEFINE unloaded == {id \in ActiveIds : fwd[id] = NoValue}
<1>1. unloaded \in SUBSET Nat /\ unloaded # {}
  BY DEF ActiveIds, ReloadOne, ShardAssumption
<1>2. Min(unloaded) \in unloaded
  BY <1>1, MinOfNaturals
<1>3. Min(unloaded) \in Ids /\ Active(Min(unloaded)) /\ fwd[Min(unloaded)] = NoValue
  BY <1>2 DEF ActiveIds
<1> QED
  BY <1>3 DEF ReloadOne

LEMMA ReloadOneKeeps == ASSUME ShardInv, ReloadOne PROVE ShardInv'
<1>0. RowType /\ IndexType /\ IndexInv /\ \A j \in Ids : IdInv(j)
  BY TypeParts DEF ShardInv
<1>1. PICK id \in Ids : /\ Active(id) /\ fwd[id] = NoValue /\ IndexInsert(id, row[id].val)
                        /\ UpsertRow(id, nextId, row[id].val, row[id].ws, "keep")
  BY ReloadOnePicks, ShardAssumption
<1> DEFINE v == row[id].val
           new == [val |-> v, ws |-> row[id].ws, internal |-> nextId, live |-> TRUE]
<1>2. /\ phase = "reload" /\ row' = [row EXCEPT ![id] = new] /\ textRow' = textRow
      /\ graph' = graph /\ snap' = snap /\ phase' = phase /\ docs' = docs /\ op' = op
      /\ reader' = reader /\ hurt' = hurt
  BY <1>1 DEF ReloadOne, UpsertRow
<1>3. /\ \A j \in Ids : op[j] = NoValue
      /\ \A j \in Ids : fwd[j] # NoValue => Active(j) /\ row[j].internal = fwd[j] /\ Slotted(j, row[j].val)
      /\ reader = NoValue /\ hurt = {} /\ tomb = {}
  BY <1>2 DEF ShardInv, PhaseInv
<1>4. row[id] \in Rows /\ v \in Vals /\ row[id].ws \in Workspaces
  BY <1>0, <1>1 DEF RowType, Active, Rows
<1>5. PICK w \in Vals : w = v
  BY <1>4
<1>6. /\ IndexType' /\ IndexInv' /\ fwd'[id] = TargetOf(id) /\ TargetOf(id) \in Internals
      /\ Slotted(id, w)' /\ \A j \in Ids \ {id} : Kept(j)
  BY <1>0, <1>1, <1>5, InsertIndex
<1>7. fwd'[id] = nextId /\ nextId \in Internals
  BY <1>1, <1>6 DEF TargetOf
<1>8. new \in Rows /\ new.val = w /\ new.internal = nextId /\ new.live = TRUE
  BY <1>4, <1>5, <1>7 DEF Rows
<1>9. new # NoValue
  BY <1>8, NoValueAssumption
<1> HIDE DEF new
<1>10. RowType' /\ row'[id] = new /\ \A j \in Ids \ {id} : row'[j] = row[j]
  BY <1>0, <1>2, <1>8 DEF RowType
<1>11. ShardTypeOK'
  BY <1>6, <1>10 DEF ShardTypeOK, RowType, IndexType
<1>12. SnapInv' /\ ReaderInv'
  BY <1>2, <1>3 DEF ShardInv, SnapInv, ReaderInv
<1>13. \A j \in Ids : Active(j)' <=> Active(j)
  BY <1>1, <1>8, <1>9, <1>10 DEF Active
<1>14. PhaseInv'
  <2>1. tomb' = {}
    BY <1>1, <1>3 DEF IndexInsert
  <2>2. ASSUME NEW j \in Ids, fwd'[j] # NoValue
        PROVE  Active(j)' /\ row'[j].internal = fwd'[j] /\ Slotted(j, row[j].val)'
    <3>1. CASE j = id
      BY <1>1, <1>6, <1>7, <1>8, <1>10, <1>13, <3>1 DEF Slotted
    <3>2. CASE j # id
      BY <1>3, <1>6, <1>10, <1>13, <2>1, <2>2, <3>2 DEF Kept, Slotted
    <3> QED
      BY <3>1, <3>2
  <2> QED
    BY <1>2, <1>3, <2>1, <2>2 DEF PhaseInv
<1>15. ASSUME NEW j \in Ids PROVE IdInv(j)'
  <2>1. \A steps : ~Busy(j, steps)'
    BY <1>2, <1>3 DEF Busy
  <2> QED
    BY <1>0, <1>2, <1>13, <2>1 DEF IdInv, OpInv, RowInv, SearchInv, TextInv, GraphInv
<1> QED
  BY <1>6, <1>11, <1>12, <1>14, <1>15 DEF ShardInv

(* The snapshot that is saved names every vector and slot once.            *)
LEMMA ReloadEndKeeps == ASSUME ShardInv, ReloadEnd PROVE ShardInv'
<1>0. RowType /\ IndexType /\ IndexInv /\ SnapInv
  BY TypeParts DEF ShardInv
<1>1. /\ phase = "reload" /\ \A id \in ActiveIds : fwd[id] # NoValue
      /\ snap' = [vectors |-> Fingerprint, nextId |-> nextId] \/ snap' = snap
      /\ Serve /\ row' = row /\ textRow' = textRow /\ op' = op /\ reader' = reader /\ hurt' = hurt
      /\ UNCHANGED indexVars
  BY DEF ReloadEnd
<1>2. /\ \A id \in Ids : fwd[id] # NoValue => Active(id) /\ row[id].internal = fwd[id] /\ Slotted(id, row[id].val)
      /\ tomb = {}
  BY <1>1 DEF ShardInv, PhaseInv
<1>3. IndexType' /\ IndexInv' /\ fwd' = fwd /\ slot' = slot /\ tomb' = {} /\ nextId' = nextId
  BY <1>0, <1>1, <1>2, SameIndex DEF indexVars
<1>4. ASSUME NEW id \in Ids, Active(id)
      PROVE  /\ fwd[id] # NoValue /\ fwd[id] = row[id].internal /\ slot[fwd[id]] = [id |-> id, val |-> row[id].val]
             /\ fwd[id] \in Internals /\ fwd[id] < nextId /\ slot[fwd[id]].id = id /\ row[id].val \in Vals
  <2>1. fwd[id] # NoValue
    BY <1>1, <1>4 DEF ActiveIds
  <2>2. row[id] \in Rows
    BY <1>0, <1>4 DEF RowType, Active
  <2>3. row[id].val \in Vals
    BY <2>2 DEF Rows
  <2> QED
    BY <1>0, <1>2, <2>1, <2>3 DEF IndexType, IndexInv, Slotted
<1>5. SnapInv'
  <2>1. CASE snap' = snap
    BY <1>0, <2>1 DEF SnapInv
  <2>2. CASE snap' = [vectors |-> Fingerprint, nextId |-> nextId]
    <3>1. snap'.vectors = Fingerprint /\ snap'.nextId = nextId
      BY <2>2
    <3>2. ASSUME NEW s \in Fingerprint
          PROVE  /\ s.id \in Ids /\ Active(s.id) /\ s.internal = fwd[s.id]
                 /\ s = [id |-> s.id, internal |-> row[s.id].internal, val |-> row[s.id].val]
                 /\ s \in [id : Ids, internal : Internals, val : Vals]
      <4>1. PICK id \in ActiveIds : s = [id |-> id, internal |-> row[id].internal, val |-> row[id].val]
        BY DEF Fingerprint
      <4>2. id \in Ids /\ Active(id) /\ s.id = id /\ s.internal = row[id].internal
        BY <4>1 DEF ActiveIds
      <4>3. row[id].internal \in Internals /\ row[id].val \in Vals /\ row[id].internal = fwd[id]
        BY <1>4, <4>2
      <4> QED
        BY <4>1, <4>2, <4>3
    <3>3. \A s, t \in Fingerprint : s.id = t.id => s = t
      BY <3>2
    <3>4. ASSUME NEW s \in Fingerprint, NEW t \in Fingerprint, s.internal = t.internal PROVE s.id = t.id
      <4>1. slot[fwd[s.id]].id = s.id /\ slot[fwd[t.id]].id = t.id
        BY <1>4, <3>2
      <4> QED
        BY <3>2, <3>4, <4>1
    <3>5. \A s \in Fingerprint : s.internal < nextId
      BY <1>4, <3>2
    <3>6. nextId \in 0..MaxInternal /\ Fingerprint \subseteq [id : Ids, internal : Internals, val : Vals]
      BY <1>0, <3>2 DEF IndexType
    <3> QED
      BY <3>1, <3>3, <3>4, <3>5, <3>6 DEF SnapInv
  <2> QED
    BY <1>1, <2>1, <2>2
<1> QED
  BY <1>1, <1>2, <1>3, <1>4, <1>5, ServeKeeps

-----------------------------------------------------------------------------
(* The invariant.                                                          *)

LEMMA InitInv == ShardInit => ShardInv
<1> SUFFICES ASSUME ShardInit PROVE ShardInv
  OBVIOUS
<1>1. ShardTypeOK
  BY ShardAssumption DEF ShardInit, ShardTypeOK
<1>2. IndexInv /\ SnapInv /\ ReaderInv /\ PhaseInv
  BY DEF ShardInit, IndexInv, SnapInv, ReaderInv, PhaseInv
<1>3. ASSUME NEW id \in Ids PROVE IdInv(id)
  <2>1. ~Active(id) /\ \A steps : ~Busy(id, steps)
    BY DEF ShardInit, Active, Busy
  <2> QED
    BY <2>1 DEF ShardInit, IdInv, OpInv, RowInv, SearchInv, TextInv, GraphInv
<1> QED
  BY <1>1, <1>2, <1>3 DEF ShardInv

LEMMA UnchangedKeeps == ASSUME ShardInv, UNCHANGED shardVars PROVE ShardInv'
<1>1. UNCHANGED <<row, textRow, graph, snap, phase, fwd, slot, tomb, nextId, docs, op, reader, hurt>>
  BY DEF shardVars
<1>2. ShardTypeOK' /\ IndexInv' /\ SnapInv'
  BY <1>1 DEF ShardInv, ShardTypeOK, IndexInv, SnapInv
<1>3. ReaderInv' /\ PhaseInv'
  BY <1>1 DEF ShardInv, ReaderInv, PhaseInv, Owns, Slotted, Active
<1>4. UNCHANGED indexVars
  BY <1>1 DEF indexVars
<1>5. \A id \in Ids : IdInv(id)'
  <2>1. \A id \in Ids : Beside(id)
    BY <1>1 DEF Beside
  <2> QED
    BY <1>4, <2>1, BesideKeeps, SameIndex, TypeParts DEF ShardInv
<1> QED
  BY <1>2, <1>3, <1>5 DEF ShardInv

LEMMA MutateKeeps == ASSUME ShardInv, NEW id \in Ids, Mutate(id) PROVE ShardInv'
<1>1. ASSUME NEW w \in Writes, w.id = id, UpdateBegin(id, w.val, w.ws) PROVE ShardInv'
  <2>1. w.val \in Vals /\ w.ws \in Workspaces
    BY ShardAssumption
  <2> QED
    BY <1>1, <2>1, IndexStepKeeps DEF UpdateBegin
<1>2. ASSUME NEW w \in Writes, w.id = id, InsertBegin(id, w.val, w.ws, w.text) PROVE ShardInv'
  <2>1. w.val \in Vals /\ w.ws \in Workspaces /\ w.text \in Vals \cup {NoValue, "keep"}
    BY ShardAssumption
  <2> QED
    BY <1>2, <2>1, IndexStepKeeps DEF InsertBegin
<1> QED
  BY <1>1, <1>2, PersistUpsertKeeps, RollbackUpsertKeeps, ReplaceAndSyncKeeps, ProjectGraphKeeps,
     DeleteBeginKeeps, MarkDeletedKeeps, DeleteFromIndexKeeps DEF Mutate

LEMMA NextInv == ShardInv /\ [ShardNext]_shardVars => ShardInv'
BY MutateKeeps, GetKeeps, CompactKeeps, CrashKeeps, LoadSnapshotKeeps, ReloadBeginKeeps,
   ReloadOneKeeps, ReloadEndKeeps, UnchangedKeeps DEF ShardNext

(* What the invariant says between calls.                                  *)
LEMMA InvConsistent == ShardInv => ShardConsistent
<1> SUFFICES ASSUME ShardInv PROVE ShardConsistent
  OBVIOUS
<1>1. StoredIsSearchable
  BY DEF ShardInv, StoredIsSearchable, IdInv, SearchInv, Slotted, Quiet, ActiveIds
<1>2. FoundIsStored
  <2> SUFFICES ASSUME phase = "up", NEW n \in Internals, slot[n] # NoValue, n \notin tomb, op[slot[n].id] = NoValue
               PROVE  Active(slot[n].id) /\ slot[n].val = row[slot[n].id].val
    BY DEF FoundIsStored
  <2>1. slot[n].id \in Ids /\ fwd[slot[n].id] = n /\ n # NoValue
    BY NoValueAssumption DEF ShardInv, ShardTypeOK, Slots, IndexInv
  <2> QED
    BY <2>1 DEF ShardInv, IdInv, SearchInv, Quiet
<1>3. DocsFollowRows
  BY DEF ShardInv, DocsFollowRows, IdInv, TextInv, Quiet
<1>4. GraphComplete
  BY DEF ShardInv, GraphComplete, IdInv, GraphInv
<1>5. ReadsOwnVector
  BY DEF ShardInv, ReadsOwnVector, ReaderInv, Owns
<1> QED
  BY <1>1, <1>2, <1>3, <1>4, <1>5 DEF ShardConsistent, ShardInv

(* Whatever interleaves, fails and crashes, the index, the text index, the *)
(* graph and the rows of a shard agree between the calls on an id, and a   *)
(* point read never returns the vector of another id.                      *)
THEOREM ShardAlwaysConsistent == ShardSpec => []ShardConsistent
<1>1. ShardSpec => []ShardInv
  BY InitInv, NextInv, PTL DEF ShardSpec
<1> QED
  BY <1>1, InvConsistent, PTL

-----------------------------------------------------------------------------
(* The rows implement the map of VectorMap: only the step that writes the  *)
(* rows of an upsert, and the one that marks a row deleted, change it.     *)

LEMMA SameRows == ASSUME row' = row PROVE Content' = Content
BY DEF Content

LEMMA ContentOf ==
    ASSUME NEW id \in Ids
    PROVE  /\ row[id] = NoValue => Content[id] = NoValue
           /\ row[id] # NoValue => Content[id] = [val |-> row[id].val, ws |-> row[id].ws, live |-> row[id].live]
BY DEF Content

LEMMA PersistIsPut ==
    ASSUME ShardInv, NEW id \in Ids, PersistUpsert(id)
    PROVE  \E v \in Vals, ws \in Workspaces : Map!PutVector(id, v, ws)
<1> DEFINE v == op[id].val
           ws == op[id].ws
<1>1. op[id] \in Ops /\ Busy(id, {"indexed", "persisted", "text"}) /\ Busy(id, {"indexed"}) /\ ~Deleted(id)
  BY DEF ShardInv, ShardTypeOK, PersistUpsert, Busy
<1>2. v \in Vals /\ ws \in Workspaces /\ ~OwnedByOther(id, ws)
  <2>1. v \in Vals /\ ~OwnedByOther(id, ws)
    BY <1>1 DEF ShardInv, IdInv, OpInv
  <2>2. ws \in Workspaces
    BY <1>1 DEF Ops
  <2> QED
    BY <2>1, <2>2
<1>3. /\ row' = [row EXCEPT ![id] = [val |-> v, ws |-> ws, internal |-> op[id].new, live |-> TRUE]]
      /\ row \in [Ids -> Rows \cup {NoValue}] /\ row' \in [Ids -> Rows \cup {NoValue}]
  BY PersistUpsertKeeps DEF PersistUpsert, UpsertRow, ShardInv, ShardTypeOK
<1>4. row'[id] # NoValue /\ row'[id].val = v /\ row'[id].ws = ws /\ row'[id].live = TRUE
  <2>1. row'[id] = [val |-> v, ws |-> ws, internal |-> op[id].new, live |-> TRUE]
    BY <1>3
  <2>2. row'[id].val = v /\ row'[id].ws = ws /\ row'[id].live = TRUE
    BY <2>1
  <2>3. op[id].new \in Internals
    <3>1. op[id].new = fwd[id] /\ fwd[id] # NoValue
      BY <1>1 DEF ShardInv, IdInv, OpInv, Slotted
    <3> QED
      BY <3>1 DEF ShardInv, ShardTypeOK
  <2>4. row'[id] \in Rows
    BY <1>2, <2>1, <2>3 DEF Rows
  <2> QED
    BY <2>2, <2>4, NoValueAssumption
<1> HIDE DEF v, ws
<1>5. Content[id] # NoValue => Content[id].live /\ Content[id].ws = ws
  <2>1. CASE row[id] = NoValue
    BY <2>1, ContentOf
  <2>2. CASE row[id] # NoValue
    <3>1. row[id].live /\ row[id].ws = ws
      BY <1>1, <1>2, <2>2 DEF Deleted, OwnedByOther
    <3>2. Content[id] = [val |-> row[id].val, ws |-> row[id].ws, live |-> row[id].live]
      BY <2>2, ContentOf
    <3>3. Content[id].live = row[id].live /\ Content[id].ws = row[id].ws
      BY <3>2
    <3> QED
      BY <3>1, <3>3
  <2> QED
    BY <2>1, <2>2
<1>6. Content' = [Content EXCEPT ![id] = [val |-> v, ws |-> ws, live |-> TRUE]]
  BY <1>3, <1>4 DEF Content
<1> QED
  BY <1>2, <1>5, <1>6 DEF Map!PutVector, Map!Vector, Map!NoVector

LEMMA MarkIsRemove ==
    ASSUME ShardInv, NEW id \in Ids, MarkDeleted(id)
    PROVE  Map!RemoveVector(id) \/ Content' = Content
<1>1. CASE row' = row
  BY <1>1, SameRows
<1>2. CASE Active(id) /\ row' = [row EXCEPT ![id].live = FALSE]
  <2>1. row \in [Ids -> Rows \cup {NoValue}] /\ row[id] \in Rows
    BY <1>2 DEF ShardInv, ShardTypeOK, Active
  <2>2. row'[id] = [row[id] EXCEPT !.live = FALSE] /\ \A j \in Ids \ {id} : row'[j] = row[j]
    BY <1>2, <2>1
  <2>3. /\ row'[id] \in Rows /\ row'[id].live = FALSE
        /\ row'[id].val = row[id].val /\ row'[id].ws = row[id].ws
    BY <2>1, <2>2 DEF Rows
  <2>4. row'[id] # NoValue
    BY <2>3, NoValueAssumption
  <2>5. Content[id] = [val |-> row[id].val, ws |-> row[id].ws, live |-> row[id].live]
    BY <1>2, ContentOf DEF Active
  <2>6. Content[id].live
    BY <1>2, <2>5 DEF Active
  <2>7. Content' = [Content EXCEPT ![id].live = FALSE]
    <3>1. Content'[id] = [val |-> row[id].val, ws |-> row[id].ws, live |-> FALSE]
      BY <2>3, <2>4 DEF Content
    <3>2. [Content[id] EXCEPT !.live = FALSE] = [val |-> row[id].val, ws |-> row[id].ws, live |-> FALSE]
      <4>1. ASSUME NEW r \in [val : Vals, ws : Workspaces, live : BOOLEAN]
            PROVE  [r EXCEPT !.live = FALSE] = [val |-> r.val, ws |-> r.ws, live |-> FALSE]
        <5> DEFINE S == [val : Vals, ws : Workspaces, live : BOOLEAN]
                   d == [r EXCEPT !.live = FALSE]
                   e == [val |-> r.val, ws |-> r.ws, live |-> FALSE]
        <5>1. d \in S /\ d.val = r.val /\ d.ws = r.ws /\ d.live = FALSE
          OBVIOUS
        <5>2. e \in S /\ e.val = r.val /\ e.ws = r.ws /\ e.live = FALSE
          OBVIOUS
        <5> HIDE DEF d, e
        <5>3. \A x, y \in S : x.val = y.val /\ x.ws = y.ws /\ x.live = y.live => x = y
          OBVIOUS
        <5>4. d = e
          BY <5>1, <5>2, <5>3
        <5> QED
          BY <5>4 DEF d, e
      <4>2. row[id].val \in Vals /\ row[id].ws \in Workspaces /\ row[id].live \in BOOLEAN
        BY <2>1 DEF Rows
      <4>3. Content[id] \in [val : Vals, ws : Workspaces, live : BOOLEAN]
        BY <2>5, <4>2
      <4>4. Content[id].val = row[id].val /\ Content[id].ws = row[id].ws
        BY <2>5
      <4> QED
        BY <4>1, <4>3, <4>4
    <3>3. \A j \in Ids \ {id} : Content'[j] = Content[j]
      BY <2>2 DEF Content
    <3>4. Content = [j \in Ids |-> Content[j]] /\ Content' = [j \in Ids |-> Content'[j]]
      BY DEF Content
    <3> HIDE DEF Content
    <3> QED
      BY <3>1, <3>2, <3>3, <3>4
  <2>8. Content[id] # NoValue
    <3>1. row[id].val \in Vals /\ row[id].ws \in Workspaces /\ row[id].live \in BOOLEAN
      BY <2>1 DEF Rows
    <3>2. Content[id] \in [val : Vals, ws : Workspaces, live : BOOLEAN]
      BY <2>5, <3>1
    <3> QED
      BY <3>2, NoValueAssumption
  <2> QED
    BY <2>6, <2>7, <2>8 DEF Map!RemoveVector, Map!NoVector
<1> QED
  BY <1>1, <1>2 DEF MarkDeleted

LEMMA ReloadKeepsContent == ASSUME ShardInv, ReloadOne PROVE Content' = Content
<1>1. PICK id \in Ids : /\ Active(id) /\ fwd[id] = NoValue /\ IndexInsert(id, row[id].val)
                        /\ UpsertRow(id, nextId, row[id].val, row[id].ws, "keep")
  BY ReloadOnePicks, ShardAssumption
<1>2. row \in [Ids -> Rows \cup {NoValue}] /\ row' \in [Ids -> Rows \cup {NoValue}]
  BY ReloadOneKeeps DEF ShardInv, ShardTypeOK
<1>3. row' = [row EXCEPT ![id] = [val |-> row[id].val, ws |-> row[id].ws, internal |-> nextId, live |-> TRUE]]
  BY <1>1 DEF UpsertRow
<1>4. row'[id] = [val |-> row[id].val, ws |-> row[id].ws, internal |-> nextId, live |-> TRUE]
  BY <1>2, <1>3
<1>5. row'[id] \in Rows /\ row[id] \in Rows
  <2>1. nextId \in Internals
    BY <1>1, ShardAssumption DEF ShardInv, ShardTypeOK, IndexInsert, TargetOf, Internals
  <2>2. row[id] \in Rows
    BY <1>1, <1>2 DEF Active
  <2> QED
    BY <1>4, <2>1, <2>2 DEF Rows
<1>6. row'[id].val = row[id].val /\ row'[id].ws = row[id].ws /\ row'[id].live = row[id].live
  <2>1. row[id].live = TRUE
    BY <1>1, <1>5 DEF Active, Rows
  <2>2. row'[id].val = row[id].val /\ row'[id].ws = row[id].ws /\ row'[id].live = TRUE
    BY <1>4
  <2> QED
    BY <2>1, <2>2
<1>7. \A j \in Ids \ {id} : row'[j] = row[j]
  BY <1>2, <1>3
<1>8. row'[id] # NoValue /\ row[id] # NoValue
  BY <1>5, NoValueAssumption
<1> QED
  BY <1>6, <1>7, <1>8 DEF Content

LEMMA InitIsMap == ShardInit => Map!MapInit
BY DEF ShardInit, Map!MapInit, Map!NoVector, Content

LEMMA NextIsMap == ShardInv /\ [ShardNext]_shardVars => [Map!MapNext]_Content
<1> SUFFICES ASSUME ShardInv, [ShardNext]_shardVars PROVE Map!MapNext \/ Content' = Content
  OBVIOUS
<1>1. CASE UNCHANGED shardVars
  BY <1>1, SameRows DEF shardVars
<1>2. ASSUME NEW id \in Ids, Mutate(id) PROVE Map!MapNext \/ Content' = Content
  <2>1. CASE PersistUpsert(id)
    BY <2>1, PersistIsPut DEF Map!MapNext
  <2>2. CASE MarkDeleted(id)
    BY <2>2, MarkIsRemove DEF Map!MapNext
  <2>3. CASE row' = row
    BY <2>3, SameRows
  <2> QED
    BY <1>2, <2>1, <2>2, <2>3 DEF Mutate, UpdateBegin, InsertBegin, IndexStep, RollbackUpsert, ReplaceAndSync,
       ProjectGraph, DeleteBegin, DeleteFromIndex, shardRows
<1>3. CASE ReloadOne
  BY <1>3, ReloadKeepsContent
<1>4. CASE \/ \E id \in Ids, ws \in Workspaces : GetBegin(id, ws)
           \/ GetEnd \/ Compact \/ Crash \/ LoadSnapshot \/ ReloadBegin \/ ReloadEnd
  <2>1. row' = row
    BY <1>4 DEF GetBegin, GetEnd, Compact, Crash, LoadSnapshot, ReloadBegin, ReloadEnd, shardRows
  <2> QED
    BY <2>1, SameRows
<1> QED
  BY <1>1, <1>2, <1>3, <1>4 DEF ShardNext

(* Through its index, its crashes and its renumbering reloads, a shard is  *)
(* to its clients a map in which a deleted id stays deleted and an id      *)
(* keeps its workspace.                                                    *)
THEOREM ShardImplementsMap == ShardSpec => ImplementsMap
<1>1. ShardSpec => []ShardInv
  BY InitInv, NextInv, PTL DEF ShardSpec
<1>2. ShardInit => Map!MapInit
  BY InitIsMap
<1>3. ShardInv /\ [ShardNext]_shardVars => [Map!MapNext]_Content
  BY NextIsMap
<1> QED
  BY <1>1, <1>2, <1>3, PTL DEF ShardSpec, ImplementsMap, Map!MapSpec

-----------------------------------------------------------------------------
(* The start of a shard from its snapshot.  A snapshot is only loaded when *)
(* its manifest has the fingerprint of the rows as they are now: so what   *)
(* has to hold of a directory, wherever it was left, is that the index its *)
(* manifest describes served the rows of the manifest's fingerprint.       *)

SnapRows == [SnapIds -> [int : Nat, vec : SnapVecs] \cup {Absent}]
PayloadOf(r) == {<<i, r[i].int, r[i].vec>> : i \in {j \in SnapIds : r[j] # Absent}}

(* The maps of an index agree: ids have slots of their own, with vectors.  *)
WellIndexed(map, vec, next) ==
    /\ next \in Nat
    /\ \A i \in DOMAIN map : map[i] \in Nat /\ map[i] < next /\ map[i] \in DOMAIN vec
    /\ \A i, j \in DOMAIN map : map[i] = map[j] => i = j

(* The index answers for an id with its row, or not at all.                *)
ServesId(map, vec, dels, r, i) ==
    IF r[i] # Absent
    THEN i \in DOMAIN map /\ map[i] = r[i].int /\ vec[map[i]] = r[i].vec /\ map[i] \notin dels
    ELSE i \notin DOMAIN map \/ map[i] \in dels
ServesAll(map, vec, dels, r) == \A i \in SnapIds : ServesId(map, vec, dels, r, i)

ManifestFits(m) ==
    \E r \in SnapRows : /\ m.payload = PayloadOf(r) /\ WellIndexed(m.mappings, m.graph, m.next)
                        /\ ServesAll(m.mappings, m.graph, m.tombstones, r)
DirectoryFits(d) == "manifest" \in DOMAIN d /\ (d.manifest # Absent => ManifestFits(d.manifest))

Saving == {"save", "drop_backup", "move_aside", "publish"}

HnswInv ==
    /\ rows \in SnapRows
    /\ dest # Absent => DirectoryFits(dest)
    /\ bak # Absent => DirectoryFits(bak)
    /\ \A p \in DOMAIN stagedDir : DirectoryFits(stagedDir[p])
    /\ snapPhase \in {"down", "open", "reload", "up", "tidy"} \cup Saving
    /\ snapPhase \in Saving => pid \in DOMAIN stagedDir
    /\ snapPhase \in {"reload", "up", "tidy"} \cup Saving =>
          /\ idx = [map |-> idx.map, vec |-> idx.vec, tomb |-> idx.tomb, next |-> idx.next]
          /\ WellIndexed(idx.map, idx.vec, idx.next)
    /\ snapPhase \in {"up", "tidy"} \cup Saving => ServesAll(idx.map, idx.vec, idx.tomb, rows)
    /\ snapPhase = "reload" =>
          /\ todo \subseteq ActiveRows /\ idx.tomb = {}
          /\ \A i \in SnapIds \ todo : ServesId(idx.map, idx.vec, idx.tomb, rows, i)

LEMMA PayloadNames ==
    ASSUME NEW r \in SnapRows, NEW q \in SnapRows, PayloadOf(r) = PayloadOf(q), NEW i \in SnapIds, r[i] # Absent
    PROVE  q[i] # Absent /\ q[i].int = r[i].int /\ q[i].vec = r[i].vec
<1>1. <<i, r[i].int, r[i].vec>> \in PayloadOf(q)
  BY Zenon DEF PayloadOf
<1>2. PICK j \in SnapIds : q[j] # Absent /\ <<i, r[i].int, r[i].vec>> = <<j, q[j].int, q[j].vec>>
  BY <1>1, Zenon DEF PayloadOf
<1> QED BY <1>2

(* The fingerprint tells the rows apart.                                   *)
LEMMA SameServed ==
    ASSUME NEW r \in SnapRows, NEW q \in SnapRows, PayloadOf(r) = PayloadOf(q)
    PROVE  \A map, vec, dels : ServesAll(map, vec, dels, r) => ServesAll(map, vec, dels, q)
<1> SUFFICES ASSUME NEW map, NEW vec, NEW dels, ServesAll(map, vec, dels, r) PROVE ServesAll(map, vec, dels, q)
  OBVIOUS
<1> SUFFICES ASSUME NEW i \in SnapIds PROVE ServesId(map, vec, dels, q, i)
  BY DEF ServesAll
<1>1. ServesId(map, vec, dels, r, i)
  BY DEF ServesAll
<1>2. CASE r[i] # Absent
  BY <1>1, <1>2, PayloadNames DEF ServesId
<1>3. CASE r[i] = Absent
  <2>1. q[i] = Absent
    BY <1>3, PayloadNames
  <2> QED BY <1>1, <1>3, <2>1 DEF ServesId
<1> QED BY <1>2, <1>3

LEMMA PutParts ==
    ASSUME NEW x, NEW i, NEW v
    PROVE  LET n == IF i \in DOMAIN x.map THEN x.map[i] ELSE x.next
               y == IndexPut(x, i, v)
           IN  /\ y = [map |-> y.map, vec |-> y.vec, tomb |-> y.tomb, next |-> y.next]
               /\ DOMAIN y.map = DOMAIN x.map \cup {i} /\ DOMAIN y.vec = DOMAIN x.vec \cup {n}
               /\ y.map[i] = n /\ \A j \in DOMAIN x.map : j # i => y.map[j] = x.map[j]
               /\ y.vec[n] = v /\ \A k \in DOMAIN x.vec : k # n => y.vec[k] = x.vec[k]
               /\ y.tomb = x.tomb \ {n}
               /\ y.next = IF i \in DOMAIN x.map THEN x.next ELSE x.next + 1
<1> DEFINE n == IF i \in DOMAIN x.map THEN x.map[i] ELSE x.next
           y == IndexPut(x, i, v)
<1>1. y = [map |-> MapWith(x.map, i, n), vec |-> MapWith(x.vec, n, v), tomb |-> x.tomb \ {n},
           next |-> IF i \in DOMAIN x.map THEN x.next ELSE x.next + 1]
  BY DEF IndexPut
<1> HIDE DEF n, y
<1>2. /\ y.map = MapWith(x.map, i, n) /\ y.vec = MapWith(x.vec, n, v) /\ y.tomb = x.tomb \ {n}
      /\ y.next = IF i \in DOMAIN x.map THEN x.next ELSE x.next + 1
      /\ y = [map |-> y.map, vec |-> y.vec, tomb |-> y.tomb, next |-> y.next]
  BY <1>1
<1>3. /\ DOMAIN y.map = DOMAIN x.map \cup {i} /\ DOMAIN y.vec = DOMAIN x.vec \cup {n}
      /\ y.map[i] = n /\ \A j \in DOMAIN x.map : j # i => y.map[j] = x.map[j]
      /\ y.vec[n] = v /\ \A k \in DOMAIN x.vec : k # n => y.vec[k] = x.vec[k]
  BY <1>2 DEF MapWith
<1> QED BY <1>2, <1>3 DEF n, y

PutsInto(x, i, v, y) == i \in SnapIds /\ WellIndexed(x.map, x.vec, x.next) /\ y = IndexPut(x, i, v)

(* A vector that is put gets a slot of its own and disturbs no other id.   *)
LEMMA PutServes ==
    ASSUME NEW x, NEW i, NEW v, NEW y, PutsInto(x, i, v, y)
    PROVE  /\ y = [map |-> y.map, vec |-> y.vec, tomb |-> y.tomb, next |-> y.next]
           /\ WellIndexed(y.map, y.vec, y.next) /\ y.tomb \subseteq x.tomb
           /\ i \in DOMAIN y.map /\ y.map[i] \in Nat /\ y.vec[y.map[i]] = v /\ y.map[i] \notin y.tomb
           /\ \A r, q : \A j \in SnapIds : j # i /\ q[j] = r[j] /\ ServesId(x.map, x.vec, x.tomb, r, j)
                           => ServesId(y.map, y.vec, y.tomb, q, j)
<1> DEFINE n == IF i \in DOMAIN x.map THEN x.map[i] ELSE x.next
<1>0. WellIndexed(x.map, x.vec, x.next) /\ y = IndexPut(x, i, v)
  BY DEF PutsInto
<1>1. /\ y = [map |-> y.map, vec |-> y.vec, tomb |-> y.tomb, next |-> y.next]
      /\ DOMAIN y.map = DOMAIN x.map \cup {i} /\ DOMAIN y.vec = DOMAIN x.vec \cup {n}
      /\ y.map[i] = n /\ \A j \in DOMAIN x.map : j # i => y.map[j] = x.map[j]
      /\ y.vec[n] = v /\ \A k \in DOMAIN x.vec : k # n => y.vec[k] = x.vec[k]
      /\ y.tomb = x.tomb \ {n}
      /\ y.next = IF i \in DOMAIN x.map THEN x.next ELSE x.next + 1
  BY <1>0, PutParts
<1>2. n \in Nat /\ \A j \in DOMAIN x.map : j # i => x.map[j] # n
  BY <1>0 DEF WellIndexed
<1>3. n < y.next /\ y.next \in Nat /\ \A j \in DOMAIN x.map : x.map[j] < y.next
  BY <1>0, <1>1 DEF WellIndexed
<1> HIDE DEF n
<1>4. WellIndexed(y.map, y.vec, y.next)
  BY <1>0, <1>1, <1>2, <1>3 DEF WellIndexed
<1>5. ASSUME NEW r, NEW q, NEW j \in SnapIds, j # i, q[j] = r[j], ServesId(x.map, x.vec, x.tomb, r, j)
      PROVE  ServesId(y.map, y.vec, y.tomb, q, j)
  BY <1>0, <1>1, <1>2, <1>5 DEF ServesId, WellIndexed
<1> QED BY <1>1, <1>2, <1>4, <1>5

Deletes(x, r, i, y, q) ==
    /\ x = [map |-> x.map, vec |-> x.vec, tomb |-> x.tomb, next |-> x.next]
    /\ WellIndexed(x.map, x.vec, x.next) /\ r \in SnapRows /\ i \in SnapIds /\ r[i] # Absent
    /\ ServesAll(x.map, x.vec, x.tomb, r) /\ y = MarkTomb(x, r[i].int) /\ q = [r EXCEPT ![i] = Absent]

(* A deleted id is not served, and no other is lost with it.               *)
LEMMA TombServes ==
    ASSUME NEW x, NEW r, NEW i, NEW y, NEW q, Deletes(x, r, i, y, q)
    PROVE  /\ y = [map |-> y.map, vec |-> y.vec, tomb |-> y.tomb, next |-> y.next]
           /\ WellIndexed(y.map, y.vec, y.next) /\ ServesAll(y.map, y.vec, y.tomb, q) /\ q \in SnapRows
<1>1. /\ y.map = x.map /\ y.vec = x.vec /\ y.next = x.next /\ y.tomb = x.tomb \cup {r[i].int}
      /\ y = [map |-> y.map, vec |-> y.vec, tomb |-> y.tomb, next |-> y.next]
  BY DEF Deletes, MarkTomb
<1>2. q \in SnapRows /\ q[i] = Absent /\ \A j \in SnapIds : j # i => q[j] = r[j]
  BY DEF Deletes, SnapRows
<1>3. i \in DOMAIN x.map /\ x.map[i] = r[i].int
  BY DEF Deletes, ServesAll, ServesId
<1>4. ASSUME NEW j \in SnapIds PROVE ServesId(y.map, y.vec, y.tomb, q, j)
  <2>1. ServesId(x.map, x.vec, x.tomb, r, j)
    BY DEF Deletes, ServesAll
  <2>2. CASE j = i
    BY <1>1, <1>2, <1>3, <2>2 DEF ServesId
  <2>3. CASE j # i
    <3>1. j \in DOMAIN x.map => x.map[j] # r[i].int
      BY <1>3, <2>3 DEF Deletes, WellIndexed
    <3> QED BY <1>1, <1>2, <2>1, <2>3, <3>1 DEF ServesId
  <2> QED BY <2>2, <2>3
<1> QED BY <1>1, <1>2, <1>4 DEF Deletes, ServesAll

LEMMA PayloadIs == Payload = PayloadOf(rows)
BY DEF Payload, PayloadOf, ActiveRows

LEMMA SnapStarts == SnapInit => HnswInv
<1> SUFFICES ASSUME SnapInit PROVE HnswInv
  OBVIOUS
<1>1. rows \in SnapRows
  BY DEF SnapInit, SnapRows
<1>2. DOMAIN stagedDir = {} /\ dest = Absent /\ bak = Absent /\ snapPhase = "down"
  BY DEF SnapInit
<1> QED BY <1>1, <1>2 DEF HnswInv, Saving

(* The writing of a file: the manifest describes the index that serves.    *)
LEMMA WriteFits ==
    ASSUME HnswInv, WriteSnapshotFile
    PROVE  HnswInv'
<1> DEFINE f == NextFile
           d == stagedDir[pid]
           e == [d EXCEPT ![f] = FileOf(f)]
           m == ManifestOf(idx, [graph |-> idx.vec, mappings |-> idx.map, tombstones |-> idx.tomb,
                                 exact |-> ExactFile(idx)])
<1>1. /\ pid \in DOMAIN stagedDir /\ DirectoryFits(d) /\ snapPhase = "save" /\ rows \in SnapRows
      /\ WellIndexed(idx.map, idx.vec, idx.next) /\ ServesAll(idx.map, idx.vec, idx.tomb, rows)
  BY DEF HnswInv, WriteSnapshotFile, Saving
<1>2. /\ m.payload = PayloadOf(rows) /\ m.mappings = idx.map /\ m.graph = idx.vec
      /\ m.tombstones = idx.tomb /\ m.next = idx.next
  BY PayloadIs DEF ManifestOf
<1>3. ManifestFits(m)
  <2> HIDE DEF m
  <2> QED BY <1>1, <1>2 DEF ManifestFits
<1>4. DirectoryFits(e)
  <2> HIDE DEF m
  <2>1. f = "manifest" => FileOf(f) = m
    BY DEF FileOf, m
  <2> HIDE DEF f
  <2>2. "manifest" \in DOMAIN e /\ e.manifest = IF f = "manifest" THEN FileOf(f) ELSE d.manifest
    BY <1>1 DEF DirectoryFits
  <2> HIDE DEF e, d
  <2> QED BY <1>1, <1>3, <2>1, <2>2 DEF DirectoryFits
<1>5. /\ stagedDir' = [stagedDir EXCEPT ![pid] = e] /\ snapPhase' \in {"save", "drop_backup"}
      /\ UNCHANGED <<rows, dest, bak, idx, pid, conf, todo, started>>
  BY DEF WriteSnapshotFile, Store
<1> HIDE DEF e, d, f, m
<1>6. DOMAIN stagedDir' = DOMAIN stagedDir /\ \A p \in DOMAIN stagedDir' : DirectoryFits(stagedDir'[p])
  <2>1. \A p \in DOMAIN stagedDir : DirectoryFits(stagedDir[p])
    BY DEF HnswInv
  <2> QED BY <1>1, <1>4, <1>5, <2>1
<1> QED BY <1>1, <1>5, <1>6 DEF HnswInv, Saving

(* The start: a snapshot is trusted only when its fingerprint is that of   *)
(* the rows.                                                               *)
LEMMA OpenServes ==
    ASSUME HnswInv, OpenIndex
    PROVE  HnswInv'
<1>0. UNCHANGED <<rows, dest, bak, stagedDir, pid, conf>> /\ rows \in SnapRows
  BY DEF HnswInv, OpenIndex, Files, Store
<1>1. CASE dest # Absent /\ dest.manifest # Absent /\ Loadable(dest) /\ MapsStored(Loaded(dest))
  <2> DEFINE m == dest.manifest
  <2>1. ManifestFits(m) /\ m.payload = PayloadOf(rows)
    BY <1>1, PayloadIs DEF HnswInv, DirectoryFits, Loadable
  <2>2. PICK r \in SnapRows : /\ m.payload = PayloadOf(r) /\ WellIndexed(m.mappings, m.graph, m.next)
                              /\ ServesAll(m.mappings, m.graph, m.tombstones, r)
    BY <2>1 DEF ManifestFits
  <2>3. ServesAll(m.mappings, m.graph, m.tombstones, rows)
    <3>1. \A map, vec, dels : ServesAll(map, vec, dels, r) => ServesAll(map, vec, dels, rows)
      BY <1>0, <2>1, <2>2, SameServed
    <3> QED BY <2>2, <3>1
  <2>4. dest.graph = m.graph /\ dest.mappings = m.mappings /\ dest.tombstones = m.tombstones
    BY <1>1 DEF Loadable, DigestsHold
  <2>5. idx' = Loaded(dest) /\ snapPhase' = "up"
    BY <1>1 DEF OpenIndex
  <2>6. /\ idx'.map = m.mappings /\ idx'.vec = m.graph /\ idx'.tomb = m.tombstones /\ idx'.next = m.next
        /\ idx' = [map |-> idx'.map, vec |-> idx'.vec, tomb |-> idx'.tomb, next |-> idx'.next]
    BY <2>4, <2>5 DEF Loaded
  <2> HIDE DEF m
  <2>7. WellIndexed(idx'.map, idx'.vec, idx'.next) /\ ServesAll(idx'.map, idx'.vec, idx'.tomb, rows')
    BY <1>0, <2>2, <2>3, <2>6
  <2> QED BY <1>0, <2>5, <2>6, <2>7 DEF HnswInv, Saving
<1>2. CASE ~(dest # Absent /\ dest.manifest # Absent /\ Loadable(dest) /\ MapsStored(Loaded(dest)))
  <2>1. idx' = NewIndex /\ snapPhase' = "reload" /\ todo' = ActiveRows
    BY <1>2 DEF OpenIndex
  <2>2. /\ DOMAIN idx'.map = {} /\ idx'.tomb = {} /\ idx'.next = 0
        /\ idx' = [map |-> idx'.map, vec |-> idx'.vec, tomb |-> idx'.tomb, next |-> idx'.next]
    BY <2>1 DEF NewIndex
  <2>3. WellIndexed(idx'.map, idx'.vec, idx'.next)
    BY <2>2 DEF WellIndexed
  <2>4. \A i \in SnapIds \ todo' : ServesId(idx'.map, idx'.vec, idx'.tomb, rows', i)
    BY <1>0, <2>1, <2>2 DEF ServesId, ActiveRows
  <2>5. todo' \subseteq ActiveRows'
    BY <1>0, <2>1 DEF ActiveRows
  <2> QED BY <1>0, <2>1, <2>2, <2>3, <2>4, <2>5 DEF HnswInv, Saving
<1> QED BY <1>1, <1>2

LEMMA ReloadServes ==
    ASSUME HnswInv, ReloadVector
    PROVE  HnswInv'
<1> DEFINE i == CHOOSE x \in todo : TRUE
           y == IndexPut(idx, i, rows[i].vec)
<1>1. /\ i \in todo /\ todo \subseteq ActiveRows /\ rows \in SnapRows /\ idx.tomb = {}
      /\ WellIndexed(idx.map, idx.vec, idx.next) /\ snapPhase = "reload"
      /\ \A j \in SnapIds \ todo : ServesId(idx.map, idx.vec, idx.tomb, rows, j)
  BY DEF HnswInv, ReloadVector
<1>2. /\ idx' = y /\ rows' = [rows EXCEPT ![i].int = y.map[i]] /\ todo' = todo \ {i}
      /\ UNCHANGED <<dest, bak, stagedDir, pid, snapPhase>>
  BY DEF ReloadVector, Files
<1> HIDE DEF i
<1>3. i \in SnapIds /\ rows[i] \in [int : Nat, vec : SnapVecs]
  BY <1>1 DEF ActiveRows, SnapRows
<1>4. /\ y = [map |-> y.map, vec |-> y.vec, tomb |-> y.tomb, next |-> y.next]
      /\ WellIndexed(y.map, y.vec, y.next) /\ y.tomb \subseteq idx.tomb
      /\ i \in DOMAIN y.map /\ y.map[i] \in Nat /\ y.vec[y.map[i]] = rows[i].vec /\ y.map[i] \notin y.tomb
      /\ \A r, q : \A j \in SnapIds : j # i /\ q[j] = r[j] /\ ServesId(idx.map, idx.vec, idx.tomb, r, j)
                           => ServesId(y.map, y.vec, y.tomb, q, j)
  <2>1. PutsInto(idx, i, rows[i].vec, y)
    BY <1>1, <1>3 DEF PutsInto
  <2> HIDE DEF y
  <2> QED BY <2>1, PutServes
<1> HIDE DEF y
<1>5. /\ rows'[i] \in [int : Nat, vec : SnapVecs] /\ rows'[i].int = y.map[i] /\ rows'[i].vec = rows[i].vec
      /\ rows' \in SnapRows /\ \A j \in SnapIds : j # i => rows'[j] = rows[j]
  BY <1>1, <1>2, <1>3, <1>4 DEF SnapRows
<1>6. rows'[i] # Absent
  BY <1>5, SnapAssumption
<1>7. ServesId(y.map, y.vec, y.tomb, rows', i)
  BY <1>4, <1>5, <1>6 DEF ServesId
<1>8. \A j \in SnapIds \ todo' : ServesId(idx'.map, idx'.vec, idx'.tomb, rows', j)
  BY <1>1, <1>2, <1>4, <1>5, <1>7
<1>9. todo' \subseteq ActiveRows' /\ idx'.tomb = {}
  BY <1>1, <1>2, <1>4, <1>5, <1>6 DEF ActiveRows
<1> QED BY <1>1, <1>2, <1>4, <1>5, <1>8, <1>9 DEF HnswInv, Saving

LEMMA SnapSteps == HnswInv /\ [SnapNext]_snapVars => HnswInv'
<1> SUFFICES ASSUME HnswInv, [SnapNext]_snapVars PROVE HnswInv'
  OBVIOUS
<1>1. ASSUME NEW c \in Confs, NEW p \in 1..2, Start(c, p) PROVE HnswInv'
  BY <1>1 DEF HnswInv, Start, Files, Store, Saving
<1>2. CASE OpenIndex
  BY <1>2, OpenServes
<1>3. CASE ReloadVector
  BY <1>3, ReloadServes
<1>4. CASE ReloadDone
  <2>1. /\ UNCHANGED <<rows, dest, bak, idx, pid, todo>> /\ snapPhase = "reload" /\ todo = {}
        /\ \/ snapPhase' = "save" /\ stagedDir' = MapWith(stagedDir, pid, EmptyDir)
           \/ snapPhase' = "up" /\ stagedDir' = stagedDir
    BY <1>4 DEF ReloadDone, Store
  <2>2. ServesAll(idx.map, idx.vec, idx.tomb, rows)
    BY <2>1 DEF HnswInv, ServesAll
  <2>3. DirectoryFits(EmptyDir)
    BY DEF DirectoryFits, EmptyDir
  <2>4. \A p \in DOMAIN stagedDir' : DirectoryFits(stagedDir'[p])
    BY <2>1, <2>3 DEF HnswInv, MapWith
  <2>5. snapPhase' = "save" => pid \in DOMAIN stagedDir'
    BY <2>1 DEF MapWith
  <2> QED BY <2>1, <2>2, <2>4, <2>5 DEF HnswInv, Saving
<1>5. CASE WriteSnapshotFile
  BY <1>5, WriteFits
<1>6. CASE SaveFails
  BY <1>6 DEF HnswInv, SaveFails, Unstaged, Store, Saving
<1>7. CASE DropBackup
  BY <1>7 DEF HnswInv, DropBackup, Store, Saving
<1>8. CASE MoveAside
  BY <1>8 DEF HnswInv, MoveAside, Store, Saving
<1>9. CASE PublishDirectory
  BY <1>9 DEF HnswInv, PublishDirectory, Unstaged, Mine, Store, Saving
<1>10. CASE TidyBackup
  BY <1>10 DEF HnswInv, TidyBackup, Store, Saving
<1>11. ASSUME NEW i \in SnapIds, NEW v \in SnapVecs, UpsertVector(i, v) PROVE HnswInv'
  <2> DEFINE y == IndexPut(idx, i, v)
  <2>1. /\ idx' = y /\ rows' = [rows EXCEPT ![i] = [int |-> y.map[i], vec |-> v]] /\ snapPhase = "up"
        /\ UNCHANGED <<dest, bak, stagedDir, pid, snapPhase, todo>>
    BY <1>11 DEF UpsertVector, Files
  <2>2. /\ rows \in SnapRows /\ WellIndexed(idx.map, idx.vec, idx.next)
        /\ ServesAll(idx.map, idx.vec, idx.tomb, rows)
    BY <2>1 DEF HnswInv
  <2>3. /\ y = [map |-> y.map, vec |-> y.vec, tomb |-> y.tomb, next |-> y.next]
        /\ WellIndexed(y.map, y.vec, y.next)
        /\ i \in DOMAIN y.map /\ y.map[i] \in Nat /\ y.vec[y.map[i]] = v /\ y.map[i] \notin y.tomb
        /\ \A r, q : \A j \in SnapIds : j # i /\ q[j] = r[j] /\ ServesId(idx.map, idx.vec, idx.tomb, r, j)
                             => ServesId(y.map, y.vec, y.tomb, q, j)
    <3>1. PutsInto(idx, i, v, y)
      BY <2>2 DEF PutsInto
    <3> HIDE DEF y
    <3> QED BY <3>1, PutServes
  <2> HIDE DEF y
  <2>4. /\ rows'[i] = [int |-> y.map[i], vec |-> v] /\ rows' \in SnapRows
        /\ \A j \in SnapIds : j # i => rows'[j] = rows[j]
    BY <2>1, <2>2, <2>3 DEF SnapRows
  <2>5. rows'[i] # Absent
    BY <2>3, <2>4, SnapAssumption
  <2>6. ServesId(y.map, y.vec, y.tomb, rows', i)
    BY <2>3, <2>4, <2>5 DEF ServesId
  <2>7. ServesAll(y.map, y.vec, y.tomb, rows')
    BY <2>2, <2>3, <2>4, <2>6 DEF ServesAll
  <2> QED BY <2>1, <2>3, <2>4, <2>7 DEF HnswInv, Saving
<1>12. ASSUME NEW i \in SnapIds, DeleteVector(i) PROVE HnswInv'
  <2>1. /\ idx' = MarkTomb(idx, rows[i].int) /\ rows' = [rows EXCEPT ![i] = Absent] /\ snapPhase = "up"
        /\ rows[i] # Absent /\ UNCHANGED <<dest, bak, stagedDir, pid, snapPhase, todo>>
    BY <1>12 DEF DeleteVector, Files
  <2>2. /\ rows \in SnapRows /\ WellIndexed(idx.map, idx.vec, idx.next)
        /\ idx = [map |-> idx.map, vec |-> idx.vec, tomb |-> idx.tomb, next |-> idx.next]
        /\ ServesAll(idx.map, idx.vec, idx.tomb, rows)
    BY <2>1 DEF HnswInv
  <2>3. /\ idx' = [map |-> idx'.map, vec |-> idx'.vec, tomb |-> idx'.tomb, next |-> idx'.next]
        /\ WellIndexed(idx'.map, idx'.vec, idx'.next) /\ ServesAll(idx'.map, idx'.vec, idx'.tomb, rows')
        /\ rows' \in SnapRows
    <3>1. Deletes(idx, rows, i, idx', rows')
      BY <2>1, <2>2 DEF Deletes
    <3> QED BY <3>1, TombServes
  <2> QED BY <2>1, <2>3 DEF HnswInv, Saving
<1>13. CASE Die
  BY <1>13 DEF HnswInv, Die, Files, Store, Saving
<1>14. ASSUME NEW f \in {"graph", "mappings", "exact"}, Rot(f) PROVE HnswInv'
  <2>1. /\ dest # Absent /\ dest' = [dest EXCEPT ![f] = Absent] /\ snapPhase = "down"
        /\ UNCHANGED <<rows, bak, stagedDir, idx, pid, snapPhase, todo>>
    BY <1>14 DEF Rot, Store
  <2>2. DirectoryFits(dest')
    BY <2>1 DEF HnswInv, DirectoryFits
  <2> QED BY <2>1, <2>2 DEF HnswInv, Saving
<1>15. CASE UNCHANGED snapVars
  BY <1>15 DEF snapVars, HnswInv, ActiveRows
<1> QED BY <1>1, <1>2, <1>3, <1>4, <1>5, <1>6, <1>7, <1>8, <1>9, <1>10, <1>11, <1>12, <1>13, <1>14, <1>15
        DEF SnapNext

(* build_service: whatever was published, crashed through, rotted or       *)
(* configured otherwise since, a shard that serves answers with exactly    *)
(* its stored vectors, and every row names the slot that holds its vector. *)
THEOREM StartsAlwaysDurable == SnapSpec => []StartsWithDurable
<1>1. HnswInv => StartsWithDurable
  BY DEF HnswInv, StartsWithDurable, ServesAll, ServesId
<1> QED BY <1>1, SnapStarts, SnapSteps, PTL DEF SnapSpec
=============================================================================
