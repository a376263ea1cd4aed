--------------------------- MODULE ServiceProofs ----------------------------
(***************************************************************************)
(* Proofs about the coordinator's writes, searches and limits for every    *)
(* number of shards, ids, clients and requests and every limit; about the  *)
(* webhook events for every queue, number of callers and retries; about    *)
(* the manifest of ingested objects for every set of keys and every        *)
(* threshold; about the ingestion for all messages and documents; and      *)
(* about the gate of a shard for all calls, permits and spools.            *)
(***************************************************************************)
EXTENDS FanoutWrites, FanoutSearch, CoordinatorLimits, WebhookDelivery, DocumentLifecycle,
        IngestionPipeline, RequestAdmission, FiniteSetTheorems, SequenceTheorems,
        WellFoundedInduction, TLAPS

-----------------------------------------------------------------------------
(* Writes.  A call that runs alone on its ids owns their rows: what it     *)
(* asked and was told is what the shards hold, until it returns.           *)

Asks == [kind : {"put", "del"}, id : WIds, shard : WShards]
PutOps == {"insert", "update", "batch"}
CallRecords == [op : PutOps \cup {"cleanup", "delete"}, ids : SUBSET WIds, val : Nat,
                asks : SUBSET Asks, failed : SUBSET WIds, alone : BOOLEAN]
RowTypes == [WShards -> [WIds -> [st : {"none", "live", "dead"}, val : Nat]]]

WritesTypes ==
    /\ rows \in RowTypes /\ calls \in Nat
    /\ call \in [Clients -> CallRecords \cup {NoCalls}]
    /\ stray \subseteq [kind : {"put", "del"}, id : WIds, shard : WShards, val : Nat]
    /\ tracked \in [WIds -> [shard : WShards, age : Nat] \cup {Nobody}]
    /\ \A id \in WIds : tracked[id] # Nobody => tracked[id].shard = Home[id]

(* The requests of a call are those of its operation, on its ids.          *)
AsksFit(k) ==
    \A r \in k.asks :
        /\ r.id \in k.ids
        /\ k.op \in PutOps => r.kind = "put" /\ r.shard = Home[r.id]
        /\ k.op \in {"cleanup", "delete"} => r.kind = "del"
        /\ k.op = "cleanup" => r.shard # Home[r.id]

(* What a call that runs alone knows of an id none of whose requests has   *)
(* failed.                                                                 *)
PutDone(k, id, rw) == rw[Home[id]][id] = Row("live", k.val)
Told(k, id, rw, st) ==
    id \notin k.failed =>
        /\ \A r \in st : r.id # id
        /\ k.op \in PutOps /\ Ask("put", id, Home[id]) \notin k.asks => PutDone(k, id, rw)
        /\ k.op = "cleanup" => PutDone(k, id, rw)
        /\ k.op = "cleanup" => \A s \in Others(id) : Ask("del", id, s) \notin k.asks => ~Live(rw[s][id])
        /\ k.op = "delete" => \A s \in WShards : Ask("del", id, s) \notin k.asks => ~Live(rw[s][id])

CallsFit == \A c \in Clients : call[c].op # "none" => AsksFit(call[c])
AloneTold ==
    \A c \in Clients : call[c].op # "none" /\ call[c].alone =>
        \A id \in call[c].ids :
            /\ \A d \in Clients : call[d].op # "none" /\ id \in call[d].ids => d = c
            /\ Told(call[c], id, rows, stray)

(* A promise stands as long as nobody writes the id.                       *)
Stands(p, id, rw) ==
    /\ p.op \in {"insert", "update", "delete"}
    /\ p.op \in {"insert", "update"} => rw[Home[id]][id] = Row("live", p.val)
    /\ p.op = "update" => \A s \in Others(id) : ~Live(rw[s][id])
    /\ p.op = "delete" => \A s \in WShards : ~Live(rw[s][id])
PromisesKept ==
    \A id \in WIds : settled[id] # Nobody =>
        /\ \A c \in Clients : call[c].op # "none" => id \notin call[c].ids
        /\ \A r \in stray : r.id # id
        /\ Stands(settled[id], id, rows)

WritesInv == WritesTypes /\ CallsFit /\ AloneTold /\ PromisesKept

(* The promises are what the run checks.                                   *)
LEMMA KeptIsSettled == WritesInv => WritesSettle
<1> SUFFICES ASSUME WritesInv, NEW id \in WIds, settled[id] # Nobody
             PROVE  /\ IF settled[id].op = "delete" THEN ~Live(Lookup(id))
                       ELSE Lookup(id) = Row("live", settled[id].val)
                    /\ settled[id].op = "update" => \A s \in Others(id) : ~Live(rows[s][id])
                    /\ settled[id].op = "delete" => \A s \in WShards : ~Live(rows[s][id])
  BY DEF WritesSettle, GetSeesSettled, NoCopiesLeft
<1>1. Stands(settled[id], id, rows)
  BY DEF WritesInv, PromisesKept
<1>2. Lookup(id) = rows[Home[id]][id] /\ Home[id] \in WShards
  BY WritesAssumption DEF WritesInv, WritesTypes, Lookup
<1>. QED
  BY <1>1, <1>2 DEF Stands

LEMMA WritesStart == WritesInit => WritesInv
<1> SUFFICES ASSUME WritesInit PROVE WritesInv
  OBVIOUS
<1>1. WritesTypes
  <2>1. rows \in RowTypes
    BY DEF WritesInit, Row, RowTypes
  <2>. QED
    BY <2>1 DEF WritesInit, WritesTypes
<1>2. \A c \in Clients : call[c].op = "none"
  BY DEF WritesInit, NoCalls
<1>3. PromisesKept
  BY DEF WritesInit, PromisesKept
<1>. QED
  BY <1>1, <1>2, <1>3 DEF WritesInv, CallsFit, AloneTold

LEMMA CallTyped ==
    ASSUME WritesTypes, NEW c \in Clients, call[c].op # "none" PROVE call[c] \in CallRecords
BY DEF WritesTypes, NoCalls

-----------------------------------------------------------------------------
(* A call begins: it has all its requests before it, the calls it meets    *)
(* are no longer alone, and nothing is promised of its ids.                *)
LEMMA BeginKeeps ==
    ASSUME WritesInv, NEW c \in Clients, NEW op \in PutOps \cup {"delete"},
           NEW ids \in SUBSET WIds, NEW asks \in SUBSET Asks, Begin(c, op, ids, asks),
           \A r \in asks : r.id \in ids,
           op \in PutOps => \A r \in asks : r.kind = "put" /\ r.shard = Home[r.id],
           op \in PutOps => \A id \in ids : Ask("put", id, Home[id]) \in asks,
           op = "delete" => \A r \in asks : r.kind = "del",
           op = "delete" => \A id \in ids, s \in WShards : Ask("del", id, s) \in asks
    PROVE  WritesInv'
<1> DEFINE crowd == UNION {CallsOn(id) : id \in ids}
           alone == crowd = {} /\ \A r \in stray : r.id \notin ids
           new == [op |-> op, ids |-> ids, val |-> calls + 1, asks |-> asks,
                   failed |-> {}, alone |-> alone]
<1>1. /\ call[c].op = "none" /\ calls' = calls + 1 /\ UNCHANGED <<rows, tracked, stray>>
      /\ call' = [d \in Clients |-> IF d = c THEN new
                                    ELSE IF d \in crowd THEN [call[d] EXCEPT !.alone = FALSE] ELSE call[d]]
      /\ settled' = [id \in WIds |-> IF id \in ids THEN Nobody ELSE settled[id]]
  BY DEF Begin
<1>2. \A d \in Clients : d \in crowd <=> call[d].op # "none" /\ \E id \in ids : id \in call[d].ids
  BY DEF CallsOn
<1>3. new \in CallRecords /\ new.op = op /\ new.ids = ids /\ new.asks = asks /\ new.failed = {}
      /\ new.alone = alone
  <2>1. alone \in BOOLEAN
    OBVIOUS
  <2>2. calls + 1 \in Nat
    BY DEF WritesInv, WritesTypes
  <2> HIDE DEF alone
  <2>. QED
    BY <2>1, <2>2 DEF CallRecords
<1>4. ASSUME NEW d \in Clients, d # c, d \in crowd
      PROVE  /\ call'[d] \in CallRecords /\ call'[d].alone = FALSE /\ call'[d].op = call[d].op
             /\ call'[d].ids = call[d].ids /\ call'[d].asks = call[d].asks
  <2>1. call[d] \in CallRecords
    BY <1>2, <1>4, CallTyped DEF WritesInv
  <2>2. call'[d] = [call[d] EXCEPT !.alone = FALSE]
    BY <1>1, <1>4
  <2>. QED
    BY <2>1, <2>2 DEF CallRecords
<1>5. call'[c] = new
  BY <1>1
<1>6. \A d \in Clients : d # c /\ d \notin crowd => call'[d] = call[d]
  BY <1>1
<1>7. DOMAIN call' = Clients /\ call' = [d \in Clients |-> call'[d]]
  BY <1>1
<1> HIDE DEF new, crowd, alone
<1>8. WritesTypes'
  <2>1. \A d \in Clients : call'[d] \in CallRecords \cup {NoCalls}
    BY <1>3, <1>4, <1>5, <1>6 DEF WritesInv, WritesTypes
  <2>. QED
    BY <1>1, <1>7, <2>1 DEF WritesInv, WritesTypes
<1>9. CallsFit'
  <2>1. AsksFit(new)
    BY <1>3 DEF AsksFit, PutOps
  <2>2. ASSUME NEW d \in Clients, d # c, d \in crowd PROVE AsksFit(call'[d])
    <3>1. AsksFit(call[d])
      BY <1>2, <2>2 DEF WritesInv, CallsFit
    <3>. QED
      BY <1>4, <2>2, <3>1 DEF AsksFit
  <2>. QED
    BY <1>5, <1>6, <2>1, <2>2 DEF WritesInv, CallsFit
<1>10. AloneTold'
  <2> SUFFICES ASSUME NEW d \in Clients, call'[d].op # "none", call'[d].alone,
                      NEW id \in call'[d].ids
               PROVE  /\ \A e \in Clients : call'[e].op # "none" /\ id \in call'[e].ids => e = d
                      /\ Told(call'[d], id, rows, stray)
    BY <1>1 DEF AloneTold
  <2>1. CASE d = c
    <3>1. alone /\ id \in ids
      BY <1>3, <1>5, <2>1
    <3>2. \A e \in Clients : e # c => e \notin crowd /\ (call[e].op # "none" => id \notin call[e].ids)
      BY <1>2, <3>1 DEF alone
    <3>3. \A e \in Clients : call'[e].op # "none" /\ id \in call'[e].ids => e = c
      BY <1>6, <3>2
    <3>4. Told(new, id, rows, stray)
      BY <1>3, <3>1 DEF Told, alone, PutOps, Others
    <3>. QED
      BY <1>5, <2>1, <3>3, <3>4
  <2>2. CASE d # c
    <3>1. d \notin crowd /\ call'[d] = call[d]
      BY <1>4, <1>6, <2>2
    <3>2. id \notin ids
      BY <1>2, <3>1
    <3>3. /\ \A e \in Clients : call[e].op # "none" /\ id \in call[e].ids => e = d
          /\ Told(call[d], id, rows, stray)
      BY <3>1 DEF WritesInv, AloneTold
    <3>4. \A e \in Clients : call'[e].op # "none" /\ id \in call'[e].ids => e = d
      BY <1>3, <1>4, <1>5, <1>6, <3>2, <3>3
    <3>. QED
      BY <3>1, <3>3, <3>4
  <2>. QED
    BY <2>1, <2>2
<1>11. PromisesKept'
  <2> SUFFICES ASSUME NEW id \in WIds, settled'[id] # Nobody
               PROVE  /\ \A d \in Clients : call'[d].op # "none" => id \notin call'[d].ids
                      /\ \A r \in stray : r.id # id
                      /\ Stands(settled'[id], id, rows)
    BY <1>1 DEF PromisesKept
  <2>1. id \notin ids /\ settled'[id] = settled[id]
    BY <1>1
  <2>2. /\ \A d \in Clients : call[d].op # "none" => id \notin call[d].ids
        /\ \A r \in stray : r.id # id
        /\ Stands(settled[id], id, rows)
    BY <2>1 DEF WritesInv, PromisesKept
  <2>3. \A d \in Clients : call'[d].op # "none" => id \notin call'[d].ids
    BY <1>3, <1>4, <1>5, <1>6, <2>1, <2>2
  <2>. QED
    BY <2>1, <2>2, <2>3
<1>. QED
  BY <1>8, <1>9, <1>10, <1>11 DEF WritesInv

LEMMA AskFields ==
    ASSUME NEW k, NEW i, NEW s
    PROVE  Ask(k, i, s).kind = k /\ Ask(k, i, s).id = i /\ Ask(k, i, s).shard = s
BY DEF Ask

LEMMA BeginsKeep ==
    ASSUME WritesInv, NEW c \in Clients,
           \/ \E id \in WIds : BeginInsert(c, id) \/ BeginUpdate(c, id) \/ BeginDelete(c, id)
           \/ BeginBatch(c)
    PROVE  WritesInv'
<1>1. \A id \in WIds : Home[id] \in WShards
  BY WritesAssumption
<1>2. ASSUME NEW id \in WIds, NEW op \in {"insert", "update"},
             Begin(c, op, {id}, {Ask("put", id, Home[id])})
      PROVE  WritesInv'
  <2>1. Ask("put", id, Home[id]) \in Asks
    BY <1>1 DEF Ask, Asks
  <2>. QED
    BY <1>2, <2>1, AskFields, BeginKeeps DEF PutOps
<1>3. ASSUME NEW id \in WIds, Begin(c, "delete", {id}, {Ask("del", id, s) : s \in WShards})
      PROVE  WritesInv'
  <2>1. {Ask("del", id, s) : s \in WShards} \subseteq Asks
    BY DEF Ask, Asks
  <2>. QED
    BY <1>3, <2>1, AskFields, BeginKeeps DEF PutOps
<1>4. ASSUME Begin(c, "batch", WIds, {Ask("put", id, Home[id]) : id \in WIds})
      PROVE  WritesInv'
  <2>1. {Ask("put", id, Home[id]) : id \in WIds} \subseteq Asks
    BY <1>1 DEF Ask, Asks
  <2>. QED
    BY <1>4, <2>1, AskFields, BeginKeeps DEF PutOps
<1>. QED
  BY <1>2, <1>3, <1>4 DEF BeginInsert, BeginUpdate, BeginDelete, BeginBatch

-----------------------------------------------------------------------------
(* A request reaches a shard, or is given up.                              *)

(* What the shard does to one row leaves every other one alone.            *)
LEMMA AppliedEffect ==
    ASSUME rows \in RowTypes, NEW r, r.shard \in WShards, r.id \in WIds, NEW val \in Nat
    PROVE  /\ Applied(r, val) \in RowTypes
           /\ \A s \in WShards, id \in WIds :
                 s # r.shard \/ id # r.id => Applied(r, val)[s][id] = rows[s][id]
           /\ r.kind = "put" /\ ~Dead(rows[r.shard][r.id]) =>
                 Applied(r, val)[r.shard][r.id] = Row("live", val)
           /\ r.kind = "del" => ~Live(Applied(r, val)[r.shard][r.id])
<1> DEFINE old == rows[r.shard][r.id]
           row == IF r.kind = "put" THEN (IF Dead(old) THEN old ELSE Row("live", val))
                  ELSE IF Live(old) THEN Row("dead", 0) ELSE old
<1>1. old \in [st : {"none", "live", "dead"}, val : Nat]
  BY DEF RowTypes
<1>2. row \in [st : {"none", "live", "dead"}, val : Nat]
  BY <1>1 DEF Row
<1>3. r.kind = "del" => ~Live(row)
  BY DEF Live, Row
<1>4. r.kind = "put" /\ ~Dead(old) => row = Row("live", val)
  OBVIOUS
<1>5. Applied(r, val) = [rows EXCEPT ![r.shard] = [rows[r.shard] EXCEPT ![r.id] = row]]
  BY DEF Applied, RowTypes
<1> HIDE DEF row
<1>6. Applied(r, val) \in RowTypes
  BY <1>2, <1>5 DEF RowTypes
<1>7. Applied(r, val)[r.shard][r.id] = row
  BY <1>5 DEF RowTypes
<1>8. \A s \in WShards, id \in WIds :
         s # r.shard \/ id # r.id => Applied(r, val)[s][id] = rows[s][id]
  BY <1>5 DEF RowTypes
<1>. QED
  BY <1>3, <1>4, <1>6, <1>7, <1>8

(* Of the rows only that of an id that somebody writes has changed.        *)
LEMMA WriteElsewhere ==
    ASSUME NEW id \in WIds, NEW rw, NEW st, NEW k,
           Told(k, id, rows, stray), Home[id] \in WShards,
           \A s \in WShards : rw[s][id] = rows[s][id],
           id \notin k.failed => \A r \in st : r.id # id
    PROVE  Told(k, id, rw, st)
BY DEF Told, PutDone, Others

LEMMA KeptElsewhere ==
    ASSUME NEW id \in WIds, NEW rw, NEW p, Stands(p, id, rows), Home[id] \in WShards,
           \A s \in WShards : rw[s][id] = rows[s][id]
    PROVE  Stands(p, id, rw)
BY DEF Stands, Others

(* One request of a call is over: it succeeded and was applied, or it      *)
(* failed and whatever became of it is on its row or among the strays.     *)
LEMMA AnswerKeeps ==
    ASSUME WritesInv, NEW c \in Clients, call[c].op # "none", NEW r \in call[c].asks,
           NEW ok \in BOOLEAN, Answered(c, r, ok),
           rows' \in {rows, Applied(r, call[c].val)},
           \/ stray' = stray
           \/ /\ stray' = stray \cup {[kind |-> r.kind, id |-> r.id, shard |-> r.shard,
                                       val |-> call[c].val]}
              /\ ~ok,
           ok => rows' = Applied(r, call[c].val) /\ ~Refuses(r),
           UNCHANGED <<tracked, calls, settled>>
    PROVE  WritesInv'
<1> DEFINE k == call[c]
           n == call'[c]
<1>1. k \in CallRecords /\ AsksFit(k) /\ WritesTypes
  BY CallTyped DEF WritesInv, CallsFit
<1>2. /\ r \in Asks /\ r.id \in WIds /\ r.shard \in WShards /\ r.id \in k.ids /\ k.val \in Nat
      /\ r = Ask(r.kind, r.id, r.shard)
  BY <1>1 DEF CallRecords, Asks, AsksFit, Ask
<1>3. /\ n \in CallRecords /\ n.op = k.op /\ n.ids = k.ids /\ n.val = k.val /\ n.alone = k.alone
      /\ n.asks = k.asks \ {r} /\ n.failed = IF ok THEN k.failed ELSE k.failed \cup {r.id}
      /\ \A d \in Clients : d # c => call'[d] = call[d]
      /\ call' \in [Clients -> CallRecords \cup {NoCalls}]
  <2>1. call' = [call EXCEPT ![c] = [k EXCEPT !.asks = k.asks \ {r},
                                     !.failed = IF ok THEN k.failed ELSE k.failed \cup {r.id}]]
    BY <1>1 DEF Answered, WritesTypes, CallRecords
  <2>2. [k EXCEPT !.asks = k.asks \ {r},
                  !.failed = IF ok THEN k.failed ELSE k.failed \cup {r.id}] \in CallRecords
    BY <1>1, <1>2 DEF CallRecords
  <2>3. call \in [Clients -> CallRecords \cup {NoCalls}]
    BY <1>1 DEF WritesTypes
  <2>. QED
    BY <1>1, <2>1, <2>2, <2>3 DEF CallRecords
<1>4. /\ rows \in RowTypes /\ Applied(r, k.val) \in RowTypes
      /\ \A s \in WShards, id \in WIds :
            s # r.shard \/ id # r.id => Applied(r, k.val)[s][id] = rows[s][id]
      /\ r.kind = "put" /\ ~Dead(rows[r.shard][r.id]) =>
            Applied(r, k.val)[r.shard][r.id] = Row("live", k.val)
      /\ r.kind = "del" => ~Live(Applied(r, k.val)[r.shard][r.id])
  BY <1>1, <1>2, AppliedEffect DEF WritesTypes
<1>5. /\ rows' \in RowTypes
      /\ \A s \in WShards, id \in WIds : s # r.shard \/ id # r.id => rows'[s][id] = rows[s][id]
  BY <1>4
<1>6. stray' \subseteq [kind : {"put", "del"}, id : WIds, shard : WShards, val : Nat]
  BY <1>1, <1>2 DEF WritesTypes, Asks
<1>7. \A t \in stray' : t \in stray \/ (t.id = r.id /\ ~ok)
  OBVIOUS
<1>8. \A id \in WIds : Home[id] \in WShards
  BY WritesAssumption
<1> HIDE DEF k, n
<1>9. WritesTypes'
  BY <1>1, <1>3, <1>5, <1>6 DEF WritesTypes
<1>10. CallsFit'
  <2>1. AsksFit(n)
    BY <1>1, <1>3 DEF AsksFit
  <2>. QED
    BY <1>3, <2>1 DEF WritesInv, CallsFit, n
<1>11. \A e \in Clients, id \in WIds :
          (call'[e].op # "none" /\ id \in call'[e].ids) <=> (call[e].op # "none" /\ id \in call[e].ids)
  BY <1>3 DEF n, k
<1>12. AloneTold'
  <2> SUFFICES ASSUME NEW d \in Clients, call'[d].op # "none", call'[d].alone,
                      NEW id \in call'[d].ids
               PROVE  /\ \A e \in Clients : call'[e].op # "none" /\ id \in call'[e].ids => e = d
                      /\ Told(call'[d], id, rows', stray')
    BY DEF AloneTold
  <2>1. call[d].op # "none" /\ call[d].alone /\ id \in call[d].ids /\ id \in WIds
    <3>1. call[d].op # "none" /\ call[d].alone /\ id \in call[d].ids
      BY <1>3 DEF n, k
    <3>. QED
      BY <1>1, <3>1, CallTyped DEF CallRecords
  <2>2. /\ \A e \in Clients : call[e].op # "none" /\ id \in call[e].ids => e = d
        /\ Told(call[d], id, rows, stray)
    BY <2>1 DEF WritesInv, AloneTold
  <2>3. \A e \in Clients : call'[e].op # "none" /\ id \in call'[e].ids => e = d
    BY <1>11, <2>1, <2>2
  <2>4. CASE id # r.id
    <3>1. Told(call[d], id, rows', stray')
      <4>1. \A s \in WShards : rows'[s][id] = rows[s][id]
        BY <1>5, <2>1, <2>4
      <4>2. id \notin call[d].failed => \A t \in stray' : t.id # id
        BY <1>7, <2>2, <2>4 DEF Told
      <4>. QED
        BY <1>8, <2>1, <2>2, <4>1, <4>2, WriteElsewhere
    <3>2. CASE d # c
      BY <1>3, <2>3, <3>1, <3>2
    <3>3. CASE d = c
      <4>1. Told(k, id, rows', stray')
        BY <3>1, <3>3 DEF k
      <4>2. \A kind \in {"put", "del"}, s \in WShards : Ask(kind, id, s) # r
        BY <2>4, AskFields
      <4>3. Told(n, id, rows', stray')
        BY <1>3, <1>8, <2>1, <2>4, <4>1, <4>2 DEF Told, PutDone, Others
      <4>. QED
        BY <2>3, <3>3, <4>3 DEF n
    <3>. QED
      BY <3>2, <3>3
  <2>5. CASE id = r.id
    <3>1. d = c /\ Told(k, id, rows, stray)
      BY <1>2, <2>2, <2>5 DEF k
    <3>2. CASE ~ok
      <4>1. id \in n.failed
        BY <1>3, <2>5, <3>2
      <4>. QED
        BY <2>3, <3>1, <4>1 DEF Told, n
    <3>3. CASE ok
      <4>1. rows' = Applied(r, k.val) /\ ~Refuses(r) /\ stray' = stray
        BY <3>3 DEF k
      <4>2. r.kind = "put" => rows'[r.shard][r.id] = Row("live", k.val)
        BY <1>4, <4>1 DEF Refuses
      <4>3. r.kind = "del" => ~Live(rows'[r.shard][r.id])
        BY <1>4, <4>1
      <4>4. \A s \in WShards : s # r.shard => rows'[s][id] = rows[s][id]
        BY <1>5, <2>1
      <4>5. ASSUME id \notin n.failed PROVE Told(n, id, rows', stray)
        <5>1. id \notin k.failed /\ \A t \in stray : t.id # id
          BY <1>3, <3>1, <3>3, <4>5 DEF Told
        <5>2. ASSUME n.op \in PutOps, Ask("put", id, Home[id]) \notin n.asks
              PROVE  PutDone(n, id, rows')
          <6>1. r.kind = "put" /\ r.shard = Home[id]
            BY <1>1, <1>3, <2>5, <5>2 DEF AsksFit, k
          <6>. QED
            BY <1>3, <2>5, <4>2, <6>1 DEF PutDone
        <5>3. ASSUME n.op = "cleanup" PROVE PutDone(n, id, rows')
          <6>1. r.shard # Home[id]
            BY <1>1, <1>3, <2>5, <5>3 DEF AsksFit, k
          <6>2. PutDone(k, id, rows)
            BY <1>3, <3>1, <5>1, <5>3 DEF Told
          <6>. QED
            BY <1>3, <1>8, <2>1, <4>4, <6>1, <6>2 DEF PutDone
        <5>4. ASSUME n.op \in {"cleanup", "delete"}, NEW s \in WShards,
                     n.op = "cleanup" => s \in Others(id),
                     Ask("del", id, s) \notin n.asks
              PROVE  ~Live(rows'[s][id])
          <6>1. CASE s = r.shard
            BY <1>1, <1>3, <2>5, <4>3, <5>4, <6>1 DEF AsksFit, k
          <6>2. CASE s # r.shard
            <7>1. Ask("del", id, s) \notin k.asks
              BY <1>3, <5>4, <6>2, AskFields
            <7>2. ~Live(rows[s][id])
              BY <1>3, <3>1, <5>1, <5>4, <7>1 DEF Told
            <7>. QED
              BY <4>4, <6>2, <7>2
          <6>. QED
            BY <6>1, <6>2
        <5>. QED
          BY <5>1, <5>2, <5>3, <5>4 DEF Told, Others
      <4>. QED
        BY <2>3, <3>1, <4>1, <4>5 DEF Told, n
    <3>. QED
      BY <3>2, <3>3
  <2>. QED
    BY <2>4, <2>5
<1>13. PromisesKept'
  <2> SUFFICES ASSUME NEW id \in WIds, settled[id] # Nobody
               PROVE  /\ \A d \in Clients : call'[d].op # "none" => id \notin call'[d].ids
                      /\ \A t \in stray' : t.id # id
                      /\ Stands(settled[id], id, rows')
    BY DEF PromisesKept
  <2>1. /\ \A d \in Clients : call[d].op # "none" => id \notin call[d].ids
        /\ \A t \in stray : t.id # id
        /\ Stands(settled[id], id, rows)
    BY DEF WritesInv, PromisesKept
  <2>2. id # r.id
    BY <1>2, <2>1 DEF k
  <2>3. \A s \in WShards : rows'[s][id] = rows[s][id]
    BY <1>5, <2>2
  <2>4. Stands(settled[id], id, rows')
    BY <1>8, <2>1, <2>3, KeptElsewhere
  <2>. QED
    BY <1>7, <1>11, <2>1, <2>2, <2>4
<1>. QED
  BY <1>9, <1>10, <1>12, <1>13 DEF WritesInv

LEMMA RepliesKeep ==
    ASSUME WritesInv, NEW c \in Clients, NEW r, ShardReplies(c, r) \/ ShardSilent(c, r)
    PROVE  WritesInv'
<1>1. call[c].op # "none" /\ r \in call[c].asks
  BY DEF ShardReplies, ShardSilent
<1>2. CASE ShardReplies(c, r)
  <2> DEFINE ok == ~Refuses(r)
  <2>1. ok \in BOOLEAN /\ Answered(c, r, ok)
    BY <1>2 DEF ShardReplies, Refuses
  <2>2. rows' = Applied(r, call[c].val) /\ UNCHANGED <<tracked, calls, stray, settled>>
    BY <1>2 DEF ShardReplies
  <2>3. ok => ~Refuses(r)
    OBVIOUS
  <2> HIDE DEF ok
  <2>. QED
    BY <1>1, <2>1, <2>2, <2>3, AnswerKeeps
<1>3. CASE ShardSilent(c, r)
  <2>1. Answered(c, r, FALSE) /\ UNCHANGED <<tracked, calls, settled>>
    BY <1>3 DEF ShardSilent
  <2>2. /\ rows' \in {rows, Applied(r, call[c].val)}
        /\ \/ stray' = stray
           \/ stray' = stray \cup {[kind |-> r.kind, id |-> r.id, shard |-> r.shard,
                                    val |-> call[c].val]}
    BY <1>3 DEF ShardSilent
  <2>. QED
    BY <1>1, <2>1, <2>2, AnswerKeeps
<1>. QED
  BY <1>2, <1>3

(* A request that was given up arrives after all.  A call that is alone    *)
(* has counted its id as failed, and nothing is promised of it.            *)
LEMMA StrayKeeps ==
    ASSUME WritesInv, NEW r \in stray, StrayArrives(r)
    PROVE  WritesInv'
<1>1. /\ r.id \in WIds /\ r.shard \in WShards /\ r.val \in Nat /\ rows \in RowTypes
      /\ rows' = Applied(r, r.val) /\ stray' = stray \ {r}
      /\ UNCHANGED <<tracked, call, calls, settled>>
  BY DEF WritesInv, WritesTypes, StrayArrives
<1>2. /\ rows' \in RowTypes
      /\ \A s \in WShards, id \in WIds : id # r.id => rows'[s][id] = rows[s][id]
  BY <1>1, AppliedEffect
<1>3. \A id \in WIds : Home[id] \in WShards
  BY WritesAssumption
<1>4. WritesTypes'
  BY <1>1, <1>2 DEF WritesInv, WritesTypes
<1>5. CallsFit'
  BY <1>1 DEF WritesInv, CallsFit
<1>6. AloneTold'
  <2> SUFFICES ASSUME NEW c \in Clients, call[c].op # "none", call[c].alone,
                      NEW id \in call[c].ids
               PROVE  /\ \A d \in Clients : call[d].op # "none" /\ id \in call[d].ids => d = c
                      /\ Told(call[c], id, rows', stray')
    BY <1>1 DEF AloneTold
  <2>1. /\ \A d \in Clients : call[d].op # "none" /\ id \in call[d].ids => d = c
        /\ Told(call[c], id, rows, stray)
    BY DEF WritesInv, AloneTold
  <2>2. id \in WIds
    BY CallTyped DEF CallRecords, WritesInv
  <2>3. CASE id = r.id
    BY <2>1, <2>3 DEF Told
  <2>4. CASE id # r.id
    <3>1. \A s \in WShards : rows'[s][id] = rows[s][id]
      BY <1>2, <2>2, <2>4
    <3>2. id \notin call[c].failed => \A t \in stray' : t.id # id
      BY <1>1, <2>1 DEF Told
    <3>. QED
      BY <1>3, <2>1, <2>2, <3>1, <3>2, WriteElsewhere
  <2>. QED
    BY <2>3, <2>4
<1>7. PromisesKept'
  <2> SUFFICES ASSUME NEW id \in WIds, settled[id] # Nobody
               PROVE  /\ \A c \in Clients : call[c].op # "none" => id \notin call[c].ids
                      /\ \A t \in stray' : t.id # id
                      /\ Stands(settled[id], id, rows')
    BY <1>1 DEF PromisesKept
  <2>1. /\ \A c \in Clients : call[c].op # "none" => id \notin call[c].ids
        /\ \A t \in stray : t.id # id
        /\ Stands(settled[id], id, rows)
    BY DEF WritesInv, PromisesKept
  <2>2. \A s \in WShards : rows'[s][id] = rows[s][id]
    BY <1>2, <2>1
  <2>. QED
    BY <1>1, <1>3, <2>1, <2>2, KeptElsewhere
<1>. QED
  BY <1>4, <1>5, <1>6, <1>7 DEF WritesInv

-----------------------------------------------------------------------------
(* An update that reached its shard goes on to the other ones.             *)
LEMMA CleanupKeeps ==
    ASSUME WritesInv, NEW c \in Clients, UpdateCleanup(c)
    PROVE  WritesInv'
<1> DEFINE k == call[c]
           asks == UNION {CleanupAsks(id) : id \in k.ids}
           n == call'[c]
<1>1. k \in CallRecords /\ k.op = "update" /\ k.asks = {} /\ k.failed = {} /\ WritesTypes
  BY CallTyped DEF UpdateCleanup, WritesInv
<1>2. asks \subseteq Asks
  BY <1>1 DEF CleanupAsks, Others, Ask, Asks, CallRecords
<1>3. \A r \in asks : r.kind = "del" /\ r.id \in k.ids /\ r.shard # Home[r.id]
  BY AskFields DEF CleanupAsks, Others
<1>4. \A id \in k.ids : \A s \in Others(id) : Ask("del", id, s) \in asks
  BY DEF CleanupAsks
<1> HIDE DEF asks
<1>5. /\ n \in CallRecords /\ n.op = "cleanup" /\ n.ids = k.ids /\ n.val = k.val /\ n.alone = k.alone
      /\ n.asks = asks /\ n.failed = {}
      /\ \A d \in Clients : d # c => call'[d] = call[d]
      /\ call' \in [Clients -> CallRecords \cup {NoCalls}]
      /\ UNCHANGED <<rows, tracked, calls, stray, settled>>
  <2>1. call' = [call EXCEPT ![c] = [k EXCEPT !.op = "cleanup", !.asks = asks]]
    BY <1>1 DEF UpdateCleanup, WritesTypes, CallRecords, asks
  <2>2. [k EXCEPT !.op = "cleanup", !.asks = asks] \in CallRecords
    BY <1>1, <1>2 DEF CallRecords
  <2>3. call \in [Clients -> CallRecords \cup {NoCalls}]
    BY <1>1 DEF WritesTypes
  <2>4. UNCHANGED <<rows, tracked, calls, stray, settled>>
    BY DEF UpdateCleanup
  <2>. QED
    BY <1>1, <2>1, <2>2, <2>3, <2>4 DEF CallRecords
<1>6. \A d \in Clients : call'[d].op # "none" => call[d].op # "none" /\ call'[d].ids = call[d].ids
  BY <1>1, <1>5
<1> HIDE DEF k, n
<1>7. WritesTypes'
  BY <1>1, <1>5 DEF WritesTypes
<1>8. CallsFit'
  <2>1. AsksFit(n)
    BY <1>3, <1>5 DEF AsksFit, PutOps
  <2>. QED
    BY <1>5, <2>1 DEF WritesInv, CallsFit, n
<1>9. AloneTold'
  <2> SUFFICES ASSUME NEW d \in Clients, call'[d].op # "none", call'[d].alone,
                      NEW id \in call'[d].ids
               PROVE  /\ \A e \in Clients : call'[e].op # "none" /\ id \in call'[e].ids => e = d
                      /\ Told(call'[d], id, rows, stray)
    BY <1>5 DEF AloneTold
  <2>1. call[d].op # "none" /\ call[d].alone /\ id \in call[d].ids
    BY <1>5, <1>6 DEF n, k
  <2>2. /\ \A e \in Clients : call[e].op # "none" /\ id \in call[e].ids => e = d
        /\ Told(call[d], id, rows, stray)
    BY <2>1 DEF WritesInv, AloneTold
  <2>3. \A e \in Clients : call'[e].op # "none" /\ id \in call'[e].ids => e = d
    BY <1>6, <2>2
  <2>4. CASE d # c
    BY <1>5, <2>2, <2>3, <2>4
  <2>5. CASE d = c
    <3>1. PutDone(k, id, rows) /\ \A r \in stray : r.id # id
      BY <1>1, <2>2, <2>5 DEF Told, PutOps, k
    <3>2. Told(n, id, rows, stray)
      BY <1>4, <1>5, <2>1, <2>5, <3>1 DEF Told, PutDone, PutOps, k
    <3>. QED
      BY <2>3, <2>5, <3>2 DEF n
  <2>. QED
    BY <2>4, <2>5
<1>10. PromisesKept'
  BY <1>5, <1>6 DEF WritesInv, PromisesKept
<1>. QED
  BY <1>7, <1>8, <1>9, <1>10 DEF WritesInv

(* A call returns: what it promises of an id is what the shards hold.      *)
LEMMA ReturnKeeps ==
    ASSUME WritesInv, NEW c \in Clients, Return(c)
    PROVE  WritesInv'
<1> DEFINE k == call[c]
<1>1. k \in CallRecords /\ k.op # "none" /\ k.asks = {} /\ WritesTypes
  BY CallTyped DEF Return, WritesInv
<1>2. /\ call'[c].op = "none" /\ \A d \in Clients : d # c => call'[d] = call[d]
      /\ call' \in [Clients -> CallRecords \cup {NoCalls}]
      /\ UNCHANGED <<rows, calls, stray>>
  BY <1>1 DEF Return, WritesTypes, NoCalls
<1>3. tracked' = Recorded(c)
      /\ settled' = [id \in WIds |->
                      IF id \in k.ids /\ (\A r \in stray : r.id # id) THEN Promise(c, id)
                      ELSE settled[id]]
  BY DEF Return
<1>4. WritesTypes'
  <2>1. \A id \in WIds : Home[id] \in WShards
    BY WritesAssumption
  <2>2. ASSUME NEW id \in WIds
        PROVE  Recorded(c)[id] \in {Nobody, tracked[id], [shard |-> Home[id], age |-> 0]}
    BY DEF Recorded
  <2>3. ASSUME NEW id \in WIds
        PROVE  /\ tracked'[id] \in [shard : WShards, age : Nat] \cup {Nobody}
               /\ tracked'[id] # Nobody => tracked'[id].shard = Home[id]
    BY <1>1, <1>3, <2>1, <2>2, <2>3 DEF WritesTypes
  <2>4. tracked' \in [WIds -> [shard : WShards, age : Nat] \cup {Nobody}]
    <3>1. tracked' = [id \in WIds |-> tracked'[id]]
      BY <1>3 DEF Recorded
    <3>. QED
      BY <2>3, <3>1
  <2>. QED
    BY <1>1, <1>2, <2>3, <2>4 DEF WritesTypes
<1>5. CallsFit'
  BY <1>2 DEF WritesInv, CallsFit
<1>6. AloneTold'
  BY <1>2 DEF WritesInv, AloneTold
<1>7. PromisesKept'
  <2> SUFFICES ASSUME NEW id \in WIds, settled'[id] # Nobody
               PROVE  /\ \A d \in Clients : call'[d].op # "none" => id \notin call'[d].ids
                      /\ \A r \in stray : r.id # id
                      /\ Stands(settled'[id], id, rows)
    BY <1>2 DEF PromisesKept
  <2>1. CASE settled'[id] = settled[id]
    <3>1. /\ \A d \in Clients : call[d].op # "none" => id \notin call[d].ids
          /\ \A r \in stray : r.id # id
          /\ Stands(settled[id], id, rows)
      BY <2>1 DEF WritesInv, PromisesKept
    <3>. QED
      BY <1>2, <2>1, <3>1
  <2>2. CASE settled'[id] # settled[id]
    <3>1. id \in k.ids /\ (\A r \in stray : r.id # id) /\ settled'[id] = Promise(c, id)
      BY <1>3, <2>2
    <3>2. k.alone /\ id \notin k.failed
      BY <3>1 DEF Promise
    <3>3. /\ \A d \in Clients : call[d].op # "none" /\ id \in call[d].ids => d = c
          /\ Told(k, id, rows, stray)
      BY <1>1, <3>1, <3>2 DEF WritesInv, AloneTold
    <3>4. \/ k.op = "delete" /\ settled'[id] = [op |-> "delete", val |-> 0]
          \/ k.op = "cleanup" /\ settled'[id] = [op |-> "update", val |-> k.val]
          \/ k.op \in PutOps /\ settled'[id] = [op |-> "insert", val |-> k.val]
      BY <1>1, <3>1 DEF Promise, CallRecords, PutOps
    <3>5. Stands(settled'[id], id, rows)
      <4>1. CASE k.op = "delete" /\ settled'[id] = [op |-> "delete", val |-> 0]
        BY <1>1, <3>2, <3>3, <4>1 DEF Told, Stands
      <4>2. CASE k.op = "cleanup" /\ settled'[id] = [op |-> "update", val |-> k.val]
        BY <1>1, <3>2, <3>3, <4>2 DEF Told, Stands, PutDone
      <4>3. CASE k.op \in PutOps /\ settled'[id] = [op |-> "insert", val |-> k.val]
        BY <1>1, <3>2, <3>3, <4>3 DEF Told, Stands, PutDone
      <4>. QED
        BY <3>4, <4>1, <4>2, <4>3
    <3>. QED
      BY <1>2, <3>1, <3>3, <3>5
  <2>. QED
    BY <2>1, <2>2
<1>. QED
  BY <1>4, <1>5, <1>6, <1>7 DEF WritesInv

LEMMA AgeKeeps ==
    ASSUME WritesInv, WritesTick PROVE WritesInv'
<1>1. WritesTypes /\ UNCHANGED <<rows, call, calls, stray, settled>>
  BY DEF WritesInv, WritesTick
<1>2. ASSUME NEW id \in WIds
      PROVE  /\ tracked'[id] \in [shard : WShards, age : Nat] \cup {Nobody}
             /\ tracked'[id] # Nobody => tracked'[id].shard = Home[id]
  <2>1. tracked'[id] = IF tracked[id] = Nobody \/ tracked[id].age >= WriteTtl THEN Nobody
                       ELSE [tracked[id] EXCEPT !.age = @ + 1]
    BY DEF WritesTick
  <2>2. CASE tracked[id] = Nobody
    BY <2>1, <2>2
  <2>3. CASE tracked[id] # Nobody
    <3>1. tracked[id] \in [shard : WShards, age : Nat] /\ tracked[id].shard = Home[id]
      BY <1>1, <2>3 DEF WritesTypes
    <3>. QED
      BY <2>1, <3>1
  <2>. QED
    BY <2>2, <2>3
<1>3. tracked' = [id \in WIds |-> tracked'[id]]
  BY DEF WritesTick
<1>4. WritesTypes'
  BY <1>1, <1>2, <1>3 DEF WritesTypes
<1>. QED
  BY <1>1, <1>4 DEF WritesInv, CallsFit, AloneTold, PromisesKept

LEMMA WritesStep == WritesInv /\ [WritesNext]_writesVars => WritesInv'
<1> SUFFICES ASSUME WritesInv, [WritesNext]_writesVars PROVE WritesInv'
  OBVIOUS
<1>1. CASE UNCHANGED writesVars
  BY <1>1 DEF writesVars, WritesInv, WritesTypes, CallsFit, AloneTold, PromisesKept
<1>2. CASE WritesNext
  <2>1. CASE \E c \in Clients, id \in WIds :
                BeginInsert(c, id) \/ BeginUpdate(c, id) \/ BeginDelete(c, id)
    BY <2>1, BeginsKeep
  <2>2. CASE \E c \in Clients : BeginBatch(c) \/ UpdateCleanup(c) \/ Return(c)
    BY <2>2, BeginsKeep, CleanupKeeps, ReturnKeeps
  <2>3. CASE \E c \in Clients, kind \in {"put", "del"}, id \in WIds, s \in WShards :
                ShardReplies(c, Ask(kind, id, s)) \/ ShardSilent(c, Ask(kind, id, s))
    BY <2>3, RepliesKeep
  <2>4. CASE \E r \in stray : StrayArrives(r)
    BY <2>4, StrayKeeps
  <2>5. CASE WritesTick
    BY <2>5, AgeKeeps
  <2>. QED
    BY <1>2, <2>1, <2>2, <2>3, <2>4, <2>5 DEF WritesNext
<1>. QED
  BY <1>1, <1>2

(* Writes through the coordinator settle: whatever requests are lost,      *)
(* refused or late, and whichever calls overlap, what a call that ran      *)
(* alone acknowledged is what a get reads, an acknowledged update leaves   *)
(* no second copy and an acknowledged delete none.                         *)
THEOREM WritesAlwaysSettle == WritesSpec => []WritesSettle
<1>1. WritesSpec => []WritesInv
  BY WritesStart, WritesStep, PTL DEF WritesSpec
<1>. QED
  BY <1>1, KeptIsSettled, PTL

-----------------------------------------------------------------------------
(* Limits.                                                                 *)

RequestStates == {"idle", "reserve", "rejected", "acquire", "unqueue", "shed", "wait", "count",
                  "running", "release"}
PermitHolders == {"unqueue", "count", "running", "release"}
Queued == {"acquire", "wait", "shed", "unqueue"}

(* How many entries of a table are in one of the states S.                 *)
Count(D, t, S) == Cardinality({r \in D : t[r] \in S})

(* Every permit is free or held by one request, every slot is taken by a   *)
(* request between its reservation and its release or was left behind.     *)
LimitsInv ==
    /\ request \in [Requests -> RequestStates]
    /\ {permits, inFlight, queueDepth, leaked} \subseteq Nat
    /\ permits + Count(Requests, request, PermitHolders) = MaxConcurrent
    /\ inFlight = Count(Requests, request, {"running"})
    /\ queueDepth = leaked + Count(Requests, request, Queued)

BatchTable == [b \in Batches |-> batch[b].at]
BatchInv ==
    /\ batch \in [Batches -> [at : {"idle", "wait", "process", "adjust"}, size : Nat, seen : Nat]]
    /\ batchStats \in [batches : Nat, items : Nat, good : Nat, failed : Nat]
    /\ pending \in Nat /\ batchLeaked \in Nat
    /\ \A b \in Batches : batch[b].at = "adjust" => batch[b].seen \in MinSize..MaxSize
    /\ batchStats.good + batchStats.failed = batchStats.items
    /\ pending = batchLeaked + Count(Batches, BatchTable, {"wait", "process"})
    /\ batchSize \in MinSize..MaxSize

LEMMA CountIsNat ==
    ASSUME NEW D, IsFiniteSet(D), NEW t, NEW S
    PROVE  IsFiniteSet({r \in D : t[r] \in S}) /\ Count(D, t, S) \in Nat
<1>1. {r \in D : t[r] \in S} \in SUBSET D
  OBVIOUS
<1>. QED
  BY <1>1, FS_Subset, FS_CardinalityType DEF Count

LEMMA CountNone ==
    ASSUME NEW D, NEW t, NEW S, \A r \in D : t[r] \notin S PROVE Count(D, t, S) = 0
<1>1. {r \in D : t[r] \in S} = {}
  OBVIOUS
<1>. QED
  BY <1>1, FS_EmptySet DEF Count

LEMMA CountPositive ==
    ASSUME NEW D, IsFiniteSet(D), NEW t, NEW S, NEW r \in D, t[r] \in S PROVE Count(D, t, S) >= 1
<1> DEFINE A == {e \in D : t[e] \in S}
<1>1. IsFiniteSet(A) /\ r \in A /\ Cardinality(A) \in Nat
  BY CountIsNat DEF Count
<1> HIDE DEF A
<1>2. Cardinality(A) # 0
  BY <1>1, FS_EmptySet
<1>. QED
  BY <1>1, <1>2 DEF Count, A

(* One entry moves: the count follows where it came from and went.         *)
LEMMA CountMove ==
    ASSUME NEW D, IsFiniteSet(D), NEW t, NEW u, NEW S, NEW r \in D,
           \A e \in D : e # r => u[e] = t[e]
    PROVE  Count(D, u, S) = IF t[r] \in S
                            THEN IF u[r] \in S THEN Count(D, t, S) ELSE Count(D, t, S) - 1
                            ELSE IF u[r] \in S THEN Count(D, t, S) + 1 ELSE Count(D, t, S)
<1> DEFINE A == {e \in D : t[e] \in S}
           B == {e \in D : u[e] \in S}
<1>1. IsFiniteSet(A) /\ Cardinality(A) \in Nat
  <2>1. A \in SUBSET D
    OBVIOUS
  <2> HIDE DEF A
  <2>. QED
    BY <2>1, FS_Subset, FS_CardinalityType
<1>2. u[r] \in S => B = A \cup {r}
  OBVIOUS
<1>3. u[r] \notin S => B = A \ {r}
  OBVIOUS
<1>4. r \in A <=> t[r] \in S
  OBVIOUS
<1>5. Count(D, t, S) = Cardinality(A) /\ Count(D, u, S) = Cardinality(B)
  BY DEF Count
<1> HIDE DEF A, B
<1>6. CASE u[r] \in S
  BY <1>1, <1>2, <1>4, <1>5, <1>6, FS_AddElement
<1>7. CASE u[r] \notin S
  BY <1>1, <1>3, <1>4, <1>5, <1>7, FS_RemoveElement
<1>. QED
  BY <1>6, <1>7

One(x, S) == IF x \in S THEN 1 ELSE 0
OnlyMoves(D, t, u, r) == r \in D /\ \A e \in D : e # r => u[e] = t[e]

LEMMA CountFollows ==
    ASSUME NEW D, IsFiniteSet(D), NEW t, NEW u, NEW S, NEW r, OnlyMoves(D, t, u, r)
    PROVE  /\ Count(D, t, S) \in Nat /\ Count(D, u, S) \in Nat
           /\ Count(D, u, S) = Count(D, t, S) + One(u[r], S) - One(t[r], S)
<1>1. Count(D, t, S) \in Nat /\ Count(D, u, S) \in Nat
  BY CountIsNat
<1>2. Count(D, u, S) = IF t[r] \in S
                       THEN IF u[r] \in S THEN Count(D, t, S) ELSE Count(D, t, S) - 1
                       ELSE IF u[r] \in S THEN Count(D, t, S) + 1 ELSE Count(D, t, S)
  BY CountMove DEF OnlyMoves
<1>. QED
  BY <1>1, <1>2 DEF One

LEMMA LimitsStart == LimitsInit => LimitsInv
<1> SUFFICES ASSUME LimitsInit PROVE LimitsInv
  OBVIOUS
<1>1. \A r \in Requests : request[r] = "idle"
  BY DEF LimitsInit
<1>2. /\ Count(Requests, request, PermitHolders) = 0 /\ Count(Requests, request, {"running"}) = 0
      /\ Count(Requests, request, Queued) = 0
  BY <1>1, CountNone DEF PermitHolders, Queued
<1>. QED
  BY <1>2, LimitsAssumption DEF LimitsInit, LimitsInv, RequestStates

(* A request takes a step: the counters change by what the sets it leaves  *)
(* and enters say.                                                         *)
Moves(r, to, dPermits, dFlight, dQueue, dLeaked) ==
    /\ request' = [request EXCEPT ![r] = to]
    /\ permits' = permits + dPermits /\ inFlight' = inFlight + dFlight
    /\ queueDepth' = queueDepth + dQueue /\ leaked' = leaked + dLeaked
    /\ dPermits = One(request[r], PermitHolders) - One(to, PermitHolders)
    /\ dFlight = One(to, {"running"}) - One(request[r], {"running"})
    /\ dQueue = dLeaked + One(to, Queued) - One(request[r], Queued)

LEMMA MoveKeeps ==
    ASSUME LimitsInv, NEW r \in Requests, NEW to \in RequestStates,
           NEW p \in {0 - 1, 0, 1}, NEW f \in {0 - 1, 0, 1}, NEW q \in {0 - 1, 0, 1}, NEW l \in {0, 1},
           Moves(r, to, p, f, q, l),
           p = 0 - 1 => permits > 0
    PROVE  LimitsInv'
<1> DEFINE from == request[r]
<1>1. /\ request' \in [Requests -> RequestStates] /\ request'[r] = to /\ from \in RequestStates
      /\ \A e \in Requests : e # r => request'[e] = request[e]
  BY DEF Moves, LimitsInv
<1>2. IsFiniteSet(Requests) /\ MaxConcurrent \in Nat
  BY LimitsAssumption
<1>3. ASSUME NEW S
      PROVE  /\ Count(Requests, request, S) \in Nat /\ Count(Requests, request', S) \in Nat
             /\ Count(Requests, request', S) =
                   Count(Requests, request, S) + One(to, S) - One(from, S)
  <2>1. OnlyMoves(Requests, request, request', r)
    BY <1>1 DEF OnlyMoves
  <2>. QED
    BY <1>1, <1>2, <2>1, CountFollows
<1>4. /\ permits' = permits + p /\ inFlight' = inFlight + f /\ queueDepth' = queueDepth + q
      /\ leaked' = leaked + l
      /\ p = One(from, PermitHolders) - One(to, PermitHolders)
      /\ f = One(to, {"running"}) - One(from, {"running"})
      /\ q = l + One(to, Queued) - One(from, Queued)
  BY DEF Moves
<1>5. /\ {permits, inFlight, queueDepth, leaked} \subseteq Nat
      /\ permits + Count(Requests, request, PermitHolders) = MaxConcurrent
      /\ inFlight = Count(Requests, request, {"running"})
      /\ queueDepth = leaked + Count(Requests, request, Queued)
  BY DEF LimitsInv
<1>7. One(from, PermitHolders) \in {0, 1} /\ One(to, PermitHolders) \in {0, 1}
      /\ One(from, Queued) \in {0, 1} /\ One(to, Queued) \in {0, 1}
      /\ One(from, {"running"}) \in {0, 1} /\ One(to, {"running"}) \in {0, 1}
  BY DEF One
<1> HIDE DEF from
<1>8. permits' \in Nat /\ permits' + Count(Requests, request', PermitHolders) = MaxConcurrent
  BY <1>2, <1>3, <1>4, <1>5, <1>7
<1>9. inFlight' = Count(Requests, request', {"running"}) /\ inFlight' \in Nat
  BY <1>3, <1>4, <1>5, <1>7
<1>10. /\ queueDepth' = leaked' + Count(Requests, request', Queued)
       /\ queueDepth' \in Nat /\ leaked' \in Nat
  BY <1>3, <1>4, <1>5, <1>7
<1>. QED
  BY <1>1, <1>8, <1>9, <1>10 DEF LimitsInv

LEMMA RequestKeeps ==
    ASSUME LimitsInv, NEW r \in Requests,
           \/ CheckRate(r) \/ ReserveSlot(r) \/ Acquire(r) \/ Granted(r) \/ Shed(r)
           \/ Unqueue(r) \/ CountIn(r) \/ DropGuard(r) \/ RejectionTold(r) \/ DropWait(r)
    PROVE  LimitsInv'
<1>1. permits \in Nat /\ inFlight \in Nat /\ queueDepth \in Nat /\ leaked \in Nat
  BY DEF LimitsInv
<1>2. CASE CheckRate(r)
  <2>1. /\ request[r] = "idle" /\ UNCHANGED <<permits, inFlight, queueDepth, leaked>>
        /\ request' = [request EXCEPT ![r] = "reserve"] \/ request' = [request EXCEPT ![r] = "rejected"]
    <3>1. Go(r, "reserve") \/ Go(r, "rejected")
      BY <1>2, Zenon DEF CheckRate
    <3>. QED
      BY <1>2, <3>1, Zenon DEF CheckRate, Go
  <2>2. Moves(r, "reserve", 0, 0, 0, 0) \/ Moves(r, "rejected", 0, 0, 0, 0)
    BY <1>1, <2>1 DEF Moves, One, PermitHolders, Queued
  <2>. QED
    BY <2>2, MoveKeeps DEF RequestStates
<1>3. CASE ReserveSlot(r)
  <2>1. Moves(r, "rejected", 0, 0, 0, 0) \/ Moves(r, "acquire", 0, 0, 1, 0)
    BY <1>1, <1>3 DEF ReserveSlot, Moves, One, PermitHolders, Queued, Go
  <2>. QED
    BY <2>1, MoveKeeps DEF RequestStates
<1>4. CASE Acquire(r)
  <2>1. \/ permits > 0 /\ Moves(r, "unqueue", 0 - 1, 0, 0, 0)
        \/ Moves(r, "shed", 0, 0, 0, 0)
        \/ Moves(r, "wait", 0, 0, 0, 0)
    BY <1>1, <1>4 DEF Acquire, Moves, One, PermitHolders, Queued, Go
  <2>. QED
    BY <2>1, MoveKeeps DEF RequestStates
<1>5. CASE Granted(r)
  <2>1. permits > 0 /\ Moves(r, "unqueue", 0 - 1, 0, 0, 0)
    BY <1>1, <1>5 DEF Granted, Moves, One, PermitHolders, Queued, Go
  <2>. QED
    BY <2>1, MoveKeeps DEF RequestStates
<1>6. CASE Shed(r)
  <2>1. Moves(r, "rejected", 0, 0, 0 - 1, 0)
    BY <1>1, <1>6 DEF Shed, Moves, One, PermitHolders, Queued, Go
  <2>. QED
    BY <2>1, MoveKeeps DEF RequestStates
<1>7. CASE Unqueue(r)
  <2>1. Moves(r, "count", 0, 0, 0 - 1, 0)
    BY <1>1, <1>7 DEF Unqueue, Moves, One, PermitHolders, Queued, Go
  <2>. QED
    BY <2>1, MoveKeeps DEF RequestStates
<1>8. CASE CountIn(r)
  <2>1. Moves(r, "running", 0, 1, 0, 0)
    BY <1>1, <1>8 DEF CountIn, Moves, One, PermitHolders, Queued, Go
  <2>. QED
    BY <2>1, MoveKeeps DEF RequestStates
<1>9. CASE DropGuard(r)
  <2>1. CASE request[r] = "running"
    <3>1. Moves(r, "release", 0, 0 - 1, 0, 0)
      BY <1>1, <1>9, <2>1 DEF DropGuard, Moves, One, PermitHolders, Queued, Go
    <3>. QED
      BY <3>1, MoveKeeps DEF RequestStates
  <2>2. CASE request[r] = "release"
    <3>1. Moves(r, "idle", 1, 0, 0, 0)
      BY <1>1, <1>9, <2>2 DEF DropGuard, Moves, One, PermitHolders, Queued, Go
    <3>. QED
      BY <3>1, MoveKeeps DEF RequestStates
  <2>. QED
    BY <1>9, <2>1, <2>2 DEF DropGuard
<1>10. CASE RejectionTold(r)
  <2>1. Moves(r, "idle", 0, 0, 0, 0)
    BY <1>1, <1>10 DEF RejectionTold, Moves, One, PermitHolders, Queued, Go
  <2>. QED
    BY <2>1, MoveKeeps DEF RequestStates
<1>11. CASE DropWait(r)
  <2>1. Moves(r, "idle", 0, 0, 0, 1)
    BY <1>1, <1>11 DEF DropWait, Moves, One, PermitHolders, Queued, Go
  <2>. QED
    BY <2>1, MoveKeeps DEF RequestStates
<1>. QED
  BY <1>2, <1>3, <1>4, <1>5, <1>6, <1>7, <1>8, <1>9, <1>10, <1>11

LEMMA LimitsStep ==
    ASSUME LimitsInv, LimitsNext \/ UNCHANGED limitVars PROVE LimitsInv'
<1>1. CASE UNCHANGED limitVars \/ WindowPasses
  <2>1. UNCHANGED <<permits, inFlight, queueDepth, request, leaked>>
    BY <1>1 DEF limitVars, WindowPasses
  <2>. QED
    BY <2>1 DEF LimitsInv
<1>. QED
  BY <1>1, RequestKeeps DEF LimitsNext

(* A request in flight holds a permit.                                     *)
LEMMA RunningHeld ==
    LimitsInv => Count(Requests, request, {"running"}) <= Count(Requests, request, PermitHolders)
<1> SUFFICES ASSUME LimitsInv
             PROVE  Count(Requests, request, {"running"}) <= Count(Requests, request, PermitHolders)
  OBVIOUS
<1> DEFINE A == {r \in Requests : request[r] \in {"running"}}
           B == {r \in Requests : request[r] \in PermitHolders}
<1>1. IsFiniteSet(B)
  <2>1. B \in SUBSET Requests
    OBVIOUS
  <2> HIDE DEF B
  <2>. QED
    BY <2>1, FS_Subset, LimitsAssumption
<1>2. A \in SUBSET B
  BY DEF PermitHolders
<1> HIDE DEF A, B
<1>3. Cardinality(A) <= Cardinality(B)
  BY <1>1, <1>2, FS_Subset
<1>. QED
  BY <1>3 DEF Count, A, B

-----------------------------------------------------------------------------
(* Batches.                                                                *)
LEMMA BatchStart == BatchInit => BatchInv
<1> SUFFICES ASSUME BatchInit PROVE BatchInv
  OBVIOUS
<1>1. \A b \in Batches : BatchTable[b] \notin {"wait", "process"}
  BY DEF BatchInit, BatchTable
<1>2. Count(Batches, BatchTable, {"wait", "process"}) = 0
  BY <1>1, CountNone
<1>3. batch \in [Batches -> [at : {"idle", "wait", "process", "adjust"}, size : Nat, seen : Nat]]
      /\ \A b \in Batches : batch[b].at = "idle"
  BY DEF BatchInit
<1>4. batchStats \in [batches : Nat, items : Nat, good : Nat, failed : Nat]
      /\ batchStats.good = 0 /\ batchStats.failed = 0 /\ batchStats.items = 0
  BY DEF BatchInit
<1>5. batchSize \in MinSize..MaxSize /\ pending = 0 /\ batchLeaked = 0
  BY LimitsAssumption DEF BatchInit
<1>. QED
  BY <1>2, <1>3, <1>4, <1>5 DEF BatchInv

BatchEntries == [at : {"idle", "wait", "process", "adjust"}, size : Nat, seen : Nat]
Working == {"wait", "process"}

(* One batch moves on, and the pending count follows.                      *)
LEMMA BatchCounts ==
    ASSUME BatchInv, NEW b \in Batches, NEW e \in BatchEntries, batch' = [batch EXCEPT ![b] = e]
    PROVE  /\ batch' \in [Batches -> BatchEntries] /\ batch'[b] = e
           /\ \A c \in Batches : c # b => batch'[c] = batch[c]
           /\ Count(Batches, BatchTable, Working) \in Nat
           /\ Count(Batches, BatchTable', Working) =
                 Count(Batches, BatchTable, Working) + One(e.at, Working) - One(batch[b].at, Working)
<1>1. batch \in [Batches -> BatchEntries]
  BY DEF BatchInv, BatchEntries
<1>2. /\ batch' \in [Batches -> BatchEntries] /\ batch'[b] = e
      /\ \A c \in Batches : c # b => batch'[c] = batch[c]
  BY <1>1
<1>3. IsFiniteSet(Batches)
  BY LimitsAssumption
<1>4. PICK old : old = BatchTable
  OBVIOUS
<1>5. PICK new : new = BatchTable'
  OBVIOUS
<1>6. old[b] = batch[b].at /\ new[b] = e.at
  BY <1>2, <1>4, <1>5 DEF BatchTable
<1>7. OnlyMoves(Batches, old, new, b)
  BY <1>2, <1>4, <1>5 DEF BatchTable, OnlyMoves
<1>8. /\ Count(Batches, old, Working) \in Nat
      /\ Count(Batches, new, Working) =
            Count(Batches, old, Working) + One(new[b], Working) - One(old[b], Working)
  BY <1>3, <1>7, CountFollows
<1>. QED
  BY <1>2, <1>4, <1>5, <1>6, <1>8

LEMMA BatchMoves ==
    ASSUME BatchInv, NEW b \in Batches, NEW e \in BatchEntries, batch' = [batch EXCEPT ![b] = e],
           e.at = "adjust" => e.seen \in MinSize..MaxSize,
           pending' \in Nat, batchLeaked' \in Nat,
           pending' - batchLeaked' =
              (pending - batchLeaked) + One(e.at, Working) - One(batch[b].at, Working)
    PROVE  /\ batch' \in [Batches -> BatchEntries]
           /\ \A c \in Batches : batch'[c].at = "adjust" => batch'[c].seen \in MinSize..MaxSize
           /\ pending' = batchLeaked' + Count(Batches, BatchTable', Working)
<1>1. /\ batch' \in [Batches -> BatchEntries] /\ batch'[b] = e
      /\ \A c \in Batches : c # b => batch'[c] = batch[c]
      /\ Count(Batches, BatchTable, Working) \in Nat
      /\ Count(Batches, BatchTable', Working) =
            Count(Batches, BatchTable, Working) + One(e.at, Working) - One(batch[b].at, Working)
  BY BatchCounts
<1>2. \A c \in Batches : batch[c].at = "adjust" => batch[c].seen \in MinSize..MaxSize
  BY DEF BatchInv
<1>3. pending \in Nat /\ batchLeaked \in Nat
      /\ pending = batchLeaked + Count(Batches, BatchTable, Working)
  BY DEF BatchInv, Working
<1>4. One(e.at, Working) \in {0, 1} /\ One(batch[b].at, Working) \in {0, 1}
  BY DEF One
<1>5. pending' = batchLeaked' + Count(Batches, BatchTable', Working)
  BY <1>1, <1>3, <1>4
<1>. QED
  BY <1>1, <1>2, <1>5

LEMMA ClampedInBounds == ASSUME NEW n \in Int PROVE Clamped(n) \in MinSize..MaxSize
BY LimitsAssumption DEF Clamped

LEMMA SteppedIsInt == ASSUME NEW m \in Nat, NEW n \in Nat PROVE Stepped(m, n) \in Int
BY DEF Stepped

LEMMA BatchStep ==
    ASSUME BatchInv, BatchNext \/ UNCHANGED batchVars PROVE BatchInv'
<1>1. ASSUME UNCHANGED batchVars PROVE BatchInv'
  BY <1>1 DEF batchVars, BatchInv, BatchTable
<1>2. ASSUME NEW b \in Batches, NEW e \in BatchEntries, batch' = [batch EXCEPT ![b] = e],
             e.at = "adjust" => e.seen \in MinSize..MaxSize,
             pending' \in Nat, batchLeaked' \in Nat,
             pending' - batchLeaked' =
                (pending - batchLeaked) + One(e.at, Working) - One(batch[b].at, Working),
             batchSize' \in MinSize..MaxSize,
             batchStats' \in [batches : Nat, items : Nat, good : Nat, failed : Nat],
             batchStats'.good + batchStats'.failed = batchStats'.items
      PROVE  BatchInv'
  <2>1. /\ batch' \in [Batches -> BatchEntries]
        /\ \A c \in Batches : batch'[c].at = "adjust" => batch'[c].seen \in MinSize..MaxSize
        /\ pending' = batchLeaked' + Count(Batches, BatchTable', Working)
    BY <1>2, BatchMoves
  <2>. QED
    BY <1>2, <2>1 DEF BatchInv, BatchEntries, Working
<1>3. /\ pending \in Nat /\ batchLeaked \in Nat /\ batchSize \in MinSize..MaxSize /\ batchSize \in Nat
      /\ batchStats \in [batches : Nat, items : Nat, good : Nat, failed : Nat]
      /\ batchStats.good + batchStats.failed = batchStats.items
      /\ \A b \in Batches : batch[b] \in BatchEntries
  BY LimitsAssumption DEF BatchInv, BatchEntries
<1>4. ASSUME NEW b \in Batches, NEW bounded \in BOOLEAN, BatchReserve(b, bounded) PROVE BatchInv'
  <2> DEFINE e == [at |-> "wait", size |-> batchSize, seen |-> 0]
  <2>1. e \in BatchEntries /\ e.at = "wait"
    BY <1>3 DEF BatchEntries
  <2>2. /\ batch' = [batch EXCEPT ![b] = e] /\ pending' = pending + 1 /\ batch[b].at = "idle"
        /\ UNCHANGED <<batchPermits, batchSize, batchStats, batchLeaked>>
    BY <1>4 DEF BatchReserve
  <2> HIDE DEF e
  <2>w. pending' \in Nat /\ batchLeaked' \in Nat /\
        pending' - batchLeaked' =
           (pending - batchLeaked) + One(e.at, Working) - One(batch[b].at, Working)
    BY <1>3, <2>1, <2>2 DEF One, Working
  <2>. QED
    BY <1>2, <1>3, <2>1, <2>2, <2>w
<1>5. ASSUME NEW b \in Batches, BatchAcquire(b) PROVE BatchInv'
  <2> DEFINE e == [batch[b] EXCEPT !.at = "process"]
  <2>1. e \in BatchEntries /\ e.at = "process"
    BY <1>3 DEF BatchEntries
  <2>2. /\ batch' = [batch EXCEPT ![b] = e] /\ batch[b].at = "wait"
        /\ UNCHANGED <<pending, batchSize, batchStats, batchLeaked>>
    BY <1>5 DEF BatchAcquire
  <2> HIDE DEF e
  <2>w. pending' \in Nat /\ batchLeaked' \in Nat /\
        pending' - batchLeaked' =
           (pending - batchLeaked) + One(e.at, Working) - One(batch[b].at, Working)
    BY <1>3, <2>1, <2>2 DEF One, Working
  <2>. QED
    BY <1>2, <1>3, <2>1, <2>2, <2>w
<1>6. ASSUME NEW b \in Batches, BatchDrop(b) PROVE BatchInv'
  <2> DEFINE e == [at |-> "idle", size |-> 0, seen |-> 0]
  <2>1. e \in BatchEntries /\ e.at = "idle"
    BY DEF BatchEntries
  <2>2. /\ batch' = [batch EXCEPT ![b] = e] /\ batch[b].at \in Working
        /\ batchLeaked' = batchLeaked + 1 /\ UNCHANGED <<pending, batchSize, batchStats>>
    BY <1>6 DEF BatchDrop, Working
  <2> HIDE DEF e
  <2>w. pending' \in Nat /\ batchLeaked' \in Nat /\
        pending' - batchLeaked' =
           (pending - batchLeaked) + One(e.at, Working) - One(batch[b].at, Working)
    BY <1>3, <2>1, <2>2 DEF One, Working
  <2>. QED
    BY <1>2, <1>3, <2>1, <2>2, <2>w
<1>7. ASSUME NEW b \in Batches, NEW oks \in {0, 1, MaxSize + 1}, BatchRecord(b, oks) PROVE BatchInv'
  <2> DEFINE e == [batch[b] EXCEPT !.at = "adjust", !.seen = batchSize]
             n == batch[b].size
             good == Successes(n, oks)
  <2>1. e \in BatchEntries /\ e.at = "adjust" /\ e.seen = batchSize /\ n \in Nat
    BY <1>3 DEF BatchEntries
  <2>2. batch[b].at = "process" /\ batch' = [batch EXCEPT ![b] = e]
        /\ pending' = (IF pending = 0 THEN 0 ELSE pending - 1) /\ UNCHANGED <<batchSize, batchLeaked>>
    BY <1>7 DEF BatchRecord
  <2>3. batchStats' = [batches |-> batchStats.batches + 1, items |-> batchStats.items + n,
                       good |-> batchStats.good + good,
                       failed |-> batchStats.failed + (IF good > n THEN 0 ELSE n - good)]
    BY <1>7 DEF BatchRecord
  <2>4. good \in Nat /\ good <= n
    <3>1. oks \in Nat
      BY LimitsAssumption
    <3>. QED
      BY <2>1, <3>1 DEF Successes
  <2> HIDE DEF e, n, good
  <2>5. /\ batchStats' \in [batches : Nat, items : Nat, good : Nat, failed : Nat]
        /\ batchStats'.good + batchStats'.failed = batchStats'.items
    BY <1>3, <2>1, <2>3, <2>4
  <2>6. pending >= 1
    <3>1. BatchTable[b] \in {"wait", "process"}
      BY <2>2 DEF BatchTable
    <3>2. Count(Batches, BatchTable, {"wait", "process"}) >= 1
      BY <3>1, CountPositive, LimitsAssumption
    <3>3. Count(Batches, BatchTable, {"wait", "process"}) \in Nat
      BY CountIsNat, LimitsAssumption
    <3>. QED
      BY <1>3, <3>2, <3>3 DEF BatchInv
  <2>w. pending' \in Nat /\ batchLeaked' \in Nat /\
        pending' - batchLeaked' =
           (pending - batchLeaked) + One(e.at, Working) - One(batch[b].at, Working)
    BY <1>3, <2>1, <2>2, <2>5, <2>6 DEF One, Working
  <2>. QED
    BY <1>2, <1>3, <2>1, <2>2, <2>5, <2>6, <2>w
<1>8. ASSUME NEW b \in Batches, NEW ideal \in {0, MinSize, MaxSize, 2 * MaxSize},
             BatchAdjust(b, ideal)
      PROVE  BatchInv'
  <2> DEFINE e == [at |-> "idle", size |-> 0, seen |-> 0]
             next == Clamped(Stepped(batch[b].seen, ideal))
  <2>1. e \in BatchEntries /\ e.at = "idle"
    BY DEF BatchEntries
  <2>2. /\ batch' = [batch EXCEPT ![b] = e] /\ batch[b].at = "adjust"
        /\ batchSize' \in {batchSize, next} /\ UNCHANGED <<pending, batchStats, batchLeaked>>
    BY <1>8 DEF BatchAdjust
  <2>3. next \in MinSize..MaxSize
    <3>1. ideal \in Nat /\ batch[b].seen \in Nat
      BY <1>3, LimitsAssumption DEF BatchEntries
    <3>. QED
      BY <3>1, SteppedIsInt, ClampedInBounds
  <2> HIDE DEF e, next
  <2>w. pending' \in Nat /\ batchLeaked' \in Nat /\
        pending' - batchLeaked' =
           (pending - batchLeaked) + One(e.at, Working) - One(batch[b].at, Working)
    BY <1>3, <2>1, <2>2, <2>3 DEF One, Working
  <2>. QED
    BY <1>2, <1>3, <2>1, <2>2, <2>3, <2>w
<1>. QED
  BY <1>1, <1>4, <1>5, <1>6, <1>7, <1>8 DEF BatchNext

-----------------------------------------------------------------------------
LEMMA LimitsFollow == LimitsInv /\ BatchInv => LimitsKept
<1> SUFFICES ASSUME LimitsInv, BatchInv PROVE LimitsKept
  OBVIOUS
<1>1. /\ Count(Requests, request, {"running"}) \in Nat /\ Count(Requests, request, PermitHolders) \in Nat
  BY CountIsNat, LimitsAssumption
<1>2. InFlightIsPermitted
  BY <1>1, RunningHeld, LimitsAssumption DEF LimitsInv, InFlightIsPermitted
<1>3. LimitsAtRest
  <2> SUFFICES ASSUME \A r \in Requests : request[r] \in {"idle", "rejected"}
               PROVE  permits = MaxConcurrent /\ inFlight = 0 /\ queueDepth = leaked
    BY DEF LimitsAtRest
  <2>1. /\ Count(Requests, request, PermitHolders) = 0 /\ Count(Requests, request, {"running"}) = 0
        /\ Count(Requests, request, Queued) = 0
    BY CountNone DEF PermitHolders, Queued
  <2>. QED
    BY <2>1 DEF LimitsInv
<1>4. BatchesAccounted
  <2>1. {b \in Batches : BatchTable[b] \in {"wait", "process"}} =
        {b \in Batches : batch[b].at \in {"wait", "process"}}
    BY DEF BatchTable
  <2>. QED
    BY <2>1 DEF BatchInv, BatchesAccounted, Count
<1>. QED
  BY <1>2, <1>3, <1>4 DEF LimitsKept, BatchInv, BatchSizeBounded

(* The limits hold for every number of requests, permits and slots: every  *)
(* permit is free or held by one request, so that no more run than are     *)
(* permitted, and at rest only the slots of dropped waits are still taken; *)
(* batches are accounted for and the adaptive size stays in its bounds,    *)
(* whichever adjustments race.                                             *)
THEOREM LimitsAlwaysKept == LimitsSpec => []LimitsKept
<1>1. LimitsInit /\ BatchInit => LimitsInv /\ BatchInv
  BY LimitsStart, BatchStart
<1>2. LimitsInv /\ BatchInv /\ [\/ LimitsNext /\ UNCHANGED batchVars
                                \/ BatchNext /\ UNCHANGED limitVars]_<<limitVars, batchVars>>
        => (LimitsInv /\ BatchInv)'
  BY LimitsStep, BatchStep
<1>3. LimitsSpec => [](LimitsInv /\ BatchInv)
  BY <1>1, <1>2, PTL DEF LimitsSpec
<1>. QED
  BY <1>3, LimitsFollow, PTL

-----------------------------------------------------------------------------
(* Searches.  A search that asks an unhealthy shard claimed it, or has run *)
(* since before the shard was marked; both keep every other search away    *)
(* from it, because no search is as old as a claim or a mark that lapses.  *)

SearchRecords ==
    [at : {"idle", "collect"}, asked : SUBSET Shards, left : SUBSET Shards, probes : SUBSET Shards,
     age : Nat, late : BOOLEAN, responding : SUBSET Shards, missing : SUBSET Shards]

(* What a running search knows of its shards.                              *)
RunFits(r) ==
    r.at = "collect" =>
        /\ r.age < RetryAfter
        /\ r.left \cup r.responding \subseteq r.asked /\ r.probes \subseteq r.asked
        /\ r.asked \cap poolless = {}
        /\ r.left \cup r.responding \cup r.missing = Shards
        /\ r.left \cap r.responding = {} /\ r.left \cap r.missing = {} /\ r.responding \cap r.missing = {}

(* Why a search asks a shard: it is healthy, was when the search started,  *)
(* or is the search's own probe.                                           *)
Justified(r, s, H, U, C) ==
    H[s] \/ (U[s] # Never /\ U[s] <= r.age) \/ (s \in r.probes /\ C[s] = r.age)

AloneOn(sr, c, s) == \A d \in Searches : d # c /\ sr[d].at = "collect" => s \notin sr[d].asked

ProbesSound(sr, H, U, C) ==
    \A c \in Searches : sr[c].at = "collect" =>
        /\ \A s \in sr[c].asked : Justified(sr[c], s, H, U, C)
        /\ \A s \in sr[c].probes : ~H[s] /\ AloneOn(sr, c, s)

SearchTypes ==
    /\ healthy \in [Shards -> BOOLEAN] /\ search \in [Searches -> SearchRecords]
    /\ unhealthyFor \in [Shards -> Nat \cup {Never}] /\ claimedFor \in [Shards -> Nat \cup {Never}]
    /\ mended \in BOOLEAN

SearchInv ==
    /\ SearchTypes
    /\ \A s \in Shards : s \in poolless => healthy[s]
    /\ \A c \in Searches : RunFits(search[c])
    /\ ~fellBack => ProbesSound(search, healthy, unhealthyFor, claimedFor)

LEMMA NoSearchFits ==
    NoSearch \in SearchRecords /\ NoSearch.at = "idle" /\ RunFits(NoSearch)
<1>1. NoSearch \in SearchRecords
  <2>1. 0 \in Nat /\ {} \in SUBSET Shards
    OBVIOUS
  <2>. QED
    BY <2>1, Zenon DEF NoSearch, SearchRecords
<1>2. NoSearch.at = "idle"
  BY DEF NoSearch
<1>. QED
  BY <1>1, <1>2 DEF RunFits

LEMMA SearchStart == SearchInit => SearchInv
<1> SUFFICES ASSUME SearchInit PROVE SearchInv
  OBVIOUS
<1>1. \A c \in Searches : search[c] = NoSearch
  BY DEF SearchInit
<1>2. healthy \in [Shards -> BOOLEAN] /\ \A s \in Shards : healthy[s]
  BY DEF SearchInit
<1>3. search \in [Searches -> SearchRecords]
  BY NoSearchFits DEF SearchInit
<1>4. unhealthyFor \in [Shards -> Nat \cup {Never}] /\ claimedFor \in [Shards -> Nat \cup {Never}]
  BY DEF SearchInit
<1>5. mended \in BOOLEAN
  BY DEF SearchInit
<1>6. ProbesSound(search, healthy, unhealthyFor, claimedFor)
  BY <1>1, NoSearchFits DEF ProbesSound
<1>. QED
  BY <1>1, <1>2, <1>3, <1>4, <1>5, <1>6, NoSearchFits DEF SearchInv, SearchTypes

LEMMA LeastShard == ASSUME NEW S \in SUBSET Nat, S # {} PROVE Min(S) \in S
<1> DEFINE R == OpToRel(<, Nat)
<1>1. IsWellFoundedOn(R, Nat)
  BY NatLessThanWellFounded
<1>2. \A m, n \in Nat : <<m, n>> \in R <=> m < n
  BY DEF OpToRel
<1> HIDE DEF R
<1>3. PICK x \in S : \A y \in S : ~(<<y, x>> \in R)
  BY <1>1, WFMin
<1>4. \A y \in S : x <= y
  <2> SUFFICES ASSUME NEW y \in S PROVE x <= y
    OBVIOUS
  <2>1. ~(y < x)
    BY <1>2, <1>3
  <2>. QED
    BY <2>1
<1>. QED
  BY <1>4 DEF Min

(* The verdict counts shards; the rest of them are missing.                *)
LEMMA VerdictCounts ==
    ASSUME NEW R, NEW M, R \cup M = Shards, R \cap M = {}
    PROVE  (Verdict(R) = "Completed")
           <=> (Cardinality(M) * 100 <= (100 - MinCoverage) * Cardinality(Shards))
<1> DEFINE r == Cardinality(R)
           m == Cardinality(M)
           n == Cardinality(Shards)
<1>1. IsFiniteSet(R) /\ IsFiniteSet(M)
  BY FS_Subset, SearchAssumption
<1>2. r \in Nat /\ m \in Nat /\ n \in Nat
  BY <1>1, FS_CardinalityType, SearchAssumption
<1>3. n = r + m
  <2>1. n = r + m - Cardinality(R \cap M)
    BY <1>1, FS_Union
  <2>2. Cardinality(R \cap M) = 0
    BY FS_EmptySet
  <2>. QED
    BY <1>2, <2>1, <2>2
<1> HIDE DEF r, m, n
<1>4. ASSUME NEW k \in 0..100 PROVE (r * 100 >= k * n) <=> (m * 100 <= (100 - k) * n)
  BY <1>2, <1>3
<1>5. (r * 100 >= MinCoverage * n) <=> (m * 100 <= (100 - MinCoverage) * n)
  BY <1>4, SearchAssumption
<1>. QED
  BY <1>5 DEF Verdict, r, m, n

LEMMA AccountsFollow == SearchInv => AnswerAccounts
<1> SUFFICES ASSUME SearchInv, NEW c \in Searches, Running(c), search[c].left = {}
             PROVE  LET r == search[c] IN
                    /\ r.responding \cup r.missing = Shards /\ r.responding \cap r.missing = {}
                    /\ (Verdict(r.responding) = "Completed")
                       <=> (Cardinality(r.missing) * 100 <= (100 - MinCoverage) * Cardinality(Shards))
  BY DEF AnswerAccounts
<1>1. /\ search[c].responding \cup search[c].missing = Shards
      /\ search[c].responding \cap search[c].missing = {}
  BY DEF SearchInv, RunFits, Running
<1>. QED
  BY <1>1, VerdictCounts

LEMMA AloneFollows == SearchInv => ProbedAlone
<1> SUFFICES ASSUME SearchInv, ~fellBack, NEW c \in Searches, NEW d \in Searches, c # d,
                    Running(c), Running(d), NEW s, s \in search[c].probes, s \in search[d].probes
             PROVE  FALSE
  BY DEF ProbedAlone
<1>1. AloneOn(search, c, s)
  BY DEF SearchInv, ProbesSound, Running
<1>2. s \in search[d].asked
  BY DEF SearchInv, RunFits, Running
<1>. QED
  BY <1>1, <1>2 DEF AloneOn, Running

(* A shard that a running search asks is not up for a probe.               *)
LEMMA AskedNotProbed ==
    ASSUME SearchInv, ~fellBack, NEW d \in Searches, Running(d), NEW s \in search[d].asked
    PROVE  s \notin Probed
<1>1. Justified(search[d], s, healthy, unhealthyFor, claimedFor)
  BY DEF SearchInv, ProbesSound, Running
<1>2. s \in Shards /\ search[d].age \in Nat /\ search[d].age < RetryAfter
  BY DEF SearchInv, SearchTypes, SearchRecords, RunFits, Running
<1>3. CASE healthy[s]
  BY <1>3 DEF Probed
<1>4. CASE unhealthyFor[s] # Never /\ unhealthyFor[s] <= search[d].age
  BY <1>2, <1>4, SearchAssumption DEF Probed, RetryDue
<1>5. CASE s \in search[d].probes /\ claimedFor[s] = search[d].age
  BY <1>2, <1>5, SearchAssumption DEF Probed, Claimed
<1>. QED
  BY <1>1, <1>3, <1>4, <1>5 DEF Justified

LEMMA StartKeeps ==
    ASSUME SearchInv, NEW c \in Searches, StartSearch(c), poolless' = poolless PROVE SearchInv'
<1> DEFINE asked == Selected \ poolless
           n == [NoSearch EXCEPT !.at = "collect", !.asked = asked, !.left = asked,
                                 !.probes = Probed, !.late = ~mended, !.missing = Missed(Selected)]
<1>1. /\ claimedFor' = [s \in Shards |-> IF s \in Probed THEN 0 ELSE claimedFor[s]]
      /\ search' = [search EXCEPT ![c] = n]
      /\ healthy' = healthy /\ unhealthyFor' = unhealthyFor /\ mended' = mended
      /\ ~Running(c)
  BY DEF StartSearch
<1>2. Selected \subseteq Shards /\ Probed \subseteq Shards /\ Probed \subseteq Selected
  BY DEF Selected, Probed
<1>3. Probed \cap poolless = {}
  BY DEF Probed, SearchInv
<1>4. Missed(Selected) = Shards \ asked
  BY <1>2 DEF Missed
<1>5. NoSearch \in SearchRecords
  BY NoSearchFits
<1>6. /\ n.at = "collect" /\ n.asked = asked /\ n.left = asked /\ n.probes = Probed /\ n.age = 0
      /\ n.responding = {} /\ n.missing = Shards \ asked
  <2> HIDE DEF asked
  <2>1. NoSearch.age = 0 /\ NoSearch.responding = {}
    BY DEF NoSearch
  <2>. QED
    BY <1>4, <1>5, <2>1 DEF SearchRecords
<1>7. n \in SearchRecords
  <2>1. /\ asked \in SUBSET Shards /\ Missed(Selected) \in SUBSET Shards /\ Probed \in SUBSET Shards
        /\ "collect" \in {"idle", "collect"}
    BY <1>2, <1>4
  <2>2. (~mended) \in BOOLEAN
    BY Zenon
  <2> HIDE DEF asked
  <2>. QED
    BY <1>5, <2>1, <2>2, Zenon DEF SearchRecords
<1>8. RunFits(n)
  BY <1>2, <1>3, <1>6, SearchAssumption DEF RunFits
<1>9. ~fellBack' => ~fellBack /\ \A s \in Shards : s \in Selected => healthy[s] \/ s \in Probed
  <2>1. fellBack' = (fellBack \/ (Probed = {} /\ \A s \in Shards : ~healthy[s]))
    BY DEF StartSearch
  <2>2. ~fellBack' => ~fellBack /\ ~(Probed = {} /\ \A s \in Shards : ~healthy[s])
    BY <2>1, Zenon
  <2>3. ~(Probed = {} /\ \A s \in Shards : ~healthy[s])
        => Selected = {s \in Shards : healthy[s]} \cup Probed
    BY DEF Selected
  <2>. QED
    BY <2>2, <2>3
<1> HIDE DEF n, asked
<1>10. search'[c] = n /\ \A d \in Searches : d # c => search'[d] = search[d]
  BY <1>1 DEF SearchInv, SearchTypes
<1>11. SearchTypes'
  <2>1. search' \in [Searches -> SearchRecords]
    BY <1>1, <1>7 DEF SearchInv, SearchTypes
  <2>2. claimedFor' \in [Shards -> Nat \cup {Never}]
    BY <1>1 DEF SearchInv, SearchTypes
  <2>. QED
    BY <1>1, <2>1, <2>2 DEF SearchInv, SearchTypes
<1>12. \A d \in Searches : RunFits(search'[d])
  BY <1>8, <1>10 DEF SearchInv
<1>13. ASSUME ~fellBack' PROVE ProbesSound(search', healthy', unhealthyFor', claimedFor')
  <2>1. ~fellBack /\ \A s \in Shards : s \in Selected => healthy[s] \/ s \in Probed
    BY <1>9, <1>13
  <2>2. ASSUME NEW d \in Searches, d # c, search[d].at = "collect", NEW s \in search[d].asked
        PROVE  s \in Shards /\ s \notin Probed /\ claimedFor'[s] = claimedFor[s]
               /\ Justified(search[d], s, healthy, unhealthyFor, claimedFor)
    <3>1. s \in Shards
      BY <2>2 DEF SearchInv, SearchTypes, SearchRecords
    <3>2. s \notin Probed
      BY <2>1, <2>2, AskedNotProbed DEF Running
    <3>3. Justified(search[d], s, healthy, unhealthyFor, claimedFor)
      BY <2>1, <2>2 DEF SearchInv, ProbesSound
    <3>. QED
      BY <1>1, <3>1, <3>2, <3>3
  <2>3. ASSUME NEW s \in n.asked PROVE Justified(n, s, healthy', unhealthyFor', claimedFor')
    <3>1. s \in Shards /\ (healthy[s] \/ s \in Probed)
      BY <1>2, <1>6, <2>1 DEF asked
    <3>2. s \in Probed => claimedFor'[s] = n.age /\ s \in n.probes
      BY <1>1, <1>6, <3>1
    <3>. QED
      BY <1>1, <3>1, <3>2 DEF Justified
  <2>4. ASSUME NEW s \in n.probes PROVE ~healthy'[s] /\ AloneOn(search', c, s)
    <3>1. s \in Probed
      BY <1>6
    <3>2. ~healthy'[s]
      BY <1>1, <3>1 DEF Probed
    <3>3. ASSUME NEW d \in Searches, d # c, search'[d].at = "collect" PROVE s \notin search'[d].asked
      BY <1>10, <2>2, <3>1, <3>3
    <3>. QED
      BY <3>2, <3>3 DEF AloneOn
  <2>5. ASSUME NEW d \in Searches, d # c, search[d].at = "collect", NEW s \in search[d].asked
        PROVE  Justified(search[d], s, healthy', unhealthyFor', claimedFor')
    BY <1>1, <2>2, <2>5 DEF Justified
  <2>6. ASSUME NEW d \in Searches, d # c, search[d].at = "collect", NEW s \in search[d].probes
        PROVE  ~healthy'[s] /\ AloneOn(search', d, s)
    <3>1. ~healthy[s] /\ AloneOn(search, d, s)
      BY <2>1, <2>6 DEF SearchInv, ProbesSound
    <3>2. s \in search[d].asked
      BY <2>6 DEF SearchInv, RunFits
    <3>3. s \in Shards /\ s \notin Probed
      BY <2>2, <2>6, <3>2
    <3>4. s \notin n.asked
      BY <1>6, <2>1, <3>1, <3>3 DEF asked
    <3>. QED
      BY <1>1, <1>10, <3>1, <3>4 DEF AloneOn
  <2>7. ASSUME NEW d \in Searches, search'[d].at = "collect"
        PROVE  /\ \A s \in search'[d].asked : Justified(search'[d], s, healthy', unhealthyFor', claimedFor')
               /\ \A s \in search'[d].probes : ~healthy'[s] /\ AloneOn(search', d, s)
    <3>1. CASE d = c
      BY <1>10, <2>3, <2>4, <3>1
    <3>2. CASE d # c
      <4>1. search'[d] = search[d]
        BY <1>10, <3>2
      <4>. QED
        BY <2>5, <2>6, <2>7, <3>2, <4>1
    <3>. QED
      BY <3>1, <3>2
  <2>. QED
    BY <2>7 DEF ProbesSound
<1>14. \A s \in Shards : s \in poolless' => healthy'[s]
  BY <1>1 DEF SearchInv
<1>15. \A d \in Searches : RunFits(search[d])'
  BY <1>12 DEF RunFits
<1>. QED
  BY <1>11, <1>13, <1>14, <1>15 DEF SearchInv

(* An answer of a shard, or its failure.                                   *)
LEMMA CollectKeeps ==
    ASSUME SearchInv, NEW c \in Searches, NEW what, CollectNext(c, what), poolless' = poolless
    PROVE  SearchInv'
<1> DEFINE r == search[c]
           s == Min(r.left)
           yes == [r EXCEPT !.left = r.left \ {s}, !.responding = r.responding \cup {s}]
           no == [r EXCEPT !.left = r.left \ {s}, !.missing = r.missing \cup {s}]
           n == IF what = "results" THEN yes ELSE no
<1>1. /\ r.at = "collect" /\ r.left # {} /\ mended' = mended /\ fellBack' = fellBack
      /\ search' = [search EXCEPT ![c] = n]
  BY DEF CollectNext, Running, SearchInv, SearchTypes
<1>2. r \in SearchRecords /\ RunFits(r)
  BY DEF SearchInv, SearchTypes
<1>3. s \in r.left
  <2>1. r.left \in SUBSET Nat
    BY <1>2, SearchAssumption DEF SearchRecords
  <2>. QED
    BY <1>1, <2>1, LeastShard
<1>4. s \in Shards /\ s \in r.asked /\ s \notin poolless
  BY <1>1, <1>2, <1>3 DEF SearchRecords, RunFits
<1>5. \/ healthy' = healthy /\ unhealthyFor' = unhealthyFor /\ claimedFor' = claimedFor
      \/ /\ healthy' = [healthy EXCEPT ![s] = FALSE] /\ unhealthyFor' = [unhealthyFor EXCEPT ![s] = 0]
         /\ claimedFor' = [claimedFor EXCEPT ![s] = Never]
  BY DEF CollectNext, Ailing
<1> HIDE DEF s
<1>6. /\ n \in SearchRecords /\ n.at = r.at /\ n.asked = r.asked /\ n.probes = r.probes
      /\ n.age = r.age /\ n.left = r.left \ {s}
      /\ \/ n.responding = r.responding \cup {s} /\ n.missing = r.missing
         \/ n.missing = r.missing \cup {s} /\ n.responding = r.responding
  <2>0. /\ (r.left \ {s}) \in SUBSET Shards /\ (r.responding \cup {s}) \in SUBSET Shards
        /\ (r.missing \cup {s}) \in SUBSET Shards
    BY <1>2, <1>4 DEF SearchRecords
  <2> HIDE DEF r
  <2>1. yes \in SearchRecords /\ no \in SearchRecords
    BY <1>2, <2>0, Zenon DEF SearchRecords
  <2>2. /\ yes.at = r.at /\ yes.asked = r.asked /\ yes.probes = r.probes
        /\ yes.age = r.age /\ yes.left = r.left \ {s}
        /\ yes.responding = r.responding \cup {s} /\ yes.missing = r.missing
    BY <1>2 DEF SearchRecords
  <2>3. /\ no.at = r.at /\ no.asked = r.asked /\ no.probes = r.probes
        /\ no.age = r.age /\ no.left = r.left \ {s}
        /\ no.missing = r.missing \cup {s} /\ no.responding = r.responding
    BY <1>2 DEF SearchRecords
  <2>4. n = yes \/ n = no
    OBVIOUS
  <2> HIDE DEF yes, no, n
  <2>. QED
    BY <2>1, <2>2, <2>3, <2>4
<1> HIDE DEF n
<1>7. RunFits(n)
  BY <1>1, <1>2, <1>3, <1>4, <1>6 DEF RunFits
<1>8. search'[c] = n /\ \A d \in Searches : d # c => search'[d] = search[d]
  BY <1>1 DEF SearchInv, SearchTypes
<1>9. \A d \in Searches : /\ search'[d].at = search[d].at /\ search'[d].asked = search[d].asked
                          /\ search'[d].probes = search[d].probes /\ search'[d].age = search[d].age
  BY <1>6, <1>8
<1>10. \A d \in Searches : search[d].age \in Nat /\ search[d].asked \subseteq Shards
                           /\ search[d].probes \subseteq Shards
  BY DEF SearchInv, SearchTypes, SearchRecords
<1>11. SearchTypes'
  <2>1. search' \in [Searches -> SearchRecords]
    BY <1>1, <1>6 DEF SearchInv, SearchTypes
  <2>2. healthy' \in [Shards -> BOOLEAN]
    BY <1>5, Zenon DEF SearchInv, SearchTypes
  <2>3. unhealthyFor' \in [Shards -> Nat \cup {Never}] /\ claimedFor' \in [Shards -> Nat \cup {Never}]
    BY <1>5 DEF SearchInv, SearchTypes
  <2>. QED
    BY <1>1, <2>1, <2>2, <2>3 DEF SearchInv, SearchTypes
<1>12. \A x \in Shards : (healthy'[x] => healthy[x]) /\ (x # s => healthy'[x] = healthy[x])
  BY <1>4, <1>5 DEF SearchInv, SearchTypes
<1>13. ASSUME ~fellBack' PROVE ProbesSound(search', healthy', unhealthyFor', claimedFor')
  <2>1. ProbesSound(search, healthy, unhealthyFor, claimedFor)
    BY <1>1, <1>13 DEF SearchInv
  <2> SUFFICES ASSUME NEW d \in Searches, search'[d].at = "collect"
               PROVE  /\ \A x \in search'[d].asked : Justified(search'[d], x, healthy', unhealthyFor', claimedFor')
                      /\ \A x \in search'[d].probes : ~healthy'[x] /\ AloneOn(search', d, x)
    BY DEF ProbesSound
  <2>2. ASSUME NEW x \in search'[d].asked
        PROVE  Justified(search'[d], x, healthy', unhealthyFor', claimedFor')
    <3>1. x \in Shards /\ Justified(search[d], x, healthy, unhealthyFor, claimedFor)
      BY <1>9, <1>10, <2>1 DEF ProbesSound
    <3>2. CASE healthy'[x] = healthy[x] /\ unhealthyFor'[x] = unhealthyFor[x] /\ claimedFor'[x] = claimedFor[x]
      BY <1>9, <3>1, <3>2 DEF Justified
    <3>3. CASE unhealthyFor'[x] = 0
      BY <1>9, <1>10, <3>3, SearchAssumption DEF Justified
    <3>. QED
      BY <1>4, <1>5, <3>1, <3>2, <3>3 DEF SearchInv, SearchTypes
  <2>3. ASSUME NEW x \in search'[d].probes PROVE ~healthy'[x] /\ AloneOn(search', d, x)
    <3>1. x \in Shards /\ ~healthy[x] /\ AloneOn(search, d, x)
      BY <1>9, <1>10, <2>1 DEF ProbesSound
    <3>. QED
      BY <1>9, <1>12, <3>1 DEF AloneOn
  <2>. QED
    BY <2>2, <2>3
<1>14. \A x \in Shards : x \in poolless' => healthy'[x]
  BY <1>4, <1>12 DEF SearchInv
<1>15. \A d \in Searches : RunFits(search[d])'
  <2>1. \A d \in Searches : RunFits(search'[d])
    BY <1>7, <1>8 DEF SearchInv
  <2>. QED
    BY <2>1 DEF RunFits
<1>. QED
  BY <1>11, <1>13, <1>14, <1>15 DEF SearchInv

(* A search ends, answered or dropped.                                     *)
LEMMA FinishKeeps ==
    ASSUME SearchInv, NEW c \in Searches, FinishSearch(c), poolless' = poolless PROVE SearchInv'
<1> DEFINE r == search[c]
<1>1. /\ healthy' = [s \in Shards |-> healthy[s] \/ s \in r.responding]
      /\ unhealthyFor' = [s \in Shards |-> IF s \in r.responding THEN Never ELSE unhealthyFor[s]]
      /\ claimedFor' = [s \in Shards |-> IF s \in r.asked THEN Never ELSE claimedFor[s]]
      /\ search' = [search EXCEPT ![c] = NoSearch] /\ r.at = "collect"
      /\ mended' = mended /\ fellBack' = fellBack
  BY DEF FinishSearch, Running
<1>2. r.responding \subseteq r.asked
  BY <1>1 DEF SearchInv, RunFits
<1>3. search'[c] = NoSearch /\ \A d \in Searches : d # c => search'[d] = search[d]
  BY <1>1 DEF SearchInv, SearchTypes
<1>4. SearchTypes'
  <2>1. search' \in [Searches -> SearchRecords]
    BY <1>1, NoSearchFits DEF SearchInv, SearchTypes
  <2>2. healthy' \in [Shards -> BOOLEAN]
    BY <1>1, Zenon
  <2>3. /\ unhealthyFor' \in [Shards -> Nat \cup {Never}]
        /\ claimedFor' \in [Shards -> Nat \cup {Never}]
    BY <1>1 DEF SearchInv, SearchTypes
  <2>. QED
    BY <1>1, <2>1, <2>2, <2>3 DEF SearchInv, SearchTypes
<1>5. \A s \in Shards : healthy'[s] <=> (healthy[s] \/ s \in r.responding)
  BY <1>1, Zenon
<1>6. ASSUME ~fellBack' PROVE ProbesSound(search', healthy', unhealthyFor', claimedFor')
  <2>1. ProbesSound(search, healthy, unhealthyFor, claimedFor)
    BY <1>1, <1>6 DEF SearchInv
  <2> SUFFICES ASSUME NEW d \in Searches, search'[d].at = "collect"
               PROVE  /\ \A s \in search'[d].asked : Justified(search'[d], s, healthy', unhealthyFor', claimedFor')
                      /\ \A s \in search'[d].probes : ~healthy'[s] /\ AloneOn(search', d, s)
    BY DEF ProbesSound
  <2>2. d # c /\ search'[d] = search[d] /\ search[d].at = "collect"
    BY <1>3, NoSearchFits
  <2>3. ASSUME NEW s \in search[d].probes PROVE s \in Shards /\ ~healthy[s] /\ AloneOn(search, d, s) /\ s \notin r.asked
    <3>1. s \in Shards
      BY DEF SearchInv, SearchTypes, SearchRecords
    <3>2. ~healthy[s] /\ AloneOn(search, d, s)
      BY <2>1, <2>2 DEF ProbesSound
    <3>. QED
      BY <1>1, <2>2, <3>1, <3>2 DEF AloneOn
  <2>4. ASSUME NEW s \in search[d].asked
        PROVE  Justified(search[d], s, healthy', unhealthyFor', claimedFor')
    <3>1. s \in Shards /\ Justified(search[d], s, healthy, unhealthyFor, claimedFor)
      BY <2>1, <2>2 DEF ProbesSound, SearchInv, SearchTypes, SearchRecords
    <3>2. CASE s \in r.responding \/ healthy[s]
      BY <1>5, <3>1, <3>2 DEF Justified
    <3>3. CASE s \notin r.responding /\ ~healthy[s]
      <4>1. unhealthyFor'[s] = unhealthyFor[s]
        BY <1>1, <3>1, <3>3
      <4>2. s \in search[d].probes => claimedFor'[s] = claimedFor[s]
        BY <1>1, <2>3, <3>1
      <4>. QED
        BY <3>1, <3>3, <4>1, <4>2 DEF Justified
    <3>. QED
      BY <3>2, <3>3
  <2>5. ASSUME NEW s \in search[d].probes PROVE ~healthy'[s] /\ AloneOn(search', d, s)
    <3>1. ~healthy'[s]
      BY <1>2, <1>5, <2>3
    <3>2. AloneOn(search', d, s)
      BY <1>3, <2>3, NoSearchFits DEF AloneOn
    <3>. QED
      BY <3>1, <3>2
  <2>. QED
    BY <2>2, <2>4, <2>5
<1>7. \A s \in Shards : s \in poolless' => healthy'[s]
  BY <1>5 DEF SearchInv
<1>8. \A d \in Searches : RunFits(search[d])'
  <2>1. \A d \in Searches : RunFits(search'[d])
    BY <1>3, NoSearchFits DEF SearchInv
  <2>. QED
    BY <2>1 DEF RunFits
<1>. QED
  BY <1>4, <1>6, <1>7, <1>8 DEF SearchInv

LEMMA DropKeeps ==
    ASSUME SearchInv, NEW c \in Searches, DropSearch(c), poolless' = poolless PROVE SearchInv'
<1>1. /\ search' = [search EXCEPT ![c] = NoSearch] /\ healthy' = healthy
      /\ unhealthyFor' = unhealthyFor /\ claimedFor' = claimedFor
      /\ mended' = mended /\ fellBack' = fellBack
  BY DEF DropSearch
<1>2. search'[c] = NoSearch /\ \A d \in Searches : d # c => search'[d] = search[d]
  BY <1>1 DEF SearchInv, SearchTypes
<1>3. SearchTypes'
  BY <1>1, NoSearchFits DEF SearchInv, SearchTypes
<1>4. ASSUME ~fellBack' PROVE ProbesSound(search', healthy', unhealthyFor', claimedFor')
  <2>1. ProbesSound(search, healthy, unhealthyFor, claimedFor)
    BY <1>1, <1>4 DEF SearchInv
  <2> SUFFICES ASSUME NEW d \in Searches, search'[d].at = "collect"
               PROVE  /\ \A s \in search'[d].asked : Justified(search'[d], s, healthy', unhealthyFor', claimedFor')
                      /\ \A s \in search'[d].probes : ~healthy'[s] /\ AloneOn(search', d, s)
    BY DEF ProbesSound
  <2>2. d # c /\ search'[d] = search[d]
    BY <1>2, NoSearchFits
  <2>3. \A s \in search[d].asked : Justified(search[d], s, healthy, unhealthyFor, claimedFor)
    BY <2>1, <2>2 DEF ProbesSound
  <2>4. \A s \in search[d].probes : ~healthy[s] /\ AloneOn(search, d, s)
    BY <2>1, <2>2 DEF ProbesSound
  <2>. QED
    BY <1>1, <1>2, <2>2, <2>3, <2>4, NoSearchFits DEF AloneOn
<1>5. \A d \in Searches : RunFits(search[d])'
  <2>1. \A d \in Searches : RunFits(search'[d])
    BY <1>2, NoSearchFits DEF SearchInv
  <2>. QED
    BY <2>1 DEF RunFits
<1>. QED
  BY <1>1, <1>3, <1>4, <1>5 DEF SearchInv

(* Marks, claims and searches age together.                                *)
LEMMA SearchTickKeeps ==
    ASSUME SearchInv, SearchTick, poolless' = poolless PROVE SearchInv'
<1>1. /\ \A c \in Searches : search[c].at = "collect" => search[c].age + 1 < RetryAfter
      /\ unhealthyFor' = [s \in Shards |-> Older(unhealthyFor[s])]
      /\ claimedFor' = [s \in Shards |-> Older(claimedFor[s])]
      /\ search' = [c \in Searches |->
             IF search[c].at = "collect" THEN [search[c] EXCEPT !.age = @ + 1] ELSE search[c]]
      /\ healthy' = healthy /\ mended' = mended /\ fellBack' = fellBack
  BY DEF SearchTick, Running
<1>2. ASSUME NEW d \in Searches
      PROVE  /\ search'[d] \in SearchRecords /\ search'[d].at = search[d].at
             /\ search'[d].asked = search[d].asked /\ search'[d].left = search[d].left
             /\ search'[d].probes = search[d].probes /\ search'[d].responding = search[d].responding
             /\ search'[d].missing = search[d].missing
             /\ search[d].at = "collect" => search'[d].age = search[d].age + 1
  <2> DEFINE r == search[d]
             n == [r EXCEPT !.age = r.age + 1]
  <2>1. r \in SearchRecords
    BY DEF SearchInv, SearchTypes
  <2>2. search'[d] = IF r.at = "collect" THEN n ELSE r
    BY <1>1
  <2>3. r.age + 1 \in Nat
    BY <2>1 DEF SearchRecords
  <2> HIDE DEF r
  <2>4. n \in SearchRecords
    BY <2>1, <2>3, Zenon DEF SearchRecords
  <2>5. /\ n.at = r.at /\ n.asked = r.asked /\ n.left = r.left /\ n.probes = r.probes
        /\ n.responding = r.responding /\ n.missing = r.missing /\ n.age = r.age + 1
    BY <2>1 DEF SearchRecords
  <2>6. search'[d] \in SearchRecords /\ search'[d].at = r.at
        /\ search'[d].asked = r.asked /\ search'[d].left = r.left
        /\ search'[d].probes = r.probes /\ search'[d].responding = r.responding
        /\ search'[d].missing = r.missing
        /\ (r.at = "collect" => search'[d].age = r.age + 1)
    <3> HIDE DEF n
    <3>. QED
      BY <2>1, <2>2, <2>4, <2>5
  <2>. QED
    BY <2>6 DEF r
<1>3. SearchTypes'
  <2>1. search' \in [Searches -> SearchRecords]
    BY <1>1, <1>2
  <2>2. \A x \in Nat \cup {Never} : Older(x) \in Nat \cup {Never}
    BY DEF Older
  <2>3. unhealthyFor' \in [Shards -> Nat \cup {Never}] /\ claimedFor' \in [Shards -> Nat \cup {Never}]
    BY <1>1, <2>2 DEF SearchInv, SearchTypes
  <2>. QED
    BY <1>1, <2>1, <2>3 DEF SearchInv, SearchTypes
<1>4. ASSUME ~fellBack' PROVE ProbesSound(search', healthy', unhealthyFor', claimedFor')
  <2>1. ProbesSound(search, healthy, unhealthyFor, claimedFor)
    BY <1>1, <1>4 DEF SearchInv
  <2> SUFFICES ASSUME NEW d \in Searches, search'[d].at = "collect"
               PROVE  /\ \A s \in search'[d].asked : Justified(search'[d], s, healthy', unhealthyFor', claimedFor')
                      /\ \A s \in search'[d].probes : ~healthy'[s] /\ AloneOn(search', d, s)
    BY DEF ProbesSound
  <2>2. /\ search[d].at = "collect" /\ search[d].age \in Nat /\ search[d].age + 1 < RetryAfter
        /\ search'[d].age = search[d].age + 1
    BY <1>1, <1>2 DEF SearchInv, SearchTypes, SearchRecords
  <2>3. ASSUME NEW s \in search'[d].asked
        PROVE  Justified(search'[d], s, healthy', unhealthyFor', claimedFor')
    <3>1. s \in Shards /\ Justified(search[d], s, healthy, unhealthyFor, claimedFor)
      BY <1>2, <2>1, <2>2 DEF ProbesSound, SearchInv, SearchTypes, SearchRecords
    <3>2. /\ unhealthyFor'[s] = Older(unhealthyFor[s]) /\ claimedFor'[s] = Older(claimedFor[s])
          /\ unhealthyFor[s] \in Nat \cup {Never}
      BY <1>1, <3>1 DEF SearchInv, SearchTypes
    <3>3. CASE healthy[s]
      BY <1>1, <3>3 DEF Justified
    <3>4. CASE unhealthyFor[s] # Never /\ unhealthyFor[s] <= search[d].age
      <4>1. unhealthyFor'[s] = unhealthyFor[s] + 1 /\ unhealthyFor[s] \in Nat
        BY <2>2, <3>2, <3>4, SearchAssumption DEF Older
      <4>. QED
        BY <2>2, <3>4, <4>1, SearchAssumption DEF Justified
    <3>5. CASE s \in search[d].probes /\ claimedFor[s] = search[d].age
      <4>1. claimedFor'[s] = search[d].age + 1
        BY <2>2, <3>2, <3>5, SearchAssumption DEF Older
      <4>. QED
        BY <1>2, <2>2, <3>5, <4>1 DEF Justified
    <3>. QED
      BY <3>1, <3>3, <3>4, <3>5 DEF Justified
  <2>4. ASSUME NEW s \in search'[d].probes PROVE ~healthy'[s] /\ AloneOn(search', d, s)
    <3>1. ~healthy[s] /\ AloneOn(search, d, s)
      BY <1>2, <2>1, <2>2 DEF ProbesSound
    <3>. QED
      BY <1>1, <1>2, <3>1 DEF AloneOn
  <2>. QED
    BY <2>3, <2>4
<1>5. ASSUME NEW d \in Searches PROVE RunFits(search[d])'
  <2>1. RunFits(search[d])
    BY DEF SearchInv
  <2>2. search[d].at = "collect" => search'[d].age < RetryAfter
    BY <1>1, <1>2
  <2>. QED
    BY <1>2, <2>1, <2>2 DEF RunFits
<1>6. \A s \in Shards : s \in poolless' => healthy'[s]
  BY <1>1 DEF SearchInv
<1>. QED
  BY <1>3, <1>4, <1>5, <1>6 DEF SearchInv

LEMMA SearchStep == ASSUME SearchInv, [SearchNext]_searchVars PROVE SearchInv'
<1>1. CASE UNCHANGED searchVars
  BY <1>1 DEF searchVars, SearchInv, SearchTypes, RunFits
<1>2. CASE SearchNext
  <2>1. poolless' = poolless
    BY <1>2 DEF SearchNext
  <2>2. CASE \E c \in Searches : StartSearch(c)
    BY <2>1, <2>2, StartKeeps
  <2>3. CASE \E c \in Searches : FinishSearch(c)
    BY <2>1, <2>3, FinishKeeps
  <2>4. CASE \E c \in Searches : DropSearch(c)
    BY <2>1, <2>4, DropKeeps
  <2>5. CASE \E c \in Searches, what \in Outcomes : CollectNext(c, what)
    BY <2>1, <2>5, CollectKeeps
  <2>6. CASE SearchTick
    BY <2>1, <2>6, SearchTickKeeps
  <2>7. CASE Mend
    BY <2>1, <2>7 DEF Mend, SearchInv, SearchTypes, RunFits
  <2>. QED
    BY <1>2, <2>2, <2>3, <2>4, <2>5, <2>6, <2>7 DEF SearchNext
<1>. QED
  BY <1>1, <1>2

(* A search that ends accounts for every shard once, as responding or as   *)
(* missing, and its verdict follows from the missing ones; and no two      *)
(* searches probe one unhealthy shard at a time, however searches overlap, *)
(* fail, grow old or are dropped with their claims, unless some search has *)
(* found nobody to ask and gone to every shard.                            *)
THEOREM SearchesAlwaysAccount == SearchSpec => [](AnswerAccounts /\ ProbedAlone)
<1>1. SearchInit => SearchInv
  BY SearchStart
<1>2. SearchInv /\ [SearchNext]_searchVars => SearchInv'
  BY SearchStep
<1>3. SearchInv => AnswerAccounts /\ ProbedAlone
  BY AccountsFollow, AloneFollows
<1>. QED
  BY <1>1, <1>2, <1>3, PTL DEF SearchSpec

-----------------------------------------------------------------------------
(* Webhook events.  DeliveriesAccounted is not inductive.  What it lacks   *)
(* is what a runner has in hand (RunnersOK), that an event in hand or in   *)
(* the queue carries the number of its attempts and the end of its backoff *)
(* (TimesOK), and who wakes for an event whose own call takes an older one *)
(* and is dropped (WakeInv).                                               *)

Items == [payload : Events, attempts : 0..MAX_RETRIES, ready_at : Nat]
Pcs == {"idle", "enter", "drain", "deliver", "requeue", "sleep"}
RunnerRecords == [pc : Pcs, caller : BOOLEAN, now : Nat, item : Seq(Items), deferred : Seq(Items), wake : Nat]
Fates == {"new", "held", "skipped", "dropped", "delivered", "failed", "lost"}

HookTypes ==
    /\ hookEnabled \in BOOLEAN /\ hookQueue \in Seq(Items) /\ runner \in [Senders -> RunnerRecords]
    /\ hookClock \in Nat /\ fate \in [Events -> Fates] /\ attempted \in [Events -> Seq(Nat)]

(* A runner has one event on the wire while it delivers, sets events aside *)
(* only while it drains, and is nobody's call once it has slept.           *)
RunnerOK(x) ==
    /\ x.now <= hookClock
    /\ Len(x.item) = IF x.pc = "deliver" THEN 1 ELSE 0
    /\ x.pc \in {"idle", "enter", "sleep"} => x.deferred = <<>>
    /\ x.pc = "sleep" => ~x.caller
RunnersOK == \A r \in Senders : RunnerOK(runner[r])

(* What waits was attempted as often as it says, and its time is not       *)
(* before the backoff of its last attempt ends.                            *)
DueAt(times, it) ==
    /\ Len(times[it.payload]) = it.attempts
    /\ it.attempts > 0 =>
          it.ready_at >= times[it.payload][it.attempts] + Backoff(it.attempts - 1)
Due(it) == DueAt(attempted, it)
AllDue(q) == \A i \in DOMAIN q : Due(q[i])
TimesOK ==
    /\ \A e \in Events : \A k \in DOMAIN attempted[e] : attempted[e][k] <= hookClock
    /\ \A e \in Events : fate[e] = "new" => attempted[e] = <<>>
    /\ AllDue(hookQueue)
    /\ \A r \in Senders :
          /\ AllDue(runner[r].deferred)
          /\ runner[r].pc = "deliver" =>
                Len(attempted[runner[r].item[1].payload]) = runner[r].item[1].attempts + 1
    /\ BackoffKept

(* Somebody who is not a call is about to drain the queue: nobody can drop *)
(* him, and he stays until the queue was empty once.                       *)
Awake ==
    \E r \in Senders :
        \/ ~runner[r].caller /\ runner[r].pc \in {"enter", "drain", "deliver"}
        \/ runner[r].pc = "sleep" /\ runner[r].wake <= hookClock

(* Queued events for which nobody sleeps.                                  *)
Unguarded(e) ==
    \E i \in DOMAIN hookQueue :
        /\ hookQueue[i].payload = e
        /\ ~ \E r \in Senders : runner[r].pc = "sleep" /\ runner[r].wake <= hookQueue[i].ready_at

Bound(r) == runner[r].caller /\ runner[r].pc \in {"enter", "drain"}

(* f gives each unguarded event a call of its own that is bound to drain   *)
(* the queue.  It need not be the call that queued the event: a call that  *)
(* takes another one's event leaves its own to that other call.            *)
Covers(f) ==
    /\ \A e \in Events : Unguarded(e) => Bound(f[e])
    /\ \A d, e \in Events : Unguarded(d) /\ Unguarded(e) /\ f[d] = f[e] => d = e
WakeInv == Awake \/ \E f \in [Events -> Senders] : Covers(f)

HookInv == HookTypes /\ RunnersOK /\ EventAccounted /\ TimesOK /\ WakeInv

-----------------------------------------------------------------------------
(* Queues of events.                                                       *)

LEMMA ConcatFacts ==
    ASSUME NEW s \in Seq(Items), NEW t \in Seq(Items)
    PROVE  /\ s \o t \in Seq(Items)
           /\ Len(s \o t) = Len(s) + Len(t)
           /\ \A i \in 1..Len(s) : (s \o t)[i] = s[i]
           /\ \A i \in 1..Len(t) : (s \o t)[Len(s) + i] = t[i]
           /\ \A i \in 1..(Len(s) + Len(t)) :
                 i <= Len(s) \/ (i - Len(s) \in 1..Len(t) /\ (s \o t)[i] = t[i - Len(s)])
  OBVIOUS

LEMMA ConcatIn ==
    ASSUME NEW s \in Seq(Items), NEW t \in Seq(Items)
    PROVE  \A e : In(s \o t, e) <=> In(s, e) \/ In(t, e)
<1>1. SUFFICES ASSUME NEW e PROVE In(s \o t, e) <=> In(s, e) \/ In(t, e)
  OBVIOUS
<1>2. DOMAIN s = 1..Len(s) /\ DOMAIN t = 1..Len(t) /\ DOMAIN (s \o t) = 1..Len(s \o t)
      /\ Len(s) \in Nat /\ Len(t) \in Nat
  OBVIOUS
<1>3. In(s \o t, e) => In(s, e) \/ In(t, e)
  BY <1>2, ConcatFacts DEF In
<1>4. In(s, e) => In(s \o t, e)
  BY <1>2, ConcatFacts DEF In
<1>5. ASSUME In(t, e) PROVE In(s \o t, e)
  <2>1. PICK i \in 1..Len(t) : t[i].payload = e
    BY <1>2, <1>5 DEF In
  <2>2. Len(s) + i \in 1..(Len(s) + Len(t)) /\ (s \o t)[Len(s) + i] = t[i]
    BY <1>2, ConcatFacts
  <2>. QED
    BY <1>2, <2>1, <2>2, ConcatFacts DEF In
<1>. QED
  BY <1>3, <1>4, <1>5

LEMMA ConcatDistinct ==
    ASSUME NEW s \in Seq(Items), NEW t \in Seq(Items)
    PROVE  Distinct(s \o t) <=>
              Distinct(s) /\ Distinct(t) /\ \A e \in Events : ~(In(s, e) /\ In(t, e))
<1>2. DOMAIN s = 1..Len(s) /\ DOMAIN t = 1..Len(t) /\ DOMAIN (s \o t) = 1..(Len(s) + Len(t))
      /\ Len(s) \in Nat /\ Len(t) \in Nat
  BY ConcatFacts
<1>3. ASSUME Distinct(s), Distinct(t), \A e \in Events : ~(In(s, e) /\ In(t, e))
      PROVE  Distinct(s \o t)
  <2>1. SUFFICES ASSUME NEW i \in 1..(Len(s) + Len(t)), NEW j \in 1..(Len(s) + Len(t)),
                        (s \o t)[i].payload = (s \o t)[j].payload
                 PROVE  i = j
    BY <1>2 DEF Distinct
  <2>2. CASE i <= Len(s) /\ j <= Len(s)
    <3>1. i \in 1..Len(s) /\ j \in 1..Len(s)
      BY <1>2, <2>2
    <3>2. s[i].payload = s[j].payload
      BY <2>1, <3>1, ConcatFacts
    <3>. QED
      BY <1>2, <1>3, <3>1, <3>2 DEF Distinct
  <2>3. CASE i > Len(s) /\ j > Len(s)
    <3>1. /\ i - Len(s) \in 1..Len(t) /\ (s \o t)[i] = t[i - Len(s)]
          /\ j - Len(s) \in 1..Len(t) /\ (s \o t)[j] = t[j - Len(s)]
      BY <1>2, <2>3, ConcatFacts
    <3>2. i - Len(s) = j - Len(s)
      BY <1>2, <1>3, <2>1, <3>1 DEF Distinct
    <3>. QED
      BY <1>2, <3>2
  <2>4. \A a, b \in 1..(Len(s) + Len(t)) :
            a <= Len(s) /\ b > Len(s) => (s \o t)[a].payload # (s \o t)[b].payload
    <3>1. SUFFICES ASSUME NEW a \in 1..(Len(s) + Len(t)), NEW b \in 1..(Len(s) + Len(t)),
                          a <= Len(s), b > Len(s),
                          (s \o t)[a].payload = (s \o t)[b].payload
                   PROVE  FALSE
      OBVIOUS
    <3>5. a \in 1..Len(s)
      BY <1>2, <3>1
    <3>6. s[a] \in Items
      BY <3>5
    <3>2. (s \o t)[a] = s[a] /\ s[a].payload \in Events
      BY <3>5, <3>6, ConcatFacts DEF Items
    <3>3. b - Len(s) \in 1..Len(t) /\ (s \o t)[b] = t[b - Len(s)]
      BY <1>2, <3>1, ConcatFacts
    <3>4. In(s, s[a].payload) /\ In(t, s[a].payload)
      BY <1>2, <3>1, <3>2, <3>3, <3>5 DEF In
    <3>. QED
      BY <1>3, <3>2, <3>4
  <2>. QED
    BY <1>2, <2>1, <2>2, <2>3, <2>4
<1>4. ASSUME Distinct(s \o t)
      PROVE  Distinct(s) /\ Distinct(t) /\ \A e \in Events : ~(In(s, e) /\ In(t, e))
  <2>1. Distinct(s)
    BY <1>2, <1>4, ConcatFacts DEF Distinct
  <2>2. Distinct(t)
    <3>1. SUFFICES ASSUME NEW i \in 1..Len(t), NEW j \in 1..Len(t), t[i].payload = t[j].payload
                   PROVE  i = j
      BY <1>2 DEF Distinct
    <3>2. Len(s) + i \in 1..(Len(s) + Len(t)) /\ Len(s) + j \in 1..(Len(s) + Len(t))
      BY <1>2
    <3>4. (s \o t)[Len(s) + i] = t[i] /\ (s \o t)[Len(s) + j] = t[j]
      BY ConcatFacts
    <3>3. Len(s) + i = Len(s) + j
      BY <1>2, <1>4, <3>1, <3>2, <3>4 DEF Distinct
    <3>. QED
      BY <1>2, <3>3
  <2>3. ASSUME NEW e \in Events, In(s, e), In(t, e) PROVE FALSE
    <3>1. PICK i \in 1..Len(s) : s[i].payload = e
      BY <1>2, <2>3 DEF In
    <3>2. PICK j \in 1..Len(t) : t[j].payload = e
      BY <1>2, <2>3 DEF In
    <3>3. i \in 1..(Len(s) + Len(t)) /\ Len(s) + j \in 1..(Len(s) + Len(t)) /\ i # Len(s) + j
      BY <1>2
    <3>4. (s \o t)[Len(s) + j] = t[j] /\ (s \o t)[i] = s[i]
      BY ConcatFacts
    <3>. QED
      BY <1>2, <1>4, <3>1, <3>2, <3>3, <3>4 DEF Distinct
  <2>. QED
    BY <2>1, <2>2, <2>3
<1>. QED
  BY <1>3, <1>4

(* Of a queue that is cut at i: what is before, at and behind the cut.     *)
Before(q, i) == SubSeq(q, 1, i - 1)
Behind(q, i) == SubSeq(q, i + 1, Len(q))

Cut(q, i, a, b) ==
    /\ Len(a) = i - 1 /\ \A k \in 1..(i - 1) : a[k] = q[k]
    /\ i <= Len(q) => Len(b) = Len(q) - i
    /\ i > Len(q) => Len(b) = 0
    /\ \A k \in 1..Len(b) : b[k] = q[i + k]

LEMMA SliceFacts ==
    ASSUME NEW q \in Seq(Items), NEW i \in 1..(Len(q) + 1)
    PROVE  /\ Before(q, i) \in Seq(Items) /\ Behind(q, i) \in Seq(Items)
           /\ Cut(q, i, Before(q, i), Behind(q, i))
<1>1. Len(q) \in Nat /\ i \in Nat /\ \A k \in 1..Len(q) : q[k] \in Items
  OBVIOUS
<1>2. Before(q, i) \in Seq(Items) /\ Len(Before(q, i)) = i - 1
      /\ \A k \in 1..(i - 1) : Before(q, i)[k] = q[k]
  BY <1>1 DEF Before
<1>3. CASE i <= Len(q)
  <2>1. Behind(q, i) \in Seq(Items) /\ Len(Behind(q, i)) = Len(q) - i
        /\ \A k \in 1..(Len(q) - i) : Behind(q, i)[k] = q[i + k]
    BY <1>1, <1>3 DEF Behind
  <2>. QED
    BY <1>1, <1>2, <1>3, <2>1 DEF Cut
<1>4. CASE i = Len(q) + 1
  <2>1. Behind(q, i) = <<>>
    BY <1>1, <1>4 DEF Behind
  <2>2. Len(Behind(q, i)) = 0 /\ Behind(q, i) \in Seq(Items)
    BY <2>1
  <2>. QED
    <3>. DEFINE a == Before(q, i)
                b == Behind(q, i)
                n == Len(q)
    <3>1. a \in Seq(Items) /\ Len(a) = i - 1 /\ \A k \in 1..(i - 1) : a[k] = q[k]
      BY <1>2
    <3>2. b \in Seq(Items) /\ Len(b) = 0 /\ n \in Nat /\ i = n + 1
      BY <1>1, <1>4, <2>2
    <3>. HIDE DEF a, b, n
    <3>3. ~(i <= n) /\ 1..0 = {}
      BY <3>2
    <3>4. Cut(q, i, a, b)
      BY <3>1, <3>2, <3>3 DEF Cut, n
    <3>. QED
      BY <3>1, <3>2, <3>4 DEF a, b
<1>. QED
  BY <1>1, <1>3, <1>4

LEMMA CutArith ==
    ASSUME NEW n \in Nat, NEW i \in Nat, NEW m \in Nat, i >= 1, i <= n + 1,
           i <= n => m = n - i, i > n => m = 0
    PROVE  /\ \A k \in 1..m : i + k \in 1..n
           /\ \A k \in 1..n : k > i => k - i \in 1..m /\ i + (k - i) = k
           /\ \A k \in 1..(i - 1) : k \in 1..n
  OBVIOUS

LEMMA CutIn ==
    ASSUME NEW q \in Seq(Items), NEW i \in 1..(Len(q) + 1),
           NEW a \in Seq(Items), NEW b \in Seq(Items), Cut(q, i, a, b)
    PROVE  /\ \A e : In(a, e) => In(q, e)
           /\ \A e : In(b, e) => In(q, e)
           /\ i <= Len(q) => \A e : In(q, e) <=> In(a, e) \/ In(b, e) \/ q[i].payload = e
           /\ i > Len(q) => \A e : ~In(b, e) /\ (In(q, e) <=> In(a, e))
<1>1. /\ DOMAIN q = 1..Len(q) /\ DOMAIN a = 1..Len(a) /\ DOMAIN b = 1..Len(b)
      /\ Len(q) \in Nat /\ Len(a) \in Nat /\ Len(b) \in Nat /\ i \in Nat /\ i >= 1 /\ i <= Len(q) + 1
  OBVIOUS
<1>2. Len(a) = i - 1 /\ \A k \in 1..(i - 1) : a[k] = q[k]
  BY DEF Cut
<1>9. (i <= Len(q) => Len(b) = Len(q) - i) /\ (i > Len(q) => Len(b) = 0)
  BY DEF Cut
<1>10. /\ \A k \in 1..Len(b) : i + k \in 1..Len(q)
       /\ \A k \in 1..Len(q) : k > i => k - i \in 1..Len(b) /\ i + (k - i) = k
       /\ \A k \in 1..(i - 1) : k \in 1..Len(q)
  BY <1>1, <1>9, CutArith
<1>11. \A k \in 1..Len(b) : b[k] = q[i + k]
  BY DEF Cut
<1>3. \A k \in 1..Len(b) : i + k \in 1..Len(q) /\ b[k] = q[i + k]
  BY <1>10, <1>11
<1>4. \A e : In(a, e) => In(q, e)
  BY <1>1, <1>2 DEF In
<1>5. \A e : In(b, e) => In(q, e)
  BY <1>1, <1>3 DEF In
<1>6. ASSUME NEW e, In(q, e), ~In(a, e), ~In(b, e)
      PROVE  i <= Len(q) /\ q[i].payload = e
  <2>1. PICK k \in 1..Len(q) : q[k].payload = e
    BY <1>1, <1>6 DEF In
  <2>2. ~(k < i)
    <3>1. k < i => k \in 1..Len(a) /\ k \in 1..(i - 1)
      BY <1>1, <1>2
    <3>2. k < i => a[k].payload = e
      BY <1>2, <2>1, <3>1
    <3>. QED
      BY <1>1, <1>6, <3>1, <3>2, Zenon DEF In
  <2>3. ASSUME k > i PROVE FALSE
    <3>1. k - i \in 1..Len(b) /\ i + (k - i) = k
      BY <1>10, <2>3
    <3>2. b[k - i] = q[k]
      BY <1>3, <3>1
    <3>. QED
      BY <1>1, <1>6, <2>1, <3>1, <3>2 DEF In
  <2>4. k = i
    BY <1>1, <2>2, <2>3
  <2>. QED
    BY <2>1, <2>4
<1>7. \A e : i <= Len(q) /\ q[i].payload = e => In(q, e)
  BY <1>1 DEF In
<1>8. i > Len(q) => \A e : ~In(b, e)
  <2>1. Len(b) = 0 => 1..Len(b) = {}
    OBVIOUS
  <2>. QED
    BY <1>1, <1>9, <2>1 DEF In
<1>. QED
  BY <1>1, <1>4, <1>5, <1>6, <1>7, <1>8

LEMMA CutDistinct ==
    ASSUME NEW q \in Seq(Items), NEW i \in 1..(Len(q) + 1),
           NEW a \in Seq(Items), NEW b \in Seq(Items), Cut(q, i, a, b), Distinct(q)
    PROVE  /\ Distinct(a) /\ Distinct(b)
           /\ \A e : ~(In(a, e) /\ In(b, e))
           /\ i <= Len(q) => ~In(a, q[i].payload) /\ ~In(b, q[i].payload)
<1>1. /\ DOMAIN q = 1..Len(q) /\ DOMAIN a = 1..Len(a) /\ DOMAIN b = 1..Len(b)
      /\ Len(q) \in Nat /\ Len(a) \in Nat /\ Len(b) \in Nat /\ i \in Nat /\ i >= 1 /\ i <= Len(q) + 1
  OBVIOUS
<1>9. (i <= Len(q) => Len(b) = Len(q) - i) /\ (i > Len(q) => Len(b) = 0)
  BY DEF Cut
<1>10. (\A k \in 1..Len(b) : i + k \in 1..Len(q)) /\ \A k \in 1..(i - 1) : k \in 1..Len(q)
  BY <1>1, <1>9, CutArith
<1>11. \A k \in 1..Len(b) : b[k] = q[i + k]
  BY DEF Cut
<1>12. Len(a) = i - 1 /\ \A k \in 1..(i - 1) : a[k] = q[k]
  BY DEF Cut
<1>2. Len(a) = i - 1 /\ \A k \in 1..(i - 1) : k \in 1..Len(q) /\ a[k] = q[k]
  BY <1>10, <1>12
<1>3. \A k \in 1..Len(b) : i + k \in 1..Len(q) /\ b[k] = q[i + k]
  BY <1>10, <1>11
<1>4. Distinct(a)
  BY <1>1, <1>2 DEF Distinct
<1>5. Distinct(b)
  <2>1. SUFFICES ASSUME NEW j \in 1..Len(b), NEW k \in 1..Len(b), b[j].payload = b[k].payload
                 PROVE  j = k
    BY <1>1 DEF Distinct
  <2>2. i + j \in 1..Len(q) /\ i + k \in 1..Len(q) /\ q[i + j].payload = q[i + k].payload
    BY <1>3, <2>1
  <2>3. i + j = i + k
    BY <1>1, <2>2 DEF Distinct
  <2>. QED
    BY <1>1, <2>3
<1>6. ASSUME NEW e, In(a, e), In(b, e) PROVE FALSE
  <2>1. PICK j \in 1..(i - 1) : q[j].payload = e
    BY <1>1, <1>2, <1>6 DEF In
  <2>2. PICK k \in 1..Len(b) : b[k].payload = e
    BY <1>1, <1>6 DEF In
  <2>3. i + k \in 1..Len(q) /\ q[i + k].payload = e
    BY <1>3, <2>2
  <2>4. j # i + k /\ j \in 1..Len(q)
    BY <1>1, <1>2
  <2>. QED
    BY <1>1, <2>1, <2>3, <2>4 DEF Distinct
<1>7. ASSUME i <= Len(q), In(a, q[i].payload) PROVE FALSE
  <2>1. PICK j \in 1..(i - 1) : q[j].payload = q[i].payload
    BY <1>1, <1>2, <1>7 DEF In
  <2>2. j \in 1..Len(q) /\ i \in 1..Len(q) /\ j # i
    BY <1>1, <1>2, <1>7
  <2>. QED
    BY <1>1, <2>1, <2>2 DEF Distinct
<1>8. ASSUME i <= Len(q), In(b, q[i].payload) PROVE FALSE
  <2>1. PICK k \in 1..Len(b) : b[k].payload = q[i].payload
    BY <1>1, <1>8 DEF In
  <2>2. i + k \in 1..Len(q) /\ q[i + k].payload = q[i].payload
    BY <1>3, <2>1
  <2>3. i \in 1..Len(q) /\ i + k # i
    BY <1>1, <1>8
  <2>. QED
    BY <1>1, <2>2, <2>3 DEF Distinct
<1>. QED
  BY <1>4, <1>5, <1>6, <1>7, <1>8

LEMMA LeastExists ==
    ASSUME NEW T, T \subseteq Nat, T # {}
    PROVE  \E n \in T : \A k \in T : n <= k
<1>1. PICK n \in T : ~ \E k \in T : <<k, n>> \in OpToRel(<, Nat)
  BY WFMin, NatLessThanWellFounded, Zenon
<1>2. \A k \in T : ~ (k < n)
  BY <1>1, Zenon DEF OpToRel
<1>. QED
  BY <1>2

LEMMA FirstReadyFacts ==
    ASSUME NEW q \in Seq(Items), NEW now \in Nat
    PROVE  LET i == FirstReady(q, now)
           IN  /\ i \in 1..(Len(q) + 1)
               /\ \A j \in 1..(i - 1) : q[j].ready_at > now
               /\ i <= Len(q) => q[i].ready_at <= now
<1> DEFINE T == {i \in 1..(Len(q) + 1) : i <= Len(q) => q[i].ready_at <= now}
<1>1. Len(q) \in Nat /\ \A j \in 1..Len(q) : q[j].ready_at \in Nat
  <2>1. \A j \in 1..Len(q) : q[j] \in Items
    OBVIOUS
  <2>. QED
    BY <2>1 DEF Items
<1>2. T \subseteq Nat /\ Len(q) + 1 \in T
  BY <1>1
<1>3. PICK n \in T : \A k \in T : n <= k
  BY <1>2, LeastExists
<1>4. \A j \in 1..(n - 1) : q[j].ready_at > now
  BY <1>1, <1>3
<1>5. \E i \in 1..(Len(q) + 1) :
        /\ \A j \in 1..(i - 1) : q[j].ready_at > now
        /\ i <= Len(q) => q[i].ready_at <= now
  BY <1>3, <1>4
<1>. QED
  BY <1>5 DEF FirstReady

LEMMA EarliestFacts ==
    ASSUME NEW q \in Seq(Items), q # <<>>
    PROVE  /\ EarliestReady(q) \in Nat
           /\ \A i \in DOMAIN q : EarliestReady(q) <= q[i].ready_at
<1> DEFINE T == {q[i].ready_at : i \in DOMAIN q}
<1>1. Len(q) \in Nat \ {0} /\ DOMAIN q = 1..Len(q) /\ \A i \in 1..Len(q) : q[i] \in Items
  OBVIOUS
<1>2. \A i \in DOMAIN q : q[i].ready_at \in Nat
  BY <1>1 DEF Items
<1>3. T \subseteq Nat /\ q[1].ready_at \in T
  BY <1>1, <1>2
<1>4. PICK t \in T : \A k \in T : t <= k
  BY <1>3, LeastExists
<1>5. \E u \in T : \A i \in DOMAIN q : u <= q[i].ready_at
  BY <1>4
<1>. QED
  BY <1>3, <1>5 DEF EarliestReady

LEMMA OneFacts ==
    ASSUME NEW x \in Items
    PROVE  /\ <<x>> \in Seq(Items) /\ Len(<<x>>) = 1 /\ <<x>>[1] = x
           /\ \A e : In(<<x>>, e) <=> x.payload = e
           /\ Distinct(<<x>>)
<1>1. <<x>> \in Seq(Items) /\ Len(<<x>>) = 1 /\ <<x>>[1] = x /\ DOMAIN <<x>> = {1}
  OBVIOUS
<1>. QED
  BY <1>1 DEF In, Distinct

LEMMA NoneFacts ==
    /\ <<>> \in Seq(Items) /\ Len(<<>>) = 0
    /\ \A e : ~In(<<>>, e)
    /\ Distinct(<<>>)
<1>1. <<>> \in Seq(Items) /\ Len(<<>>) = 0 /\ DOMAIN <<>> = {}
  OBVIOUS
<1>. QED
  BY <1>1 DEF In, Distinct

LEMMA AppendFacts ==
    ASSUME NEW q \in Seq(Items), NEW x \in Items
    PROVE  /\ Append(q, x) = q \o <<x>>
           /\ Append(q, x) \in Seq(Items)
           /\ \A e : In(Append(q, x), e) <=> In(q, e) \/ x.payload = e
<1>1. Append(q, x) = q \o <<x>>
  OBVIOUS
<1>2. <<x>> \in Seq(Items) /\ \A e : In(<<x>>, e) <=> x.payload = e
  BY OneFacts
<1>3. q \o <<x>> \in Seq(Items)
  BY <1>2, ConcatFacts
<1>4. \A e : In(q \o <<x>>, e) <=> In(q, e) \/ In(<<x>>, e)
  BY <1>2, ConcatIn
<1>. QED
  BY <1>1, <1>2, <1>3, <1>4, Zenon

LEMMA TailFacts ==
    ASSUME NEW q \in Seq(Items), q # <<>>
    PROVE  /\ Tail(q) \in Seq(Items) /\ Head(q) \in Items /\ Head(q) = q[1] /\ 1 \in 1..(Len(q) + 1)
           /\ 1 <= Len(q) /\ Cut(q, 1, <<>>, Tail(q))
<1>1. /\ Len(q) \in Nat /\ Len(q) >= 1 /\ Head(q) = q[1] /\ q[1] \in Items /\ Tail(q) \in Seq(Items)
      /\ Len(Tail(q)) = Len(q) - 1
      /\ \A k \in 1..(Len(q) - 1) : Tail(q)[k] = q[k + 1]
  OBVIOUS
<1>2. \A k \in 1..(Len(q) - 1) : 1 + k = k + 1
  BY <1>1
<1>3. Len(<<>>) = 0
  OBVIOUS
<1>. QED
  BY <1>1, <1>2, <1>3 DEF Cut

-----------------------------------------------------------------------------
(* Where the events are, with what each runner has in hand as a table.     *)

Hands(run) == [r \in Senders |-> run[r].item \o run[r].deferred]
Accounted(q, h, f) ==
    /\ \A e \in Events : f[e] = "held" <=> In(q, e) \/ \E r \in Senders : In(h[r], e)
    /\ \A e \in Events, r \in Senders : In(h[r], e) =>
          ~In(q, e) /\ \A s \in Senders \ {r} : ~In(h[s], e)
    /\ Distinct(q) /\ \A r \in Senders : Distinct(h[r])

LEMMA AccountedIff ==
    /\ EventAccounted <=> Accounted(hookQueue, Hands(runner), fate)
    /\ EventAccounted' <=> Accounted(hookQueue', Hands(runner'), fate')
  BY DEF EventAccounted, Accounted, Hands, HeldBy

(* What becomes of an event when one runner and the queue exchange some:   *)
(* it stays with the two of them, comes to an end, arrives, or is none of  *)
(* theirs.                                                                 *)
Moved(e, q, h, f, q2, h2, f2) ==
    \/ f2[e] = f[e] /\ (In(q2, e) \/ In(h2, e) <=> In(q, e) \/ In(h, e))
    \/ (In(q, e) \/ In(h, e)) /\ f2[e] # "held" /\ ~In(q2, e) /\ ~In(h2, e)
    \/ f[e] # "held" /\ In(q2, e) /\ f2[e] = "held"
    \/ f[e] # "held" /\ f2[e] # "held" /\ ~In(q2, e) /\ ~In(h2, e)

LEMMA HookMoves ==
    ASSUME NEW q, NEW h, NEW f, NEW q2, NEW h2, NEW f2, NEW r \in Senders,
           Accounted(q, h, f),
           \A s \in Senders \ {r} : h2[s] = h[s],
           Distinct(q2), Distinct(h2[r]),
           \A e \in Events : ~(In(q2, e) /\ In(h2[r], e)),
           \A e \in Events : Moved(e, q, h[r], f, q2, h2[r], f2)
    PROVE  Accounted(q2, h2, f2)
<1>1. ASSUME NEW e \in Events
      PROVE  f2[e] = "held" <=> In(q2, e) \/ \E s \in Senders : In(h2[s], e)
  <2>1. Moved(e, q, h[r], f, q2, h2[r], f2)
    OBVIOUS
  <2>2. f[e] = "held" <=> In(q, e) \/ \E s \in Senders : In(h[s], e)
    BY DEF Accounted
  <2>3. (\E s \in Senders : In(h2[s], e)) <=> In(h2[r], e) \/ \E s \in Senders \ {r} : In(h[s], e)
    OBVIOUS
  <2>4. (\E s \in Senders : In(h[s], e)) <=> In(h[r], e) \/ \E s \in Senders \ {r} : In(h[s], e)
    OBVIOUS
  <2>5. In(q, e) \/ In(h[r], e) => ~ \E s \in Senders \ {r} : In(h[s], e)
    BY DEF Accounted
  <2>. QED
    BY <2>1, <2>2, <2>3, <2>4, <2>5 DEF Moved
<1>2. ASSUME NEW e \in Events, NEW s \in Senders, In(h2[s], e)
      PROVE  ~In(q2, e) /\ \A t \in Senders \ {s} : ~In(h2[t], e)
  <2>1. Moved(e, q, h[r], f, q2, h2[r], f2)
    OBVIOUS
  <2>2. f[e] = "held" <=> In(q, e) \/ \E t \in Senders : In(h[t], e)
    BY DEF Accounted
  <2>3. \A t \in Senders : In(h[t], e) => ~In(q, e) /\ \A u \in Senders \ {t} : ~In(h[u], e)
    BY DEF Accounted
  <2>4. CASE s = r
    BY <1>2, <2>1, <2>2, <2>3, <2>4 DEF Moved
  <2>5. CASE s # r
    <3>1. In(h[s], e) /\ ~In(q, e) /\ ~In(h[r], e) /\ f[e] = "held"
      BY <1>2, <2>2, <2>3, <2>5
    <3>2. ~In(q2, e) /\ ~In(h2[r], e)
      BY <2>1, <3>1 DEF Moved
    <3>. QED
      BY <2>3, <3>1, <3>2
  <2>. QED
    BY <2>4, <2>5
<1>3. \A s \in Senders : Distinct(h2[s])
  BY DEF Accounted
<1>. QED
  BY <1>1, <1>2, <1>3 DEF Accounted

(* The same for a step of the system: what the runner has in hand is g     *)
(* before and g2 after it.                                                 *)
LEMMA InHand ==
    ASSUME EventAccounted, NEW r \in Senders, NEW g, Hands(runner)[r] = g
    PROVE  /\ Distinct(g) /\ Distinct(hookQueue)
           /\ \A e \in Events : In(g, e) => ~In(hookQueue, e) /\ fate[e] = "held"
           /\ \A e \in Events : In(hookQueue, e) => fate[e] = "held"
<1> DEFINE h == Hands(runner)
<1>1. Accounted(hookQueue, h, fate)
  BY AccountedIff
<1>2. h[r] = g
  OBVIOUS
<1> HIDE DEF h
<1>. QED
  BY <1>1, <1>2 DEF Accounted

LEMMA Exchange ==
    ASSUME EventAccounted, NEW r \in Senders, NEW g, NEW g2,
           Hands(runner)[r] = g, Hands(runner')[r] = g2,
           \A s \in Senders \ {r} : Hands(runner')[s] = Hands(runner)[s],
           Distinct(hookQueue'), Distinct(g2),
           \A e \in Events : ~(In(hookQueue', e) /\ In(g2, e)),
           \A e \in Events : Moved(e, hookQueue, g, fate, hookQueue', g2, fate')
    PROVE  EventAccounted'
<1> DEFINE h == Hands(runner)
           h2 == Hands(runner')
<1>1. Accounted(hookQueue, h, fate)
  BY AccountedIff
<1>2. h[r] = g /\ h2[r] = g2 /\ \A s \in Senders \ {r} : h2[s] = h[s]
  OBVIOUS
<1> HIDE DEF h, h2
<1>3. Accounted(hookQueue', h2, fate')
  BY <1>1, <1>2, HookMoves
<1>. QED
  BY <1>3, AccountedIff DEF h2

-----------------------------------------------------------------------------
(* Types, and what a runner has in hand.                                   *)

LEMMA RunnerTypes ==
    ASSUME HookTypes, RunnersOK, NEW r \in Senders
    PROVE  /\ runner[r] \in RunnerRecords /\ runner[r].pc \in Pcs /\ runner[r].caller \in BOOLEAN
           /\ runner[r].now \in Nat /\ runner[r].wake \in Nat
           /\ runner[r].item \in Seq(Items) /\ runner[r].deferred \in Seq(Items)
           /\ runner[r].now <= hookClock
           /\ runner[r].pc # "deliver" => runner[r].item = <<>>
           /\ runner[r].pc \in {"idle", "enter", "sleep"} => runner[r].deferred = <<>>
<1>1. runner[r] \in RunnerRecords
  BY DEF HookTypes
<1>2. /\ runner[r].pc \in Pcs /\ runner[r].caller \in BOOLEAN
      /\ runner[r].now \in Nat /\ runner[r].wake \in Nat
      /\ runner[r].item \in Seq(Items) /\ runner[r].deferred \in Seq(Items)
  BY <1>1 DEF RunnerRecords
<1>3. RunnerOK(runner[r])
  BY DEF RunnersOK
<1>4. runner[r].pc # "deliver" => Len(runner[r].item) = 0
  BY <1>3 DEF RunnerOK
<1>5. runner[r].pc # "deliver" => runner[r].item = <<>>
  BY <1>2, <1>4
<1>. QED
  BY <1>1, <1>2, <1>3, <1>5 DEF RunnerOK

LEMMA DeliverItem ==
    ASSUME HookTypes, RunnersOK, NEW r \in Senders, runner[r].pc = "deliver"
    PROVE  /\ runner[r].item = <<runner[r].item[1]>> /\ runner[r].item[1] \in Items
           /\ runner[r].item[1].payload \in Events
           /\ runner[r].item[1].attempts \in 0..MAX_RETRIES /\ runner[r].item[1].ready_at \in Nat
<1>1. runner[r].item \in Seq(Items)
  BY RunnerTypes
<1>2. Len(runner[r].item) = 1
  BY DEF RunnersOK, RunnerOK
<1>3. runner[r].item[1] \in Items
  BY <1>1, <1>2
<1>4. runner[r].item = <<runner[r].item[1]>>
  BY <1>1, <1>2
<1>. QED
  BY <1>3, <1>4 DEF Items

(* The runners after a step that replaces one of them.                     *)
LEMMA OneRunner ==
    ASSUME HookTypes, RunnersOK, NEW r \in Senders, NEW x \in RunnerRecords,
           runner' = [runner EXCEPT ![r] = x],
           hookClock' = hookClock, RunnerOK(x)
    PROVE  /\ runner' \in [Senders -> RunnerRecords] /\ RunnersOK'
           /\ runner'[r] = x /\ \A s \in Senders \ {r} : runner'[s] = runner[s]
           /\ \A s \in Senders \ {r} : Hands(runner')[s] = Hands(runner)[s]
           /\ Hands(runner')[r] = x.item \o x.deferred
<1>1. /\ runner' \in [Senders -> RunnerRecords] /\ runner'[r] = x
      /\ \A s \in Senders \ {r} : runner'[s] = runner[s]
  BY DEF HookTypes
<1>2. RunnersOK'
  BY <1>1 DEF RunnersOK, RunnerOK
<1>. QED
  BY <1>1, <1>2 DEF Hands

LEMMA PowerNat == \A n \in 0..MAX_RETRIES : Backoff(n) \in Nat
  BY PowerAssumption DEF Backoff

-----------------------------------------------------------------------------
(* The steps of a runner that leave the queue alone.                       *)

(* The queue is still watched when a runner that neither sleeps nor goes   *)
(* to sleep stays awake, or bound, if it was.                              *)
LEMMA StillWatched ==
    ASSUME WakeInv, NEW r \in Senders,
           \A s \in Senders \ {r} : runner'[s] = runner[s],
           hookQueue' = hookQueue, hookClock' = hookClock,
           runner[r].pc # "sleep", runner'[r].pc # "sleep",
           ~runner[r].caller /\ runner[r].pc \in {"enter", "drain", "deliver"} =>
               ~runner'[r].caller /\ runner'[r].pc \in {"enter", "drain", "deliver"},
           Bound(r) => Bound(r)'
    PROVE  WakeInv'
<1>1. CASE Awake
  <2>1. PICK s \in Senders :
          \/ ~runner[s].caller /\ runner[s].pc \in {"enter", "drain", "deliver"}
          \/ runner[s].pc = "sleep" /\ runner[s].wake <= hookClock
    BY <1>1 DEF Awake
  <2>2. \/ ~runner'[s].caller /\ runner'[s].pc \in {"enter", "drain", "deliver"}
        \/ runner'[s].pc = "sleep" /\ runner'[s].wake <= hookClock'
    BY <2>1
  <2>. QED
    BY <2>2 DEF WakeInv, Awake
<1>2. CASE \E f \in [Events -> Senders] : Covers(f)
  <2>1. PICK f \in [Events -> Senders] : Covers(f)
    BY <1>2
  <2>2. \A e \in Events : Unguarded(e)' => Unguarded(e)
    BY DEF Unguarded
  <2>3. \A s \in Senders : Bound(s) => Bound(s)'
    BY DEF Bound
  <2>4. \A e \in Events : Unguarded(e)' => Bound(f[e])'
    BY <2>1, <2>2, <2>3 DEF Covers
  <2>5. Covers(f)'
    BY <2>1, <2>2, <2>4 DEF Covers
  <2>. QED
    BY <2>5 DEF WakeInv
<1>. QED
  BY <1>1, <1>2 DEF WakeInv

LEMMA EnterStep ==
    ASSUME HookInv, NEW r \in Senders, Enter(r)
    PROVE  HookInv'
<1> DEFINE x == [runner[r] EXCEPT !.pc = "drain", !.now = hookClock]
<1>1. HookTypes /\ RunnersOK /\ EventAccounted /\ TimesOK /\ WakeInv
  BY DEF HookInv
<1>2. /\ runner[r].pc = "enter" /\ runner' = [runner EXCEPT ![r] = x]
      /\ UNCHANGED <<hookEnabled, hookQueue, hookClock, fate, attempted>>
  BY <1>1 DEF Enter, HookTypes
<1>3. runner[r] \in RunnerRecords /\ runner[r].item = <<>> /\ runner[r].deferred = <<>>
  BY <1>1, <1>2, RunnerTypes
<1>4. /\ x \in RunnerRecords /\ x.pc = "drain" /\ x.now = hookClock /\ x.item = <<>> /\ x.deferred = <<>>
      /\ x.caller = runner[r].caller
  BY <1>1, <1>3 DEF RunnerRecords, HookTypes, Pcs
<1> HIDE DEF x
<1>5. RunnerOK(x)
  BY <1>1, <1>4 DEF RunnerOK, HookTypes
<1>6. /\ runner' \in [Senders -> RunnerRecords] /\ RunnersOK'
      /\ runner'[r] = x /\ \A s \in Senders \ {r} : runner'[s] = runner[s]
      /\ \A s \in Senders \ {r} : Hands(runner')[s] = Hands(runner)[s]
      /\ Hands(runner')[r] = x.item \o x.deferred
  BY <1>1, <1>2, <1>4, <1>5, OneRunner
<1>7. HookTypes'
  BY <1>1, <1>2, <1>6 DEF HookTypes
<1>8. Hands(runner') = Hands(runner)
  BY <1>3, <1>4, <1>6 DEF Hands
<1>9. EventAccounted'
  BY <1>1, <1>2, <1>8, AccountedIff
<1>10. TimesOK'
  BY <1>1, <1>2, <1>3, <1>4, <1>6 DEF TimesOK, AllDue, Due, DueAt, BackoffKept
<1>11. Bound(r) => Bound(r)'
  BY <1>4, <1>6 DEF Bound
<1>12. WakeInv'
  BY <1>1, <1>2, <1>4, <1>6, <1>11, StillWatched
<1>. QED
  BY <1>6, <1>7, <1>9, <1>10, <1>12 DEF HookInv

LEMMA WakeStep ==
    ASSUME HookInv, NEW r \in Senders, Wake(r)
    PROVE  HookInv'
<1> DEFINE x == [runner[r] EXCEPT !.pc = "enter"]
<1>1. HookTypes /\ RunnersOK /\ EventAccounted /\ TimesOK
  BY DEF HookInv
<1>2. /\ runner[r].pc = "sleep" /\ runner' = [runner EXCEPT ![r] = x]
      /\ UNCHANGED <<hookEnabled, hookQueue, hookClock, fate, attempted>>
  BY <1>1 DEF Wake, HookTypes
<1>3. runner[r] \in RunnerRecords /\ runner[r].item = <<>> /\ runner[r].deferred = <<>> /\ ~runner[r].caller
  BY <1>1, <1>2, RunnerTypes DEF RunnersOK, RunnerOK
<1>4. /\ x \in RunnerRecords /\ x.pc = "enter" /\ x.now = runner[r].now /\ x.item = <<>> /\ x.deferred = <<>>
      /\ x.caller = runner[r].caller
  BY <1>1, <1>3 DEF RunnerRecords, HookTypes, Pcs
<1> HIDE DEF x
<1>5. RunnerOK(x)
  BY <1>1, <1>4 DEF RunnerOK, RunnersOK
<1>6. /\ runner' \in [Senders -> RunnerRecords] /\ RunnersOK'
      /\ runner'[r] = x /\ \A s \in Senders \ {r} : runner'[s] = runner[s]
      /\ \A s \in Senders \ {r} : Hands(runner')[s] = Hands(runner)[s]
      /\ Hands(runner')[r] = x.item \o x.deferred
  BY <1>1, <1>2, <1>4, <1>5, OneRunner
<1>7. HookTypes'
  BY <1>1, <1>2, <1>6 DEF HookTypes
<1>8. Hands(runner') = Hands(runner)
  BY <1>3, <1>4, <1>6 DEF Hands
<1>9. EventAccounted'
  BY <1>1, <1>2, <1>8, AccountedIff
<1>10. TimesOK'
  BY <1>1, <1>2, <1>3, <1>4, <1>6 DEF TimesOK, AllDue, Due, DueAt, BackoffKept
<1>11. ~runner'[r].caller /\ runner'[r].pc \in {"enter", "drain", "deliver"}
  BY <1>3, <1>4, <1>6
<1>12. WakeInv'
  BY <1>11 DEF WakeInv, Awake
<1>. QED
  BY <1>6, <1>7, <1>9, <1>10, <1>12 DEF HookInv

LEMMA ConcatDue ==
    ASSUME NEW s \in Seq(Items), NEW t \in Seq(Items), AllDue(s), AllDue(t)
    PROVE  AllDue(s \o t)
<1>1. /\ DOMAIN s = 1..Len(s) /\ DOMAIN t = 1..Len(t)
      /\ DOMAIN (s \o t) = 1..(Len(s) + Len(t)) /\ Len(s) \in Nat /\ Len(t) \in Nat
  BY ConcatFacts
<1>2. ASSUME NEW i \in 1..(Len(s) + Len(t)) PROVE Due((s \o t)[i])
  <2>1. CASE i <= Len(s)
    <3>1. i \in 1..Len(s) /\ (s \o t)[i] = s[i]
      BY <1>1, <2>1, ConcatFacts
    <3>. QED
      BY <1>1, <3>1 DEF AllDue
  <2>2. CASE ~(i <= Len(s))
    <3>1. i - Len(s) \in 1..Len(t) /\ (s \o t)[i] = t[i - Len(s)]
      BY <1>1, <2>2, ConcatFacts
    <3>. QED
      BY <1>1, <3>1 DEF AllDue
  <2>. QED
    BY <2>1, <2>2
<1>. QED
  BY <1>1, <1>2 DEF AllDue

(* An attempt ends: the event is settled, or waits for its next attempt.   *)
Settles(r, more) ==
    LET it == runner[r].item[1]
    IN  /\ \A e \in Events \ {it.payload} : fate'[e] = fate[e]
        /\ \/ more = <<>> /\ fate'[it.payload] \notin {"held", "new"}
           \/ /\ Len(more) = 1 /\ more[1].payload = it.payload /\ Due(more[1])
              /\ fate'[it.payload] = fate[it.payload]

LEMMA SettleStep ==
    ASSUME HookInv, NEW r \in Senders, NEW more \in Seq(Items),
           runner[r].pc = "deliver", SettledEvents(r, more), Settles(r, more),
           fate' \in [Events -> Fates],
           UNCHANGED <<hookEnabled, hookQueue, hookClock, attempted>>
    PROVE  HookInv'
<1> DEFINE x == [runner[r] EXCEPT !.pc = "drain", !.item = <<>>, !.deferred = runner[r].deferred \o more]
           it == runner[r].item[1]
           set == runner[r].deferred
           hand == runner[r].item
<1>1. HookTypes /\ RunnersOK /\ EventAccounted /\ TimesOK /\ WakeInv
  BY DEF HookInv
<1>2. runner' = [runner EXCEPT ![r] = x]
  BY <1>1 DEF SettledEvents, HookTypes
<1>3. runner[r] \in RunnerRecords /\ set \in Seq(Items) /\ hand \in Seq(Items)
  BY <1>1, RunnerTypes
<1>4. it \in Items /\ it.payload \in Events /\ hand = <<it>>
  BY <1>1, DeliverItem
<1>5. set \o more \in Seq(Items) /\ <<>> \in Seq(Items)
  BY <1>3, ConcatFacts, NoneFacts
<1>6. /\ x \in RunnerRecords /\ x.pc = "drain" /\ x.now = runner[r].now
      /\ x.item = <<>> /\ x.deferred = set \o more /\ x.caller = runner[r].caller
  BY <1>3, <1>5 DEF RunnerRecords, Pcs
<1> HIDE DEF x
<1>7. RunnerOK(x)
  BY <1>1, <1>6 DEF RunnerOK, RunnersOK
<1>8. /\ runner' \in [Senders -> RunnerRecords] /\ RunnersOK'
      /\ runner'[r] = x /\ \A s \in Senders \ {r} : runner'[s] = runner[s]
      /\ \A s \in Senders \ {r} : Hands(runner')[s] = Hands(runner)[s]
      /\ Hands(runner')[r] = x.item \o x.deferred
  BY <1>1, <1>2, <1>6, <1>7, OneRunner
<1>9. HookTypes'
  BY <1>1, <1>8 DEF HookTypes
<1>10. EventAccounted'
  <2>2. Hands(runner)[r] = hand \o set
    BY DEF Hands
  <2>3. Hands(runner')[r] = set \o more
    BY <1>5, <1>6, <1>8
  <2> HIDE DEF set, hand, it
  <2>4. /\ Distinct(hand \o set) /\ Distinct(hookQueue)
        /\ \A e \in Events : In(hand \o set, e) => ~In(hookQueue, e)
    BY <1>1, <2>2, InHand
  <2>5. Distinct(set) /\ \A e \in Events : ~(In(hand, e) /\ In(set, e))
    BY <1>3, <2>4, ConcatDistinct
  <2>6. \A e : In(hand, e) <=> it.payload = e
    BY <1>4, OneFacts
  <2>7. \A e : In(hand \o set, e) <=> In(hand, e) \/ In(set, e)
    BY <1>3, ConcatIn
  <2>8. \A e : In(set \o more, e) <=> In(set, e) \/ In(more, e)
    BY <1>3, ConcatIn
  <2>9. \/ more = <<>> /\ fate'[it.payload] \notin {"held", "new"}
        \/ Len(more) = 1 /\ more[1].payload = it.payload /\ fate'[it.payload] = fate[it.payload]
    BY DEF Settles, it
  <2>10. \A e \in Events \ {it.payload} : fate'[e] = fate[e]
    BY DEF Settles, it
  <2>11. ~In(hookQueue, it.payload) /\ ~In(set, it.payload)
    BY <1>4, <2>4, <2>5, <2>6, <2>7
  <2>12. CASE more = <<>> /\ fate'[it.payload] \notin {"held", "new"}
    <3>1. (\A e : ~In(more, e)) /\ Distinct(more)
      BY <2>12, NoneFacts
    <3>2. Distinct(set \o more)
      BY <1>3, <2>5, <3>1, ConcatDistinct
    <3>3. \A e \in Events : ~(In(hookQueue, e) /\ In(set \o more, e))
      BY <2>4, <2>7, <2>8, <3>1
    <3>4. \A e \in Events :
            Moved(e, hookQueue, hand \o set, fate, hookQueue, set \o more, fate')
      BY <2>6, <2>7, <2>8, <2>10, <2>11, <2>12, <3>1 DEF Moved
    <3>. QED
      BY <1>1, <1>8, <2>2, <2>3, <2>4, <3>2, <3>3, <3>4, Exchange
  <2>13. CASE Len(more) = 1 /\ more[1].payload = it.payload /\ fate'[it.payload] = fate[it.payload]
    <3>1. (\A e : In(more, e) <=> it.payload = e) /\ Distinct(more)
      BY <2>13 DEF In, Distinct
    <3>2. Distinct(set \o more)
      BY <1>3, <2>5, <2>11, <3>1, ConcatDistinct
    <3>3. \A e \in Events : ~(In(hookQueue, e) /\ In(set \o more, e))
      BY <2>4, <2>6, <2>7, <2>8, <3>1
    <3>4. \A e \in Events :
            Moved(e, hookQueue, hand \o set, fate, hookQueue, set \o more, fate')
      BY <2>6, <2>7, <2>8, <2>10, <2>13, <3>1 DEF Moved
    <3>. QED
      BY <1>1, <1>8, <2>2, <2>3, <2>4, <3>2, <3>3, <3>4, Exchange
  <2>. QED
    BY <2>9, <2>12, <2>13
<1>11. TimesOK'
  <2>1. \A e \in Events : fate'[e] = "new" => fate[e] = "new"
    BY DEF Settles
  <2>2. AllDue(set \o more)
    <3>1. AllDue(set) /\ AllDue(more)
      <4>1. AllDue(set)
        BY <1>1 DEF TimesOK
      <4>2. AllDue(more)
        <5>1. DOMAIN more = 1..Len(more)
          OBVIOUS
        <5>2. Len(more) = 0 \/ (Len(more) = 1 /\ Due(more[1]))
          BY DEF Settles
        <5>. QED
          BY <5>1, <5>2 DEF AllDue
      <4>. QED
        BY <4>1, <4>2
    <3> HIDE DEF set
    <3>. QED
      BY <1>3, <3>1, ConcatDue
  <2> HIDE DEF set, it, hand
  <2>3. AllDue(hookQueue)' /\ BackoffKept'
        /\ \A e \in Events : \A k \in DOMAIN attempted'[e] : attempted'[e][k] <= hookClock'
    BY <1>1 DEF TimesOK, AllDue, Due, DueAt, BackoffKept
  <2>4. \A e \in Events : fate'[e] = "new" => attempted'[e] = <<>>
    BY <1>1, <2>1 DEF TimesOK
  <2>5. ASSUME NEW s \in Senders
        PROVE  /\ AllDue(runner[s].deferred)'
               /\ runner'[s].pc = "deliver" =>
                     Len(attempted'[runner'[s].item[1].payload]) = runner'[s].item[1].attempts + 1
    <3>1. CASE s = r
      <4>1. runner'[s].deferred = set \o more /\ runner'[s].pc = "drain"
        BY <1>6, <1>8, <3>1
      <4>. QED
        BY <2>2, <4>1 DEF AllDue, Due, DueAt
    <3>2. CASE s # r
      BY <1>1, <1>8, <3>2 DEF TimesOK, AllDue, Due, DueAt
    <3>. QED
      BY <3>1, <3>2
  <2>. QED
    BY <2>3, <2>4, <2>5 DEF TimesOK
<1>12. Bound(r) => Bound(r)'
  BY <1>6, <1>8 DEF Bound
<1>13. WakeInv'
  BY <1>1, <1>6, <1>8, <1>12, StillWatched
<1>. QED
  BY <1>8, <1>9, <1>10, <1>11, <1>13 DEF HookInv

LEMMA DeliveredStep ==
    ASSUME HookInv, NEW r \in Senders, Delivered(r)
    PROVE  HookInv'
<1> DEFINE it == runner[r].item[1]
<1>1. /\ runner[r].pc = "deliver" /\ fate' = [fate EXCEPT ![it.payload] = "delivered"]
      /\ SettledEvents(r, <<>>) /\ UNCHANGED <<hookEnabled, hookQueue, hookClock, attempted>>
  BY DEF Delivered
<1>2. it.payload \in Events
  BY <1>1, DeliverItem DEF HookInv
<1>3. fate \in [Events -> Fates]
  BY DEF HookInv, HookTypes
<1>4. fate' \in [Events -> Fates] /\ fate'[it.payload] = "delivered"
      /\ \A e \in Events \ {it.payload} : fate'[e] = fate[e]
  BY <1>1, <1>2, <1>3 DEF Fates
<1>5. Settles(r, <<>>)
  BY <1>4 DEF Settles
<1>. QED
  BY <1>1, <1>4, <1>5, NoneFacts, SettleStep

LEMMA NotDeliveredStep ==
    ASSUME HookInv, NEW r \in Senders, NotDelivered(r)
    PROVE  HookInv'
<1> DEFINE it == runner[r].item[1]
           again == it.attempts < MAX_RETRIES
           next == RetryOf(r, it)
<1>1. /\ runner[r].pc = "deliver" /\ fate' = [fate EXCEPT ![it.payload] = IF again THEN @ ELSE "failed"]
      /\ SettledEvents(r, IF again THEN <<next>> ELSE <<>>)
      /\ UNCHANGED <<hookEnabled, hookQueue, hookClock, attempted>>
  BY DEF NotDelivered
<1>2. it.payload \in Events /\ it.attempts \in 0..MAX_RETRIES
  BY <1>1, DeliverItem DEF HookInv
<1>3. fate \in [Events -> Fates] /\ hookClock \in Nat /\ attempted \in [Events -> Seq(Nat)]
  BY DEF HookInv, HookTypes
<1>4. fate' \in [Events -> Fates] /\ fate'[it.payload] = (IF again THEN fate[it.payload] ELSE "failed")
      /\ \A e \in Events \ {it.payload} : fate'[e] = fate[e]
  BY <1>1, <1>2, <1>3 DEF Fates
<1>5. CASE ~again
  <2>1. Settles(r, <<>>)
    BY <1>4, <1>5 DEF Settles
  <2>. QED
    BY <1>1, <1>4, <1>5, <2>1, NoneFacts, SettleStep
<1>6. CASE again
  <2>1. it.attempts \in Nat /\ it.attempts + 1 \in 0..MAX_RETRIES /\ Backoff(it.attempts) \in Nat
    BY <1>2, <1>6, PowerNat, WebhookAssumption
  <2>2. /\ next.payload = it.payload /\ next.attempts = it.attempts + 1
        /\ next.ready_at = hookClock + Backoff(it.attempts)
    BY DEF RetryOf, PendingWebhook
  <2>3. next \in Items
    BY <1>2, <1>3, <2>1 DEF Items, RetryOf, PendingWebhook
  <2>4. Len(attempted[it.payload]) = it.attempts + 1
        /\ \A k \in DOMAIN attempted[it.payload] : attempted[it.payload][k] <= hookClock
    BY <1>1, <1>2 DEF HookInv, TimesOK
  <2>5. attempted[it.payload] \in Seq(Nat)
    BY <1>2, <1>3
  <2>6. it.attempts + 1 \in DOMAIN attempted[it.payload]
    BY <2>1, <2>4, <2>5
  <2>7. attempted[it.payload][it.attempts + 1] \in Nat
        /\ attempted[it.payload][it.attempts + 1] <= hookClock
    BY <2>4, <2>5, <2>6
  <2>8. (it.attempts + 1) - 1 = it.attempts
    BY <2>1
  <2>9. Due(next)
    <3> HIDE DEF next, it
    <3>1. next.ready_at >= attempted[next.payload][next.attempts] + Backoff(next.attempts - 1)
      BY <1>3, <2>1, <2>2, <2>7, <2>8
    <3>2. Len(attempted[next.payload]) = next.attempts
      BY <2>2, <2>4
    <3>. QED
      BY <3>1, <3>2 DEF Due, DueAt
  <2>10. <<next>> \in Seq(Items) /\ Len(<<next>>) = 1 /\ <<next>>[1] = next
    <3> HIDE DEF next
    <3>. QED
      BY <2>3, OneFacts
  <2>11. Settles(r, <<next>>)
    BY <1>4, <1>6, <2>2, <2>9, <2>10 DEF Settles
  <2>. QED
    BY <1>1, <1>4, <1>6, <2>10, <2>11, SettleStep
<1>. QED
  BY <1>5, <1>6

LEMMA UpdateConfigStep ==
    ASSUME HookInv, UpdateConfig
    PROVE  HookInv'
<1>1. hookEnabled' \in BOOLEAN /\ UNCHANGED <<hookQueue, runner, hookClock, fate, attempted>>
  BY DEF UpdateConfig
<1>2. HookTypes' /\ RunnersOK'
  BY <1>1 DEF HookInv, HookTypes, RunnersOK, RunnerOK
<1>3. EventAccounted'
  BY <1>1, AccountedIff DEF HookInv
<1>4. TimesOK'
  BY <1>1 DEF HookInv, TimesOK, AllDue, Due, DueAt, BackoffKept
<1>5. WakeInv'
  BY <1>1 DEF HookInv, WakeInv, Awake, Covers, Unguarded, Bound
<1>. QED
  BY <1>2, <1>3, <1>4, <1>5 DEF HookInv

LEMMA TickStep ==
    ASSUME HookInv, Tick
    PROVE  HookInv'
<1>1. hookClock' = hookClock + 1 /\ UNCHANGED <<hookEnabled, hookQueue, runner, fate, attempted>>
  BY DEF Tick
<1>2. HookTypes /\ RunnersOK /\ hookClock \in Nat
  BY DEF HookInv, HookTypes
<1>3. HookTypes'
  BY <1>1, <1>2 DEF HookTypes
<1>4. \A r \in Senders : runner[r].now \in Nat /\ runner[r].wake \in Nat
  BY <1>2, RunnerTypes
<1>5. RunnersOK'
  BY <1>1, <1>2, <1>4 DEF RunnersOK, RunnerOK
<1>6. EventAccounted'
  BY <1>1, AccountedIff DEF HookInv
<1>7. \A e \in Events : \A k \in DOMAIN attempted[e] : attempted[e][k] \in Nat
  <2>1. \A e \in Events : attempted[e] \in Seq(Nat)
    BY <1>2 DEF HookTypes
  <2>. QED
    BY <2>1
<1>8. \A e \in Events : \A k \in DOMAIN attempted[e] : attempted[e][k] <= hookClock + 1
  BY <1>2, <1>7 DEF HookInv, TimesOK
<1>9. TimesOK'
  BY <1>1, <1>8 DEF HookInv, TimesOK, AllDue, Due, DueAt, BackoffKept
<1>10. Awake => Awake'
  BY <1>1, <1>2, <1>4 DEF Awake
<1>11. \A f \in [Events -> Senders] : Covers(f) => Covers(f)'
  BY <1>1 DEF Covers, Unguarded, Bound
<1>12. WakeInv'
  BY <1>10, <1>11 DEF HookInv, WakeInv
<1>. QED
  BY <1>3, <1>5, <1>6, <1>9, <1>12 DEF HookInv

LEMMA NoRunnerFacts ==
    /\ NoRunner \in RunnerRecords /\ NoRunner.pc = "idle" /\ ~NoRunner.caller /\ NoRunner.now = 0
    /\ NoRunner.item = <<>> /\ NoRunner.deferred = <<>> /\ NoRunner.wake = 0
<1>1. <<>> \in Seq(Items)
  BY NoneFacts
<1>. QED
  BY <1>1 DEF NoRunner, RunnerRecords, Pcs

LEMMA DropCallStep ==
    ASSUME HookInv, NEW r \in Senders, DropCall(r)
    PROVE  HookInv'
<1> DEFINE g == HeldBy(r)
<1>1. HookTypes /\ RunnersOK /\ EventAccounted /\ TimesOK /\ WakeInv /\ hookClock \in Nat
  BY DEF HookInv, HookTypes
<1>2. /\ runner[r].pc = "deliver" /\ runner[r].caller
      /\ fate' = [e \in Events |-> IF In(g, e) THEN "lost" ELSE fate[e]]
      /\ runner' = [runner EXCEPT ![r] = NoRunner]
      /\ UNCHANGED <<hookEnabled, hookQueue, hookClock, attempted>>
  BY DEF DropCall, In
<1>3. RunnerOK(NoRunner)
  BY <1>1, NoRunnerFacts, NoneFacts DEF RunnerOK
<1>4. /\ runner' \in [Senders -> RunnerRecords] /\ RunnersOK'
      /\ runner'[r] = NoRunner /\ \A s \in Senders \ {r} : runner'[s] = runner[s]
      /\ \A s \in Senders \ {r} : Hands(runner')[s] = Hands(runner)[s]
      /\ Hands(runner')[r] = NoRunner.item \o NoRunner.deferred
  BY <1>1, <1>2, <1>3, NoRunnerFacts, OneRunner
<1>5. Hands(runner)[r] = g /\ Hands(runner')[r] = <<>>
  <2>1. Hands(runner)[r] = g
    BY DEF Hands, HeldBy
  <2>2. NoRunner.item \o NoRunner.deferred = <<>> \o <<>>
    BY NoRunnerFacts
  <2>3. <<>> \o <<>> = <<>>
    OBVIOUS
  <2>. QED
    BY <1>4, <2>1, <2>2, <2>3
<1> HIDE DEF g
<1>6. HookTypes'
  BY <1>1, <1>2, <1>4 DEF HookTypes, Fates
<1>7. /\ Distinct(hookQueue) /\ \A e \in Events : In(g, e) => ~In(hookQueue, e)
  BY <1>1, <1>5, InHand
<1>8. \A e \in Events : Moved(e, hookQueue, g, fate, hookQueue', <<>>, fate')
  BY <1>2, <1>7, NoneFacts DEF Moved
<1>9. EventAccounted'
  BY <1>1, <1>2, <1>4, <1>5, <1>7, <1>8, NoneFacts, Exchange
<1>10. TimesOK'
  <2>1. AllDue(hookQueue)' /\ BackoffKept'
        /\ \A e \in Events : \A k \in DOMAIN attempted'[e] : attempted'[e][k] <= hookClock'
    BY <1>1, <1>2 DEF TimesOK, AllDue, Due, DueAt, BackoffKept
  <2>2. \A e \in Events : fate'[e] = "new" => attempted'[e] = <<>>
    BY <1>1, <1>2 DEF TimesOK
  <2>3. ASSUME NEW s \in Senders
        PROVE  /\ AllDue(runner[s].deferred)'
               /\ runner'[s].pc = "deliver" =>
                     Len(attempted'[runner'[s].item[1].payload]) = runner'[s].item[1].attempts + 1
    <3>1. CASE s = r
      BY <1>4, <3>1, NoRunnerFacts DEF AllDue
    <3>2. CASE s # r
      BY <1>1, <1>2, <1>4, <3>2 DEF TimesOK, AllDue, Due, DueAt
    <3>. QED
      BY <3>1, <3>2
  <2>. QED
    BY <2>1, <2>2, <2>3 DEF TimesOK
<1>11. ~Bound(r)
  BY <1>2 DEF Bound
<1>12. WakeInv'
  BY <1>1, <1>2, <1>4, <1>11, NoRunnerFacts, StillWatched
<1>. QED
  BY <1>4, <1>6, <1>9, <1>10, <1>12 DEF HookInv

-----------------------------------------------------------------------------
(* The steps that exchange events with the queue.                          *)

LEMMA RequeueStep ==
    ASSUME HookInv, NEW r \in Senders, Requeue(r)
    PROVE  HookInv'
<1> DEFINE back == runner[r].deferred
<1>1. HookTypes /\ RunnersOK /\ EventAccounted /\ TimesOK /\ WakeInv /\ hookClock \in Nat
      /\ hookQueue \in Seq(Items)
  BY DEF HookInv, HookTypes
<1>2. runner[r].pc = "requeue" /\ UNCHANGED <<hookEnabled, hookClock, fate, attempted>>
  BY DEF Requeue
<1>3. runner[r].item = <<>> /\ back \in Seq(Items)
  BY <1>1, <1>2, RunnerTypes
<1>4. Hands(runner)[r] = back
  <2>1. Hands(runner)[r] = <<>> \o back
    BY <1>3 DEF Hands
  <2> HIDE DEF back
  <2>2. <<>> \o back = back
    BY <1>3
  <2>. QED
    BY <2>1, <2>2
<1>5. CASE back = <<>>
  <2>1. runner' = [runner EXCEPT ![r] = NoRunner] /\ hookQueue' = hookQueue
    BY <1>5 DEF Requeue
  <2>2. RunnerOK(NoRunner)
    BY <1>1, NoRunnerFacts, NoneFacts DEF RunnerOK
  <2>3. /\ runner' \in [Senders -> RunnerRecords] /\ RunnersOK'
        /\ runner'[r] = NoRunner /\ \A s \in Senders \ {r} : runner'[s] = runner[s]
        /\ \A s \in Senders \ {r} : Hands(runner')[s] = Hands(runner)[s]
        /\ Hands(runner')[r] = NoRunner.item \o NoRunner.deferred
    BY <1>1, <1>2, <2>1, <2>2, NoRunnerFacts, OneRunner
  <2>4. HookTypes'
    BY <1>1, <1>2, <2>1, <2>3 DEF HookTypes
  <2>5. Hands(runner') = Hands(runner)
    BY <1>3, <1>5, <2>3, NoRunnerFacts DEF Hands
  <2>6. EventAccounted'
    BY <1>1, <1>2, <2>1, <2>5, AccountedIff
  <2>7. TimesOK'
    BY <1>1, <1>2, <1>5, <2>1, <2>3, NoRunnerFacts DEF TimesOK, AllDue, Due, DueAt, BackoffKept
  <2>8. ~Bound(r)
    BY <1>2 DEF Bound
  <2>9. WakeInv'
    BY <1>1, <1>2, <2>1, <2>3, <2>8, NoRunnerFacts, StillWatched
  <2>. QED
    BY <2>3, <2>4, <2>6, <2>7, <2>9 DEF HookInv
<1>6. CASE back # <<>>
  <2> DEFINE x == [NoRunner EXCEPT !.pc = "sleep", !.wake = EarliestReady(back)]
  <2>1. runner' = [runner EXCEPT ![r] = x] /\ hookQueue' = hookQueue \o back
    BY <1>6 DEF Requeue, ScheduleWake
  <2>2. EarliestReady(back) \in Nat /\ \A i \in DOMAIN back : EarliestReady(back) <= back[i].ready_at
    <3> HIDE DEF back
    <3>. QED
      BY <1>3, <1>6, EarliestFacts
  <2>3. /\ x \in RunnerRecords /\ x.pc = "sleep" /\ ~x.caller /\ x.now = 0 /\ x.item = <<>> /\ x.deferred = <<>>
        /\ x.wake = EarliestReady(back)
    BY <2>2, NoRunnerFacts DEF RunnerRecords, Pcs
  <2> HIDE DEF x
  <2>4. RunnerOK(x)
    BY <1>1, <2>3, NoneFacts DEF RunnerOK
  <2>5. /\ runner' \in [Senders -> RunnerRecords] /\ RunnersOK'
        /\ runner'[r] = x /\ \A s \in Senders \ {r} : runner'[s] = runner[s]
        /\ \A s \in Senders \ {r} : Hands(runner')[s] = Hands(runner)[s]
        /\ Hands(runner')[r] = x.item \o x.deferred
    BY <1>1, <1>2, <2>1, <2>3, <2>4, OneRunner
  <2>6. Hands(runner')[r] = <<>>
    <3>1. <<>> \o <<>> = <<>>
      OBVIOUS
    <3>. QED
      BY <2>3, <2>5, <3>1
  <2>7. hookQueue' \in Seq(Items)
    BY <1>1, <1>3, <2>1, ConcatFacts
  <2>8. HookTypes'
    BY <1>1, <1>2, <2>5, <2>7 DEF HookTypes
  <2>9. EventAccounted'
    <3> HIDE DEF back
    <3>1. /\ Distinct(back) /\ Distinct(hookQueue)
          /\ \A e \in Events : In(back, e) => ~In(hookQueue, e)
      BY <1>1, <1>4, InHand
    <3>2. Distinct(hookQueue')
      BY <1>1, <1>3, <2>1, <3>1, ConcatDistinct
    <3>3. \A e : In(hookQueue', e) <=> In(hookQueue, e) \/ In(back, e)
      BY <1>1, <1>3, <2>1, ConcatIn
    <3>4. \A e \in Events : Moved(e, hookQueue, back, fate, hookQueue', <<>>, fate')
      BY <1>2, <3>3, NoneFacts DEF Moved
    <3>. QED
      BY <1>1, <1>4, <2>5, <2>6, <3>2, <3>4, NoneFacts, Exchange
  <2>10. TimesOK'
    <3>1. AllDue(hookQueue) /\ AllDue(back)
      BY <1>1 DEF TimesOK
    <3>2. AllDue(hookQueue \o back)
      <4> HIDE DEF back
      <4>. QED
        BY <1>1, <1>3, <3>1, ConcatDue
    <3>3. AllDue(hookQueue)'
      BY <1>2, <2>1, <3>2 DEF AllDue, Due, DueAt
    <3>4. BackoffKept' /\ (\A e \in Events : fate'[e] = "new" => attempted'[e] = <<>>)
          /\ \A e \in Events : \A k \in DOMAIN attempted'[e] : attempted'[e][k] <= hookClock'
      BY <1>1, <1>2 DEF TimesOK, BackoffKept
    <3>5. ASSUME NEW s \in Senders
          PROVE  /\ AllDue(runner[s].deferred)'
                 /\ runner'[s].pc = "deliver" =>
                       Len(attempted'[runner'[s].item[1].payload]) = runner'[s].item[1].attempts + 1
      <4>1. CASE s = r
        BY <2>3, <2>5, <4>1 DEF AllDue
      <4>2. CASE s # r
        BY <1>1, <1>2, <2>5, <4>2 DEF TimesOK, AllDue, Due, DueAt
      <4>. QED
        BY <4>1, <4>2
    <3>. QED
      BY <3>3, <3>4, <3>5 DEF TimesOK
  <2>11. WakeInv'
    <3>1. CASE Awake
      <4>1. PICK s \in Senders :
              \/ ~runner[s].caller /\ runner[s].pc \in {"enter", "drain", "deliver"}
              \/ runner[s].pc = "sleep" /\ runner[s].wake <= hookClock
        BY <3>1 DEF Awake
      <4>2. runner'[s] = runner[s]
        BY <1>2, <2>5, <4>1
      <4>. QED
        BY <1>2, <4>1, <4>2 DEF WakeInv, Awake
    <3>2. CASE \E f \in [Events -> Senders] : Covers(f)
      <4>1. PICK f \in [Events -> Senders] : Covers(f)
        BY <3>2
      <4>2. ASSUME NEW e \in Events, Unguarded(e)' PROVE Unguarded(e)
        <5>1. PICK i \in DOMAIN hookQueue' :
                /\ hookQueue'[i].payload = e
                /\ ~ \E s \in Senders : runner'[s].pc = "sleep" /\ runner'[s].wake <= hookQueue'[i].ready_at
          BY <4>2 DEF Unguarded
        <5>2. ~ \E k \in DOMAIN back : hookQueue'[i] = back[k]
          BY <2>2, <2>3, <2>5, <5>1
        <5> HIDE DEF back
        <5>3. /\ DOMAIN hookQueue = 1..Len(hookQueue) /\ DOMAIN back = 1..Len(back)
              /\ DOMAIN hookQueue' = 1..(Len(hookQueue) + Len(back))
              /\ Len(hookQueue) \in Nat /\ Len(back) \in Nat
          BY <1>1, <1>3, <2>1, ConcatFacts
        <5>4. i <= Len(hookQueue)
          BY <1>1, <1>3, <2>1, <5>2, <5>3, ConcatFacts
        <5>5. i \in DOMAIN hookQueue
          BY <5>3, <5>4
        <5>6. hookQueue'[i] = hookQueue[i]
          BY <1>1, <1>3, <2>1, <5>3, <5>5, ConcatFacts
        <5>7. ~ \E s \in Senders : runner[s].pc = "sleep" /\ runner[s].wake <= hookQueue[i].ready_at
          BY <1>2, <2>5, <5>1, <5>6
        <5>. QED
          BY <5>1, <5>5, <5>6, <5>7 DEF Unguarded
      <4>3. \A s \in Senders : Bound(s) => Bound(s)'
        BY <1>2, <2>5 DEF Bound
      <4>4. \A e \in Events : Unguarded(e)' => Bound(f[e])'
        BY <4>1, <4>2, <4>3 DEF Covers
      <4>5. Covers(f)'
        BY <4>1, <4>2, <4>4 DEF Covers
      <4>. QED
        BY <4>5 DEF WakeInv
    <3>. QED
      BY <1>1, <3>1, <3>2 DEF WakeInv
  <2>. QED
    BY <2>5, <2>8, <2>9, <2>10, <2>11 DEF HookInv
<1>. QED
  BY <1>5, <1>6

(* A call of send that is not delivered to anybody.                        *)
LEMMA SkipStep ==
    ASSUME HookInv, NEW r \in Senders, NEW e \in Events, runner[r].pc = "idle", fate[e] = "new",
           fate' = [fate EXCEPT ![e] = "skipped"],
           UNCHANGED <<hookEnabled, hookQueue, runner, hookClock, attempted>>
    PROVE  HookInv'
<1>1. HookTypes /\ RunnersOK /\ EventAccounted /\ TimesOK /\ WakeInv /\ fate \in [Events -> Fates]
  BY DEF HookInv, HookTypes
<1>2. fate' \in [Events -> Fates] /\ fate'[e] = "skipped" /\ \A d \in Events \ {e} : fate'[d] = fate[d]
  BY <1>1 DEF Fates
<1>3. HookTypes' /\ RunnersOK'
  BY <1>1, <1>2 DEF HookTypes, RunnersOK, RunnerOK
<1>4. EventAccounted'
  <2> DEFINE g == Hands(runner)[r]
  <2>1. Hands(runner') = Hands(runner) /\ Hands(runner)[r] = g
    OBVIOUS
  <2> HIDE DEF g
  <2>2. /\ Distinct(g) /\ Distinct(hookQueue)
        /\ \A d \in Events : In(g, d) => ~In(hookQueue, d) /\ fate[d] = "held"
        /\ \A d \in Events : In(hookQueue, d) => fate[d] = "held"
    BY <1>1, <2>1, InHand
  <2>3. \A d \in Events : Moved(d, hookQueue, g, fate, hookQueue', g, fate')
    BY <1>2, <2>2 DEF Moved
  <2>. QED
    BY <1>1, <2>1, <2>2, <2>3, Exchange
<1>5. TimesOK'
  BY <1>1, <1>2 DEF TimesOK, AllDue, Due, DueAt, BackoffKept
<1>6. WakeInv'
  BY <1>1 DEF WakeInv, Awake, Covers, Unguarded, Bound
<1>. QED
  BY <1>3, <1>4, <1>5, <1>6 DEF HookInv

(* What is left of the queue when there is no room.                        *)
Room == IF Len(hookQueue) >= MAX_QUEUE_SIZE THEN Tail(hookQueue) ELSE hookQueue

LEMMA RoomFacts ==
    ASSUME HookTypes, Distinct(hookQueue)
    PROVE  /\ Room \in Seq(Items) /\ Distinct(Room)
           /\ \A d : In(Room, d) => In(hookQueue, d)
           /\ Len(hookQueue) < MAX_QUEUE_SIZE => Room = hookQueue
           /\ Len(hookQueue) >= MAX_QUEUE_SIZE =>
                 /\ Head(hookQueue).payload \in Events
                 /\ \A d : In(hookQueue, d) <=> In(Room, d) \/ Head(hookQueue).payload = d
                 /\ ~In(Room, Head(hookQueue).payload)
           /\ \A i \in DOMAIN Room : \E k \in DOMAIN hookQueue : Room[i] = hookQueue[k]
<1>1. hookQueue \in Seq(Items) /\ Len(hookQueue) \in Nat /\ MAX_QUEUE_SIZE \in Nat /\ MAX_QUEUE_SIZE > 0
  BY WebhookAssumption DEF HookTypes
<1>2. CASE Len(hookQueue) < MAX_QUEUE_SIZE
  <2>1. Room = hookQueue
    BY <1>1, <1>2 DEF Room
  <2>. QED
    BY <1>1, <1>2, <2>1
<1>3. CASE Len(hookQueue) >= MAX_QUEUE_SIZE
  <2>1. Room = Tail(hookQueue)
    BY <1>3 DEF Room
  <2>2. hookQueue # <<>>
    BY <1>1, <1>3
  <2>3. /\ Tail(hookQueue) \in Seq(Items) /\ Head(hookQueue) \in Items /\ Head(hookQueue) = hookQueue[1]
        /\ 1 \in 1..(Len(hookQueue) + 1) /\ 1 <= Len(hookQueue) /\ Cut(hookQueue, 1, <<>>, Tail(hookQueue))
    BY <1>1, <2>2, TailFacts
  <2>4. /\ \A d : In(Tail(hookQueue), d) => In(hookQueue, d)
        /\ \A d : In(hookQueue, d) <=> In(<<>>, d) \/ In(Tail(hookQueue), d) \/ hookQueue[1].payload = d
    BY <1>1, <2>3, NoneFacts, CutIn
  <2>5. Distinct(Tail(hookQueue)) /\ ~In(Tail(hookQueue), hookQueue[1].payload)
    BY <1>1, <2>3, NoneFacts, CutDistinct
  <2>6. Head(hookQueue).payload \in Events
    BY <2>3 DEF Items
  <2>7. \A i \in DOMAIN Tail(hookQueue) : \E k \in DOMAIN hookQueue : Tail(hookQueue)[i] = hookQueue[k]
    <3>1. ASSUME NEW i \in 1..Len(Tail(hookQueue))
          PROVE  1 + i \in 1..Len(hookQueue) /\ Tail(hookQueue)[i] = hookQueue[1 + i]
      BY <1>1, <2>3 DEF Cut
    <3>2. DOMAIN Tail(hookQueue) = 1..Len(Tail(hookQueue)) /\ DOMAIN hookQueue = 1..Len(hookQueue)
      BY <1>1, <2>3
    <3>. QED
      BY <3>1, <3>2
  <2>. QED
    BY <1>1, <1>3, <2>1, <2>3, <2>4, <2>5, <2>6, <2>7, NoneFacts
<1>. QED
  BY <1>1, <1>2, <1>3

LEMMA AcceptStep ==
    ASSUME HookInv, NEW r \in Senders, NEW e \in Events, runner[r].pc = "idle", fate[e] = "new",
           Enqueue(e),
           runner' = [runner EXCEPT ![r] = [NoRunner EXCEPT !.pc = "enter", !.caller = TRUE]],
           UNCHANGED <<hookEnabled, hookClock, attempted>>
    PROVE  HookInv'
<1> DEFINE x == [NoRunner EXCEPT !.pc = "enter", !.caller = TRUE]
           new == PendingWebhook(e, 0, hookClock)
           full == Len(hookQueue) >= MAX_QUEUE_SIZE
<1>1. /\ HookTypes /\ RunnersOK /\ EventAccounted /\ TimesOK /\ WakeInv /\ fate \in [Events -> Fates]
      /\ hookClock \in Nat /\ hookQueue \in Seq(Items)
  BY DEF HookInv, HookTypes
<1>2. /\ x \in RunnerRecords /\ x.pc = "enter" /\ x.caller /\ x.now = 0 /\ x.item = <<>> /\ x.deferred = <<>>
  BY NoRunnerFacts DEF RunnerRecords, Pcs
<1>3. runner' = [runner EXCEPT ![r] = x]
  OBVIOUS
<1> HIDE DEF x
<1>4. RunnerOK(x)
  BY <1>1, <1>2, NoneFacts DEF RunnerOK
<1>5. /\ runner' \in [Senders -> RunnerRecords] /\ RunnersOK'
      /\ runner'[r] = x /\ \A s \in Senders \ {r} : runner'[s] = runner[s]
      /\ \A s \in Senders \ {r} : Hands(runner')[s] = Hands(runner)[s]
      /\ Hands(runner')[r] = x.item \o x.deferred
  BY <1>1, <1>2, <1>3, <1>4, OneRunner
<1>6. Hands(runner)[r] = <<>> /\ Hands(runner')[r] = <<>>
  <2>1. runner[r].item = <<>> /\ runner[r].deferred = <<>>
    BY <1>1, RunnerTypes
  <2>2. <<>> \o <<>> = <<>>
    OBVIOUS
  <2>3. Hands(runner)[r] = <<>> \o <<>>
    BY <2>1 DEF Hands
  <2>. QED
    BY <1>2, <1>5, <2>2, <2>3
<1>7. /\ Distinct(hookQueue) /\ ~In(hookQueue, e)
      /\ \A d \in Events : In(hookQueue, d) => fate[d] = "held"
  BY <1>1, <1>6, InHand
<1>8. /\ new \in Items /\ new.payload = e /\ new.attempts = 0 /\ new.ready_at = hookClock
  BY <1>1, WebhookAssumption DEF Items, PendingWebhook
<1>9. /\ hookQueue' = Append(Room, new)
      /\ fate' = [d \in Events |-> IF d = e THEN "held"
                                   ELSE IF full /\ d = Head(hookQueue).payload THEN "dropped" ELSE fate[d]]
  BY DEF Enqueue, Room
<1> HIDE DEF new
<1>10. /\ Room \in Seq(Items) /\ Distinct(Room)
       /\ \A d : In(Room, d) => In(hookQueue, d)
       /\ Len(hookQueue) < MAX_QUEUE_SIZE => Room = hookQueue
       /\ full =>
             /\ \A d : In(hookQueue, d) <=> In(Room, d) \/ Head(hookQueue).payload = d
             /\ ~In(Room, Head(hookQueue).payload)
       /\ \A i \in DOMAIN Room : \E k \in DOMAIN hookQueue : Room[i] = hookQueue[k]
  BY <1>1, <1>7, RoomFacts
<1>11. /\ hookQueue' = Room \o <<new>> /\ hookQueue' \in Seq(Items)
       /\ \A d : In(hookQueue', d) <=> In(Room, d) \/ e = d
  BY <1>8, <1>9, <1>10, AppendFacts
<1>12. HookTypes'
  BY <1>1, <1>5, <1>9, <1>11 DEF HookTypes, Fates
<1>13. ~full => Room = hookQueue
  BY <1>1, <1>10, WebhookAssumption
<1> HIDE DEF full
<1>14. EventAccounted'
  <2>1. Distinct(hookQueue')
    <3>1. <<new>> \in Seq(Items) /\ Distinct(<<new>>) /\ \A d : In(<<new>>, d) <=> e = d
      BY <1>8, OneFacts
    <3>2. ~In(Room, e)
      BY <1>7, <1>10
    <3>. QED
      BY <1>10, <1>11, <3>1, <3>2, ConcatDistinct
  <2>2. ASSUME NEW d \in Events PROVE Moved(d, hookQueue, <<>>, fate, hookQueue', <<>>, fate')
    <3>1. CASE d = e
      BY <1>9, <1>11, <3>1 DEF Moved
    <3>2. CASE d # e /\ full /\ d = Head(hookQueue).payload
      BY <1>9, <1>10, <1>11, <3>2, NoneFacts DEF Moved
    <3>3. CASE d # e /\ ~(full /\ d = Head(hookQueue).payload)
      BY <1>9, <1>10, <1>11, <1>13, <3>3, NoneFacts DEF Moved
    <3>. QED
      BY <3>1, <3>2, <3>3
  <2>. QED
    BY <1>1, <1>5, <1>6, <2>1, <2>2, NoneFacts, Exchange
<1>15. TimesOK'
  <2>1. Due(new)
    BY <1>1, <1>8 DEF Due, DueAt, TimesOK
  <2>2. AllDue(<<new>>)
    <3>1. DOMAIN <<new>> = {1} /\ <<new>>[1] = new
      OBVIOUS
    <3>. QED
      BY <2>1, <3>1 DEF AllDue
  <2>3. AllDue(Room)
    BY <1>1, <1>10 DEF AllDue, TimesOK
  <2>4. AllDue(Room \o <<new>>)
    BY <1>8, <1>10, <2>2, <2>3, ConcatDue, OneFacts
  <2>5. AllDue(hookQueue)'
    BY <1>11, <2>4 DEF AllDue, Due, DueAt
  <2>6. BackoffKept' /\ \A e2 \in Events : \A k \in DOMAIN attempted'[e2] : attempted'[e2][k] <= hookClock'
    BY <1>1 DEF TimesOK, BackoffKept
  <2>7. \A d \in Events : fate'[d] = "new" => attempted'[d] = <<>>
    BY <1>1, <1>9 DEF TimesOK
  <2>8. ASSUME NEW s \in Senders
        PROVE  /\ AllDue(runner[s].deferred)'
               /\ runner'[s].pc = "deliver" =>
                     Len(attempted'[runner'[s].item[1].payload]) = runner'[s].item[1].attempts + 1
    <3>1. CASE s = r
      <4>1. runner'[s].deferred = <<>> /\ runner'[s].pc = "enter"
        BY <1>2, <1>5, <3>1
      <4>. QED
        BY <4>1 DEF AllDue
    <3>2. CASE s # r
      BY <1>1, <1>5, <3>2 DEF TimesOK, AllDue, Due, DueAt
    <3>. QED
      BY <3>1, <3>2
  <2>. QED
    BY <2>5, <2>6, <2>7, <2>8 DEF TimesOK
<1>16. WakeInv'
  <2>1. CASE Awake
    <3>1. PICK s \in Senders :
            \/ ~runner[s].caller /\ runner[s].pc \in {"enter", "drain", "deliver"}
            \/ runner[s].pc = "sleep" /\ runner[s].wake <= hookClock
      BY <2>1 DEF Awake
    <3>2. runner'[s] = runner[s]
      BY <1>5, <3>1
    <3>. QED
      BY <3>1, <3>2 DEF WakeInv, Awake
  <2>2. CASE \E f \in [Events -> Senders] : Covers(f)
    <3>1. PICK f \in [Events -> Senders] : Covers(f)
      BY <2>2
    <3>2. PICK f2 \in [Events -> Senders] : f2[e] = r /\ \A d \in Events \ {e} : f2[d] = f[d]
      <4>1. [f EXCEPT ![e] = r] \in [Events -> Senders]
        OBVIOUS
      <4>. QED
        BY <4>1
    <3>3. ASSUME NEW d \in Events, d # e, Unguarded(d)' PROVE Unguarded(d)
      <4>1. PICK i \in DOMAIN hookQueue' :
              /\ hookQueue'[i].payload = d
              /\ ~ \E s \in Senders : runner'[s].pc = "sleep" /\ runner'[s].wake <= hookQueue'[i].ready_at
        BY <3>3 DEF Unguarded
      <4>2. DOMAIN hookQueue' = 1..(Len(Room) + 1) /\ DOMAIN Room = 1..Len(Room) /\ Len(Room) \in Nat
            /\ hookQueue'[Len(Room) + 1] = new /\ \A k \in 1..Len(Room) : hookQueue'[k] = Room[k]
        BY <1>9, <1>10
      <4>3. i # Len(Room) + 1
        BY <1>8, <3>3, <4>1, <4>2
      <4>4. i \in DOMAIN Room /\ hookQueue'[i] = Room[i]
        BY <4>1, <4>2, <4>3
      <4>5. PICK k \in DOMAIN hookQueue : hookQueue'[i] = hookQueue[k]
        BY <1>10, <4>4
      <4>6. ~ \E s \in Senders : runner[s].pc = "sleep" /\ runner[s].wake <= hookQueue[k].ready_at
        BY <1>2, <1>5, <4>1, <4>5
      <4>. QED
        BY <4>1, <4>5, <4>6 DEF Unguarded
    <3>4. (\A s \in Senders : Bound(s) => s # r /\ Bound(s)') /\ Bound(r)'
      BY <1>2, <1>5 DEF Bound
    <3>5. \A d \in Events : Unguarded(d) => Bound(f[d]) /\ f[d] # r
      BY <3>1, <3>4 DEF Covers
    <3>6. ASSUME NEW d \in Events, Unguarded(d)' PROVE Bound(f2[d])'
      <4>1. CASE d = e
        BY <3>2, <3>4, <4>1
      <4>2. CASE d # e
        <5>1. Bound(f[d]) /\ f2[d] = f[d] /\ f[d] \in Senders
          BY <3>2, <3>3, <3>5, <3>6, <4>2
        <5>. QED
          BY <3>4, <5>1
      <4>. QED
        BY <4>1, <4>2
    <3>7. ASSUME NEW c \in Events, NEW d \in Events, Unguarded(c)', Unguarded(d)', f2[c] = f2[d]
          PROVE  c = d
      <4>1. CASE c # e /\ d # e
        <5>1. Unguarded(c) /\ Unguarded(d) /\ f[c] = f[d]
          BY <3>2, <3>3, <3>7, <4>1
        <5>. QED
          BY <3>1, <5>1 DEF Covers
      <4>2. CASE c = e \/ d = e
        BY <3>2, <3>3, <3>5, <3>7, <4>2
      <4>. QED
        BY <4>1, <4>2
    <3>8. Covers(f2)'
      BY <3>6, <3>7 DEF Covers
    <3>. QED
      BY <3>8 DEF WakeInv
  <2>. QED
    BY <1>1, <2>1, <2>2 DEF WakeInv
<1>. QED
  BY <1>5, <1>12, <1>14, <1>15, <1>16 DEF HookInv

LEMMA SendStep ==
    ASSUME HookInv, NEW r \in Senders, NEW e \in Events, Send(r, e)
    PROVE  HookInv'
  BY SkipStep, AcceptStep DEF Send

(* What waits for its time elsewhere is not touched by an attempt for p.   *)
LEMMA DueKept ==
    ASSUME NEW p \in Events, NEW q \in Seq(Items), AllDue(q), ~In(q, p),
           \A e \in Events \ {p} : attempted'[e] = attempted[e]
    PROVE  \A i \in DOMAIN q : DueAt(attempted', q[i])
<1>1. \A i \in DOMAIN q : q[i] \in Items
  OBVIOUS
<1>2. \A i \in DOMAIN q : q[i].payload \in Events /\ q[i].payload # p
  BY <1>1 DEF Items, In
<1>3. \A i \in DOMAIN q : Due(q[i])
  BY DEF AllDue
<1>. QED
  BY <1>2, <1>3 DEF Due, DueAt

(* The times of attempts with one more.                                    *)
LEMMA AttemptFacts ==
    ASSUME NEW p \in Events, attempted \in [Events -> Seq(Nat)], hookClock \in Nat,
           attempted' = [attempted EXCEPT ![p] = Append(@, hookClock)]
    PROVE  /\ attempted' \in [Events -> Seq(Nat)]
           /\ \A e \in Events \ {p} : attempted'[e] = attempted[e]
           /\ attempted[p] \in Seq(Nat) /\ Len(attempted[p]) \in Nat
           /\ DOMAIN attempted[p] = 1..Len(attempted[p])
           /\ Len(attempted'[p]) = Len(attempted[p]) + 1
           /\ DOMAIN attempted'[p] = 1..(Len(attempted[p]) + 1)
           /\ attempted'[p][Len(attempted[p]) + 1] = hookClock
           /\ \A k \in 1..Len(attempted[p]) : attempted'[p][k] = attempted[p][k] /\ attempted[p][k] \in Nat
<1>1. attempted[p] \in Seq(Nat) /\ attempted'[p] = Append(attempted[p], hookClock)
      /\ \A e \in Events \ {p} : attempted'[e] = attempted[e]
  OBVIOUS
<1>2. attempted' \in [Events -> Seq(Nat)]
  <2>1. Append(attempted[p], hookClock) \in Seq(Nat)
    BY <1>1
  <2>. QED
    BY <2>1
<1> DEFINE a == attempted[p]
<1> HIDE DEF a
<1>3. a \in Seq(Nat) /\ attempted[p] = a
  BY <1>1 DEF a
<1>4. /\ Len(a) \in Nat /\ DOMAIN a = 1..Len(a) /\ Len(Append(a, hookClock)) = Len(a) + 1
      /\ DOMAIN Append(a, hookClock) = 1..(Len(a) + 1) /\ Append(a, hookClock)[Len(a) + 1] = hookClock
      /\ \A k \in 1..Len(a) : Append(a, hookClock)[k] = a[k] /\ a[k] \in Nat
  BY <1>3
<1>. QED
  BY <1>1, <1>2, <1>3, <1>4

(* An attempt that starts when its event is due keeps the backoff.         *)
LEMMA AttemptKeepsBackoff ==
    ASSUME HookTypes, TimesOK, NEW it \in Items, Due(it), it.ready_at <= hookClock,
           attempted' = [attempted EXCEPT ![it.payload] = Append(@, hookClock)]
    PROVE  BackoffKept'
<1> DEFINE p == it.payload
<1>1. p \in Events /\ it.attempts \in 0..MAX_RETRIES /\ it.ready_at \in Nat /\ hookClock \in Nat
      /\ attempted \in [Events -> Seq(Nat)]
  BY DEF Items, HookTypes
<1> DEFINE a == attempted[p]
           b == attempted'[p]
           n == Len(attempted[p])
<1>2. /\ \A e \in Events \ {p} : attempted'[e] = attempted[e]
      /\ n \in Nat /\ Len(b) = n + 1 /\ b[n + 1] = hookClock
      /\ \A k \in 1..n : b[k] = a[k] /\ a[k] \in Nat
  BY <1>1, AttemptFacts
<1>3. n = it.attempts /\ (n > 0 => it.ready_at >= a[n] + Backoff(n - 1))
  BY DEF Due, DueAt
<1>4. \A k \in 1..(n - 1) : a[k + 1] - a[k] >= Backoff(k - 1)
  BY <1>1 DEF TimesOK, BackoffKept
<1> HIDE DEF a, b, n, p
<1>5. ASSUME NEW k \in 1..((n + 1) - 1) PROVE b[k + 1] - b[k] >= Backoff(k - 1)
  <2>1. CASE k < n
    <3>1. k \in 1..n /\ k + 1 \in 1..n /\ k \in 1..(n - 1)
      BY <1>2, <2>1
    <3>2. b[k] = a[k] /\ b[k + 1] = a[k + 1]
      BY <1>2, <3>1
    <3>. QED
      BY <1>4, <3>1, <3>2
  <2>2. CASE ~(k < n)
    <3>1. k = n /\ n > 0 /\ n \in 1..n /\ n - 1 \in 0..MAX_RETRIES
      BY <1>1, <1>2, <1>3, <2>2, WebhookAssumption
    <3>2. b[n + 1] = hookClock /\ b[n] = a[n] /\ a[n] \in Nat /\ Backoff(n - 1) \in Nat
      BY <1>2, <3>1, PowerNat
    <3>3. hookClock - a[n] >= Backoff(n - 1)
      BY <1>1, <1>3, <3>1, <3>2
    <3>. QED
      BY <3>1, <3>2, <3>3
  <2>. QED
    BY <2>1, <2>2
<1>6. \A e \in Events : \A k \in 1..(Len(attempted'[e]) - 1) :
        attempted'[e][k + 1] - attempted'[e][k] >= Backoff(k - 1)
  <2>1. SUFFICES ASSUME NEW e \in Events, NEW k \in 1..(Len(attempted'[e]) - 1)
                 PROVE  attempted'[e][k + 1] - attempted'[e][k] >= Backoff(k - 1)
    OBVIOUS
  <2>2. CASE e = p
    <3>1. attempted'[e] = b /\ k \in 1..((n + 1) - 1)
      BY <1>2, <2>2 DEF b
    <3>. QED
      BY <1>5, <3>1
  <2>3. CASE e # p
    BY <1>2, <2>3 DEF TimesOK, BackoffKept
  <2>. QED
    BY <2>2, <2>3
<1>. QED
  BY <1>6 DEF BackoffKept

LEMMA CutDue ==
    ASSUME NEW q \in Seq(Items), NEW i \in 1..(Len(q) + 1),
           NEW a \in Seq(Items), NEW b \in Seq(Items), Cut(q, i, a, b), AllDue(q)
    PROVE  AllDue(a) /\ AllDue(b) /\ (i <= Len(q) => Due(q[i]))
<1>1. /\ DOMAIN q = 1..Len(q) /\ DOMAIN a = 1..Len(a) /\ DOMAIN b = 1..Len(b)
      /\ Len(q) \in Nat /\ Len(a) \in Nat /\ Len(b) \in Nat /\ i \in Nat /\ i >= 1 /\ i <= Len(q) + 1
  OBVIOUS
<1>2. (i <= Len(q) => Len(b) = Len(q) - i) /\ (i > Len(q) => Len(b) = 0)
  BY DEF Cut
<1>3. (\A k \in 1..Len(b) : i + k \in 1..Len(q)) /\ \A k \in 1..(i - 1) : k \in 1..Len(q)
  BY <1>1, <1>2, CutArith
<1>4. \A k \in 1..Len(b) : b[k] = q[i + k]
  BY DEF Cut
<1>5. Len(a) = i - 1 /\ \A k \in 1..(i - 1) : a[k] = q[k]
  BY DEF Cut
<1>6. AllDue(a)
  BY <1>1, <1>3, <1>5 DEF AllDue
<1>7. AllDue(b)
  BY <1>1, <1>3, <1>4 DEF AllDue
<1>. QED
  BY <1>1, <1>6, <1>7 DEF AllDue

(* Nothing ready: all of the queue is set aside.                           *)
LEMMA DrainEmptyStep ==
    ASSUME HookInv, NEW r \in Senders, DrainQueue(r),
           ~(FirstReady(hookQueue, runner[r].now) <= Len(hookQueue))
    PROVE  HookInv'
<1> DEFINE i == FirstReady(hookQueue, runner[r].now)
           set == runner[r].deferred
           front == Before(hookQueue, i)
           rest == Behind(hookQueue, i)
           x == [runner[r] EXCEPT !.deferred = set \o front, !.item = <<>>, !.pc = "requeue"]
<1>1. /\ HookTypes /\ RunnersOK /\ EventAccounted /\ TimesOK /\ WakeInv
      /\ hookClock \in Nat /\ hookQueue \in Seq(Items)
  BY DEF HookInv, HookTypes
<1>2. /\ runner[r].pc = "drain" /\ hookQueue' = rest
      /\ UNCHANGED <<hookEnabled, hookClock, fate, attempted>>
  BY <1>1 DEF DrainQueue, Behind
<1>3. runner' = [runner EXCEPT ![r] = x]
  BY <1>1 DEF DrainQueue, Before, HookTypes
<1>4. /\ runner[r] \in RunnerRecords /\ runner[r].item = <<>> /\ set \in Seq(Items)
      /\ runner[r].now \in Nat /\ runner[r].now <= hookClock
  BY <1>1, <1>2, RunnerTypes
<1>5. i \in 1..(Len(hookQueue) + 1)
  BY <1>1, <1>4, FirstReadyFacts
<1>6. i > Len(hookQueue)
  BY <1>1, <1>5
<1> HIDE DEF i
<1>7. front \in Seq(Items) /\ rest \in Seq(Items) /\ Cut(hookQueue, i, front, rest)
  BY <1>1, <1>5, SliceFacts
<1>8. set \o front \in Seq(Items) /\ <<>> \in Seq(Items)
  BY <1>4, <1>7, ConcatFacts, NoneFacts
<1>9. /\ x \in RunnerRecords /\ x.pc = "requeue" /\ x.now = runner[r].now /\ x.item = <<>>
      /\ x.deferred = set \o front
  BY <1>4, <1>8 DEF RunnerRecords, Pcs
<1> HIDE DEF x
<1>10. RunnerOK(x)
  BY <1>4, <1>9, NoneFacts DEF RunnerOK
<1>11. /\ runner' \in [Senders -> RunnerRecords] /\ RunnersOK'
       /\ runner'[r] = x /\ \A s \in Senders \ {r} : runner'[s] = runner[s]
       /\ \A s \in Senders \ {r} : Hands(runner')[s] = Hands(runner)[s]
       /\ Hands(runner')[r] = x.item \o x.deferred
  BY <1>1, <1>2, <1>3, <1>9, <1>10, OneRunner
<1>12. Hands(runner)[r] = set /\ Hands(runner')[r] = set \o front
  <2>1. Hands(runner)[r] = <<>> \o set /\ Hands(runner')[r] = <<>> \o (set \o front)
    BY <1>4, <1>9, <1>11 DEF Hands
  <2> HIDE DEF set, front
  <2>2. <<>> \o set = set /\ <<>> \o (set \o front) = set \o front
    BY <1>4, <1>8
  <2>. QED
    BY <2>1, <2>2
<1>13. HookTypes'
  BY <1>1, <1>2, <1>7, <1>11 DEF HookTypes
<1> HIDE DEF front, rest
<1>14. EventAccounted'
  <2> HIDE DEF set
  <2>1. /\ Distinct(set) /\ Distinct(hookQueue)
        /\ \A e \in Events : In(set, e) => ~In(hookQueue, e)
    BY <1>1, <1>12, InHand
  <2>2. Distinct(front) /\ Distinct(rest)
    BY <1>1, <1>5, <1>7, <2>1, CutDistinct
  <2>3. \A e : ~In(rest, e) /\ (In(hookQueue, e) <=> In(front, e))
    BY <1>1, <1>5, <1>6, <1>7, CutIn
  <2>4. \A e : In(set \o front, e) <=> In(set, e) \/ In(front, e)
    BY <1>4, <1>7, ConcatIn
  <2>5. Distinct(set \o front)
    BY <1>4, <1>7, <2>1, <2>2, <2>3, ConcatDistinct
  <2>6. \A e \in Events : Moved(e, hookQueue, set, fate, hookQueue', set \o front, fate')
    BY <1>2, <2>3, <2>4 DEF Moved
  <2>. QED
    BY <1>1, <1>2, <1>11, <1>12, <2>2, <2>3, <2>5, <2>6, Exchange
<1>15. TimesOK'
  <2>1. AllDue(set) /\ AllDue(hookQueue)
    BY <1>1 DEF TimesOK
  <2> HIDE DEF set
  <2>2. AllDue(front) /\ AllDue(rest)
    BY <1>1, <1>5, <1>7, <2>1, CutDue
  <2>3. AllDue(set \o front)
    BY <1>4, <1>7, <2>1, <2>2, ConcatDue
  <2>4. AllDue(hookQueue)'
    BY <1>2, <2>2 DEF AllDue, Due, DueAt
  <2>5. BackoffKept' /\ (\A e \in Events : fate'[e] = "new" => attempted'[e] = <<>>)
        /\ \A e \in Events : \A k \in DOMAIN attempted'[e] : attempted'[e][k] <= hookClock'
    BY <1>1, <1>2 DEF TimesOK, BackoffKept
  <2>6. ASSUME NEW s \in Senders
        PROVE  /\ AllDue(runner[s].deferred)'
               /\ runner'[s].pc = "deliver" =>
                     Len(attempted'[runner'[s].item[1].payload]) = runner'[s].item[1].attempts + 1
    <3>1. CASE s = r
      <4>1. runner'[s].deferred = set \o front /\ runner'[s].pc = "requeue"
        BY <1>9, <1>11, <3>1
      <4>. QED
        BY <1>2, <2>3, <4>1 DEF AllDue, Due, DueAt
    <3>2. CASE s # r
      BY <1>1, <1>2, <1>11, <3>2 DEF TimesOK, AllDue, Due, DueAt
    <3>. QED
      BY <3>1, <3>2
  <2>. QED
    BY <2>4, <2>5, <2>6 DEF TimesOK
<1>16. WakeInv'
  <2>1. \A e \in Events : ~Unguarded(e)'
    <3>1. \A e : ~In(rest, e)
      BY <1>1, <1>5, <1>6, <1>7, CutIn
    <3>. QED
      BY <1>2, <3>1 DEF Unguarded, In
  <2>2. PICK f \in [Events -> Senders] : TRUE
    <3>1. [e \in Events |-> r] \in [Events -> Senders]
      OBVIOUS
    <3>. QED
      BY <3>1
  <2>3. Covers(f)'
    BY <2>1 DEF Covers
  <2>. QED
    BY <2>3 DEF WakeInv
<1>. QED
  BY <1>11, <1>13, <1>14, <1>15, <1>16 DEF HookInv

LEMMA CutFrom ==
    ASSUME NEW q \in Seq(Items), NEW i \in 1..(Len(q) + 1),
           NEW a \in Seq(Items), NEW b \in Seq(Items), Cut(q, i, a, b)
    PROVE  \A j \in DOMAIN b : \E k \in DOMAIN q : q[k] = b[j]
<1>1. /\ DOMAIN q = 1..Len(q) /\ DOMAIN b = 1..Len(b)
      /\ Len(q) \in Nat /\ Len(b) \in Nat /\ i \in Nat /\ i >= 1 /\ i <= Len(q) + 1
  OBVIOUS
<1>2. (i <= Len(q) => Len(b) = Len(q) - i) /\ (i > Len(q) => Len(b) = 0)
  BY DEF Cut
<1>3. \A k \in 1..Len(b) : i + k \in 1..Len(q)
  BY <1>1, <1>2, CutArith
<1>. QED
  BY <1>1, <1>3 DEF Cut

(* The first ready event is taken; those before it are set aside.          *)
LEMMA DrainTakeStep ==
    ASSUME HookInv, NEW r \in Senders, DrainQueue(r),
           FirstReady(hookQueue, runner[r].now) <= Len(hookQueue)
    PROVE  HookInv'
<1> DEFINE i == FirstReady(hookQueue, runner[r].now)
           it == hookQueue[i]
           p == hookQueue[i].payload
           set == runner[r].deferred
           front == Before(hookQueue, i)
           rest == Behind(hookQueue, i)
           x == [runner[r] EXCEPT !.deferred = set \o front, !.item = <<it>>, !.pc = "deliver"]
<1>1. /\ HookTypes /\ RunnersOK /\ EventAccounted /\ TimesOK /\ WakeInv
      /\ hookClock \in Nat /\ hookQueue \in Seq(Items) /\ attempted \in [Events -> Seq(Nat)]
  BY DEF HookInv, HookTypes
<1>2. /\ runner[r].pc = "drain" /\ hookQueue' = rest
      /\ attempted' = [attempted EXCEPT ![p] = Append(@, hookClock)]
      /\ UNCHANGED <<hookEnabled, hookClock, fate>>
  BY <1>1 DEF DrainQueue, Behind
<1>3. runner' = [runner EXCEPT ![r] = x]
  BY <1>1 DEF DrainQueue, Before, HookTypes
<1>4. /\ runner[r] \in RunnerRecords /\ runner[r].item = <<>> /\ set \in Seq(Items)
      /\ runner[r].now \in Nat /\ runner[r].now <= hookClock
  BY <1>1, <1>2, RunnerTypes
<1>5. i \in 1..(Len(hookQueue) + 1) /\ i <= Len(hookQueue) /\ it.ready_at <= runner[r].now
  BY <1>1, <1>4, FirstReadyFacts
<1> HIDE DEF i
<1>6. i \in 1..Len(hookQueue) /\ i \in DOMAIN hookQueue
  BY <1>1, <1>5
<1>7. it \in Items
  BY <1>1, <1>6
<1>8. p \in Events /\ it.payload = p /\ it.ready_at \in Nat /\ it.attempts \in 0..MAX_RETRIES
  BY <1>7 DEF Items
<1>9. it.ready_at <= hookClock
  BY <1>1, <1>4, <1>5, <1>8
<1>10. front \in Seq(Items) /\ rest \in Seq(Items) /\ Cut(hookQueue, i, front, rest)
  BY <1>1, <1>5, SliceFacts
<1>11. /\ set \o front \in Seq(Items) /\ <<it>> \in Seq(Items) /\ Len(<<it>>) = 1
       /\ <<it>>[1] = it /\ Distinct(<<it>>) /\ \A e : In(<<it>>, e) <=> p = e
  BY <1>4, <1>7, <1>10, ConcatFacts, OneFacts
<1>12. /\ x \in RunnerRecords /\ x.pc = "deliver" /\ x.now = runner[r].now /\ x.item = <<it>>
       /\ x.deferred = set \o front /\ x.caller = runner[r].caller
  BY <1>4, <1>11 DEF RunnerRecords, Pcs
<1> HIDE DEF x
<1>13. RunnerOK(x)
  BY <1>4, <1>11, <1>12 DEF RunnerOK
<1>14. /\ runner' \in [Senders -> RunnerRecords] /\ RunnersOK'
       /\ runner'[r] = x /\ \A s \in Senders \ {r} : runner'[s] = runner[s]
       /\ \A s \in Senders \ {r} : Hands(runner')[s] = Hands(runner)[s]
       /\ Hands(runner')[r] = x.item \o x.deferred
  BY <1>1, <1>2, <1>3, <1>12, <1>13, OneRunner
<1>15. Hands(runner)[r] = set /\ Hands(runner')[r] = <<it>> \o (set \o front)
  <2>1. Hands(runner)[r] = <<>> \o set /\ Hands(runner')[r] = <<it>> \o (set \o front)
    BY <1>4, <1>12, <1>14 DEF Hands
  <2> HIDE DEF set, front
  <2>2. <<>> \o set = set
    BY <1>4
  <2>. QED
    BY <2>1, <2>2
<1>16. /\ attempted' \in [Events -> Seq(Nat)] /\ \A e \in Events \ {p} : attempted'[e] = attempted[e]
       /\ Len(attempted'[p]) = Len(attempted[p]) + 1 /\ Len(attempted[p]) \in Nat
       /\ \A k \in DOMAIN attempted'[p] : k \in DOMAIN attempted[p] \/ attempted'[p][k] = hookClock
       /\ \A k \in DOMAIN attempted[p] : attempted'[p][k] = attempted[p][k]
  <2>1. p \in Events /\ attempted' = [attempted EXCEPT ![p] = Append(@, hookClock)]
    BY <1>2, <1>8
  <2>. HIDE DEF p
  <2>2. /\ attempted' \in [Events -> Seq(Nat)] /\ \A e \in Events \ {p} : attempted'[e] = attempted[e]
        /\ Len(attempted'[p]) = Len(attempted[p]) + 1 /\ Len(attempted[p]) \in Nat
        /\ DOMAIN attempted[p] = 1..Len(attempted[p]) /\ DOMAIN attempted'[p] = 1..(Len(attempted[p]) + 1)
        /\ attempted'[p][Len(attempted[p]) + 1] = hookClock
        /\ \A k \in 1..Len(attempted[p]) : attempted'[p][k] = attempted[p][k]
    BY <1>1, <2>1, AttemptFacts
  <2>3. \A k \in 1..(Len(attempted[p]) + 1) : k \in 1..Len(attempted[p]) \/ k = Len(attempted[p]) + 1
    BY <2>2
  <2>. QED
    BY <2>2, <2>3
<1>17. HookTypes'
  BY <1>1, <1>2, <1>10, <1>14, <1>16 DEF HookTypes
<1>18. /\ In(hookQueue, p) /\ Distinct(set) /\ Distinct(hookQueue)
       /\ \A e \in Events : In(set, e) => ~In(hookQueue, e)
       /\ fate[p] = "held"
  <2>1. In(hookQueue, p)
    BY <1>6, Zenon DEF In
  <2>2. Hands(runner)[r] = set /\ p \in Events
    BY <1>8, <1>15
  <2>. HIDE DEF set, p
  <2>3. /\ Distinct(set) /\ Distinct(hookQueue)
        /\ \A e \in Events : In(set, e) => ~In(hookQueue, e)
        /\ \A e \in Events : In(hookQueue, e) => fate[e] = "held"
    BY <1>1, <2>2, InHand
  <2>. QED
    BY <2>1, <2>2, <2>3
<1> HIDE DEF front, rest, it, p
<1>19. /\ Distinct(front) /\ Distinct(rest) /\ \A e : ~(In(front, e) /\ In(rest, e))
       /\ ~In(front, p) /\ ~In(rest, p)
  BY <1>1, <1>5, <1>10, <1>18, CutDistinct DEF p
<1>20. \A e : In(hookQueue, e) <=> In(front, e) \/ In(rest, e) \/ p = e
  BY <1>1, <1>5, <1>10, CutIn DEF p
<1>21. EventAccounted'
  <2> HIDE DEF set
  <2>1. \A e : In(set \o front, e) <=> In(set, e) \/ In(front, e)
    BY <1>4, <1>10, ConcatIn
  <2>2. Distinct(set \o front)
    BY <1>4, <1>10, <1>18, <1>19, <1>20, ConcatDistinct
  <2> DEFINE sf == set \o front
  <2>3. sf \in Seq(Items) /\ Distinct(sf) /\ \A e : In(sf, e) <=> In(set, e) \/ In(front, e)
    BY <1>11, <2>1, <2>2
  <2>4. Hands(runner')[r] = <<it>> \o sf
    BY <1>15
  <2> HIDE DEF sf
  <2>5. \A e : In(<<it>> \o sf, e) <=> p = e \/ In(set, e) \/ In(front, e)
    BY <1>11, <2>3, ConcatIn
  <2>6. Distinct(<<it>> \o sf)
    <3>1. \A e \in Events : ~(In(<<it>>, e) /\ In(sf, e))
      BY <1>11, <1>18, <1>19, <2>3
    <3>. QED
      BY <1>11, <2>3, <3>1, ConcatDistinct
  <2>7. \A e \in Events : Moved(e, hookQueue, set, fate, hookQueue', <<it>> \o sf, fate')
    BY <1>2, <1>20, <2>5 DEF Moved
  <2>8. \A e \in Events : ~(In(hookQueue', e) /\ In(<<it>> \o sf, e))
    BY <1>2, <1>18, <1>19, <1>20, <2>5
  <2>. QED
    BY <1>1, <1>2, <1>14, <1>15, <1>19, <2>4, <2>6, <2>7, <2>8, Exchange
<1>22. TimesOK'
  <2>1. AllDue(set) /\ AllDue(hookQueue)
    BY <1>1 DEF TimesOK
  <2>2. AllDue(front) /\ AllDue(rest) /\ Due(it)
    BY <1>1, <1>5, <1>10, <2>1, CutDue DEF it
  <2>3. BackoffKept'
    BY <1>1, <1>2, <1>7, <1>8, <1>9, <2>2, AttemptKeepsBackoff
  <2>4. \A e \in Events : \A k \in DOMAIN attempted'[e] : attempted'[e][k] <= hookClock'
    <3>1. SUFFICES ASSUME NEW e \in Events, NEW k \in DOMAIN attempted'[e]
                   PROVE  attempted'[e][k] <= hookClock
      BY <1>2
    <3>a. \A f \in Events : \A n \in DOMAIN attempted[f] : attempted[f][n] <= hookClock
      BY <1>1 DEF TimesOK
    <3> HIDE DEF p
    <3>2. CASE e = p
      <4>1. CASE k \in DOMAIN attempted[p]
        BY <1>8, <1>16, <3>a, <3>2, <4>1
      <4>2. CASE attempted'[p][k] = hookClock
        BY <1>1, <3>2, <4>2
      <4>. QED
        BY <1>16, <3>2, <4>1, <4>2
    <3>3. CASE e # p
      BY <1>16, <3>a, <3>3
    <3>. QED
      BY <3>2, <3>3
  <2>5. \A e \in Events : fate'[e] = "new" => attempted'[e] = <<>>
    BY <1>1, <1>2, <1>16, <1>18 DEF TimesOK
  <2>6. AllDue(hookQueue)'
    <3>1. \A j \in DOMAIN rest : DueAt(attempted', rest[j])
      BY <1>8, <1>10, <1>16, <1>19, <2>2, DueKept
    <3>. QED
      BY <1>2, <3>1 DEF AllDue, Due
  <2>7. \A s \in Senders \ {r} : ~In(runner[s].item, p) /\ ~In(runner[s].deferred, p)
    <3>1. SUFFICES ASSUME NEW s \in Senders \ {r}
                   PROVE  ~In(runner[s].item, p) /\ ~In(runner[s].deferred, p)
      OBVIOUS
    <3>2. runner[s].item \in Seq(Items) /\ runner[s].deferred \in Seq(Items)
      BY <1>1, RunnerTypes
    <3> DEFINE a == runner[s].item
               b == runner[s].deferred
    <3>3. Hands(runner)[s] = a \o b
      BY DEF Hands
    <3> HIDE DEF a, b
    <3>4. In(a \o b, p) => ~In(hookQueue, p)
      BY <1>1, <1>8, <3>3, InHand
    <3>5. In(a \o b, p) <=> In(a, p) \/ In(b, p)
      BY <3>2, ConcatIn DEF a, b
    <3>. QED
      BY <1>18, <3>4, <3>5 DEF a, b
  <2>8. ASSUME NEW s \in Senders
        PROVE  /\ AllDue(runner[s].deferred)'
               /\ runner'[s].pc = "deliver" =>
                     Len(attempted'[runner'[s].item[1].payload]) = runner'[s].item[1].attempts + 1
    <3>1. CASE s = r
      <4>1. runner'[s].deferred = set \o front /\ runner'[s].item[1] = it
        BY <1>11, <1>12, <1>14, <3>1
      <4> HIDE DEF set
      <4>2. AllDue(set \o front) /\ ~In(set \o front, p)
        BY <1>4, <1>8, <1>10, <1>18, <1>19, <2>1, <2>2, ConcatDue, ConcatIn DEF set
      <4> DEFINE sf == set \o front
      <4>3. AllDue(sf) /\ ~In(sf, p) /\ sf \in Seq(Items) /\ runner'[s].deferred = sf
        BY <1>11, <4>1, <4>2
      <4> HIDE DEF sf
      <4>4. \A j \in DOMAIN sf : DueAt(attempted', sf[j])
        BY <1>8, <1>16, <4>3, DueKept
      <4>5. AllDue(runner[s].deferred)'
        BY <4>3, <4>4 DEF AllDue, Due
      <4>6. Len(attempted'[it.payload]) = it.attempts + 1
        BY <1>8, <1>16, <2>2 DEF Due, DueAt
      <4>. QED
        BY <4>1, <4>5, <4>6
    <3>2. CASE s # r
      <4>1. runner'[s] = runner[s] /\ ~In(runner[s].item, p) /\ ~In(runner[s].deferred, p)
        BY <1>14, <2>7, <3>2
      <4> DEFINE d == runner[s].deferred
      <4>2. d \in Seq(Items) /\ AllDue(d) /\ ~In(d, p) /\ runner'[s].deferred = d
        BY <1>1, <4>1, RunnerTypes DEF TimesOK
      <4> HIDE DEF d
      <4>3. \A j \in DOMAIN d : DueAt(attempted', d[j])
        BY <1>8, <1>16, <4>2, DueKept
      <4>4. AllDue(runner[s].deferred)'
        BY <4>2, <4>3 DEF AllDue, Due
      <4>5. ASSUME runner[s].pc = "deliver"
            PROVE  Len(attempted'[runner[s].item[1].payload]) = runner[s].item[1].attempts + 1
        <5>1. /\ runner[s].item = <<runner[s].item[1]>> /\ runner[s].item[1] \in Items
              /\ runner[s].item[1].payload \in Events
          BY <1>1, <4>5, DeliverItem
        <5>2. runner[s].item[1].payload # p
          <6> DEFINE y == runner[s].item[1]
          <6>1. y \in Items /\ ~In(<<y>>, p)
            BY <4>1, <5>1
          <6> HIDE DEF y
          <6>2. y.payload # p
            BY <6>1, OneFacts
          <6>. QED
            BY <6>2 DEF y
        <5>. QED
          BY <1>1, <1>16, <4>5, <5>1, <5>2 DEF TimesOK
      <4>. QED
        BY <4>1, <4>4, <4>5
    <3>. QED
      BY <3>1, <3>2
  <2>. QED
    BY <2>3, <2>4, <2>5, <2>6, <2>8 DEF TimesOK
<1>23. WakeInv'
  <2>1. CASE Awake
    <3>1. PICK s \in Senders :
            \/ ~runner[s].caller /\ runner[s].pc \in {"enter", "drain", "deliver"}
            \/ runner[s].pc = "sleep" /\ runner[s].wake <= hookClock
      BY <2>1 DEF Awake
    <3>2. CASE s = r
      <4>1. ~runner'[r].caller /\ runner'[r].pc = "deliver"
        BY <1>2, <1>12, <1>14, <3>1, <3>2
      <4>. QED
        BY <4>1 DEF WakeInv, Awake
    <3>3. CASE s # r
      <4>1. runner'[s] = runner[s]
        BY <1>14, <3>3
      <4>. QED
        BY <1>2, <3>1, <4>1 DEF WakeInv, Awake
    <3>. QED
      BY <3>2, <3>3
  <2>2. CASE ~Awake /\ \E f \in [Events -> Senders] : Covers(f)
    <3>1. PICK f \in [Events -> Senders] : Covers(f)
      BY <2>2
    <3>2. PICK f2 \in [Events -> Senders] :
            \A e \in Events : f2[e] = IF f[e] = r THEN f[p] ELSE f[e]
      <4>1. [e \in Events |-> IF f[e] = r THEN f[p] ELSE f[e]] \in [Events -> Senders]
        BY <1>8
      <4>. QED
        BY <4>1
    <3>3. ASSUME NEW e \in Events, Unguarded(e)' PROVE Unguarded(e) /\ e # p
      <4>1. PICK j \in DOMAIN rest :
              /\ rest[j].payload = e
              /\ ~ \E s \in Senders : runner'[s].pc = "sleep" /\ runner'[s].wake <= rest[j].ready_at
        BY <1>2, <3>3 DEF Unguarded
      <4>2. e # p
        BY <1>19, <4>1 DEF In
      <4>3. PICK k \in DOMAIN hookQueue : hookQueue[k] = rest[j]
        BY <1>1, <1>5, <1>10, CutFrom
      <4>4. ~ \E s \in Senders : runner[s].pc = "sleep" /\ runner[s].wake <= hookQueue[k].ready_at
        BY <1>2, <1>14, <4>1, <4>3
      <4>. QED
        BY <4>1, <4>2, <4>3, <4>4 DEF Unguarded
    <3>4. Unguarded(p)
      <4>1. ASSUME NEW s \in Senders, runner[s].pc = "sleep", runner[s].wake <= it.ready_at PROVE FALSE
        <5>1. runner[s].wake \in Nat
          BY <1>1, RunnerTypes
        <5>2. runner[s].wake <= hookClock
          BY <1>1, <1>8, <1>9, <4>1, <5>1
        <5>. QED
          BY <2>2, <4>1, <5>2 DEF Awake
      <4>. QED
        BY <1>6, <4>1 DEF Unguarded, it, p
    <3>5. \A s \in Senders \ {r} : Bound(s) => Bound(s)'
      BY <1>14 DEF Bound
    <3>6. Bound(f[p]) /\ \A e \in Events : Unguarded(e) => Bound(f[e]) /\ (f[e] = f[p] => e = p)
      BY <1>8, <3>1, <3>4 DEF Covers
    <3>7. ASSUME NEW e \in Events, Unguarded(e)' PROVE Bound(f2[e])'
      <4>1. Unguarded(e) /\ e # p
        BY <3>3, <3>7
      <4>2. CASE f[e] = r
        <5>1. f2[e] = f[p] /\ f[p] # r /\ f[p] \in Senders
          BY <1>8, <3>2, <3>6, <4>1, <4>2
        <5>. QED
          BY <3>5, <3>6, <5>1
      <4>3. CASE f[e] # r
        <5>1. f2[e] = f[e] /\ f[e] \in Senders /\ Bound(f[e])
          BY <3>2, <3>6, <4>1, <4>3
        <5>. QED
          BY <3>5, <4>3, <5>1
      <4>. QED
        BY <4>2, <4>3
    <3>8. ASSUME NEW c \in Events, NEW d \in Events, Unguarded(c)', Unguarded(d)', f2[c] = f2[d]
          PROVE  c = d
      <4>1. Unguarded(c) /\ Unguarded(d) /\ c # p /\ d # p
        BY <3>3, <3>8
      <4>2. f[c] # f[p] /\ f[d] # f[p]
        BY <3>6, <4>1
      <4>3. f[c] = f[d]
        BY <3>2, <3>8, <4>2
      <4>. QED
        BY <3>1, <4>1, <4>3 DEF Covers
    <3>9. Covers(f2)'
      BY <3>7, <3>8 DEF Covers
    <3>. QED
      BY <3>9 DEF WakeInv
  <2>. QED
    BY <1>1, <2>1, <2>2 DEF WakeInv
<1>. QED
  BY <1>14, <1>17, <1>21, <1>22, <1>23 DEF HookInv

LEMMA DrainStep ==
    ASSUME HookInv, NEW r \in Senders, DrainQueue(r)
    PROVE  HookInv'
  BY DrainEmptyStep, DrainTakeStep

-----------------------------------------------------------------------------
(* The theorem.                                                            *)

LEMMA HookInvInit == WebhookInit => HookInv
<1>1. SUFFICES ASSUME WebhookInit PROVE HookInv
  OBVIOUS
<1>2. /\ hookEnabled \in BOOLEAN /\ hookQueue = <<>> /\ runner = [r \in Senders |-> NoRunner]
      /\ hookClock = 0 /\ fate = [e \in Events |-> "new"] /\ attempted = [e \in Events |-> <<>>]
  BY <1>1 DEF WebhookInit
<1>3. HookTypes
  <2>1. fate \in [Events -> Fates]
    BY <1>2 DEF Fates
  <2>2. attempted \in [Events -> Seq(Nat)]
    BY <1>2
  <2>3. runner \in [Senders -> RunnerRecords]
    BY <1>2, NoRunnerFacts
  <2>. QED
    BY <1>2, <2>1, <2>2, <2>3, NoneFacts DEF HookTypes
<1>4. \A r \in Senders : runner[r] = NoRunner
  BY <1>2
<1>5. RunnersOK
  BY <1>2, <1>4, NoRunnerFacts, NoneFacts DEF RunnersOK, RunnerOK
<1>6. EventAccounted
  <2>1. \A r \in Senders : Hands(runner)[r] = NoRunner.item \o NoRunner.deferred
    BY <1>4 DEF Hands
  <2>2. NoRunner.item \o NoRunner.deferred = <<>> \o <<>>
    BY NoRunnerFacts
  <2>3. <<>> \o <<>> = <<>>
    OBVIOUS
  <2> DEFINE h == Hands(runner)
  <2>4. \A r \in Senders : h[r] = <<>>
    BY <2>1, <2>2, <2>3
  <2> HIDE DEF h
  <2>5. Accounted(hookQueue, h, fate)
    BY <1>2, <2>4, NoneFacts DEF Accounted
  <2>. QED
    BY <2>5, AccountedIff DEF h
<1>7. TimesOK
  <2>5. Len(<<>>) = 0 /\ DOMAIN <<>> = {}
    OBVIOUS
  <2>6. \A e \in Events : attempted[e] = <<>>
    BY <1>2
  <2>1. \A e \in Events : attempted[e] = <<>> /\ Len(attempted[e]) = 0 /\ DOMAIN attempted[e] = {}
    BY <2>5, <2>6
  <2>2. BackoffKept
    BY <2>1 DEF BackoffKept
  <2>3. \A r \in Senders : AllDue(runner[r].deferred) /\ runner[r].pc # "deliver"
    BY <1>4, NoRunnerFacts DEF AllDue
  <2>4. AllDue(hookQueue)
    BY <1>2 DEF AllDue
  <2>. QED
    BY <2>1, <2>2, <2>3, <2>4 DEF TimesOK
<1>8. WakeInv
  <2>1. PICK r \in Senders : TRUE
    BY WebhookAssumption
  <2>2. [e \in Events |-> r] \in [Events -> Senders]
    OBVIOUS
  <2>4. DOMAIN hookQueue = {}
    BY <1>2
  <2>3. \A e \in Events : ~Unguarded(e)
    BY <2>4 DEF Unguarded
  <2>. QED
    BY <2>2, <2>3 DEF WakeInv, Covers
<1>. QED
  BY <1>3, <1>5, <1>6, <1>7, <1>8 DEF HookInv

LEMMA HookInvStep == HookInv /\ [WebhookNext]_hookVars => HookInv'
<1>1. SUFFICES ASSUME HookInv, [WebhookNext]_hookVars PROVE HookInv'
  OBVIOUS
<1>2. CASE UNCHANGED hookVars
  <2>1. UNCHANGED <<hookEnabled, hookQueue, runner, hookClock, fate, attempted>>
    BY <1>2 DEF hookVars
  <2>2. HookTypes' /\ RunnersOK'
    BY <1>1, <2>1 DEF HookInv, HookTypes, RunnersOK, RunnerOK
  <2>3. EventAccounted'
    BY <1>1, <2>1, AccountedIff DEF HookInv
  <2>4. TimesOK'
    BY <1>1, <2>1 DEF HookInv, TimesOK, AllDue, Due, DueAt, BackoffKept
  <2>5. WakeInv'
    BY <1>1, <2>1 DEF HookInv, WakeInv, Awake, Covers, Unguarded, Bound
  <2>. QED
    BY <2>2, <2>3, <2>4, <2>5 DEF HookInv
<1>3. CASE UpdateConfig
  BY <1>1, <1>3, UpdateConfigStep
<1>4. CASE Tick
  BY <1>1, <1>4, TickStep
<1>5. CASE \E r \in Senders :
          \/ \E e \in Events : Send(r, e)
          \/ Enter(r) \/ DrainQueue(r) \/ Delivered(r) \/ NotDelivered(r) \/ Requeue(r) \/ Wake(r)
          \/ DropCall(r)
  BY <1>1, <1>5, SendStep, EnterStep, DrainStep, DeliveredStep, NotDeliveredStep, RequeueStep,
     WakeStep, DropCallStep
<1>. QED
  BY <1>1, <1>2, <1>3, <1>4, <1>5 DEF WebhookNext

LEMMA HookInvSays == HookInv => DeliveriesAccounted
<1>1. SUFFICES ASSUME HookInv PROVE DeliveriesAccounted
  OBVIOUS
<1>2. EventAccounted /\ BackoffKept /\ WakeInv /\ hookQueue \in Seq(Items)
  BY <1>1 DEF HookInv, TimesOK, HookTypes
<1>3. QueuedIsWoken
  <2>1. CASE Awake
    BY <2>1 DEF Awake, QueuedIsWoken
  <2>2. CASE \E f \in [Events -> Senders] : Covers(f)
    <3>1. PICK f \in [Events -> Senders] : Covers(f)
      BY <2>2
    <3>2. ASSUME NEW i \in DOMAIN hookQueue,
                 ~ \E r \in Senders : runner[r].pc = "sleep" /\ runner[r].wake <= hookQueue[i].ready_at
          PROVE  \E r \in Senders : runner[r].pc \in {"enter", "drain"}
      <4>1. hookQueue[i] \in Items
        BY <1>2
      <4>2. hookQueue[i].payload \in Events
        BY <4>1 DEF Items
      <4>3. Unguarded(hookQueue[i].payload)
        BY <3>2 DEF Unguarded
      <4>. QED
        BY <3>1, <4>2, <4>3 DEF Covers, Bound
    <3>. QED
      BY <3>2 DEF QueuedIsWoken
  <2>. QED
    BY <1>2, <2>1, <2>2 DEF WakeInv
<1>. QED
  BY <1>2, <1>3 DEF DeliveriesAccounted

(* Whatever the queue's size, the number of calls and the answers of the   *)
(* receiver, send and process_pending lose track of no event: it is in the *)
(* queue or in one call's hand until its end, somebody wakes for it, and   *)
(* two attempts are at least the backoff apart.                            *)
THEOREM DeliveriesAlwaysAccounted == WebhookSpec => []DeliveriesAccounted
<1>. QED
  BY HookInvInit, HookInvStep, HookInvSays, PTL DEF WebhookSpec

-----------------------------------------------------------------------------
(* The manifest of ingested objects.  CountsMisses says nothing of the     *)
(* listing that a run has taken and not yet counted; PlannedIsSearchable   *)
(* nothing of a reindex before its end.  The lock makes the runs one.      *)

States == {"absent", "active", "marked", "confirmed", "scheduled", "ready"}
Counting == {"active", "marked"}
Versions == 0 .. MaxVersion
Entries == [etag : Nat, count : Nat, state : States, version : Versions]
Runs == [at : {"run"}, tentative : Nat, listed : [Keys -> Nat], known : [Keys -> States], todo : SUBSET Keys]
Writings == [at : {"write"}, key : Keys, read : Entries, new : Entries]
Reindexes == [at : {"process", "update", "done"}, plan : SUBSET Keys, left : SUBSET Keys,
              old : Versions, new : Versions, read : Entries]

LifecycleTypes ==
    /\ bucket \in [Keys -> Nat] /\ manifest \in [Keys -> Entries] /\ epoch \in Nat
    /\ sync \in [Runners -> {IdleRun} \cup Runs]
    /\ manager \in {NoCall} \cup Writings
    /\ reindex \in {NoCall} \cup Reindexes
    /\ vecs \in [Keys -> SUBSET Nat] /\ misses \in [Keys -> 0 .. DeletionThreshold]

OneRun == \A r, o \in Runners : sync[r].at = "run" /\ sync[o].at = "run" => r = o

(* A copy to be written has the count and the version it was read with, or *)
(* a smaller count.                                                        *)
CopyOK ==
    manager.at = "write" =>
        /\ manager.new.count <= manager.read.count /\ manager.new.version = manager.read.version
        /\ manager.read.state # "absent" /\ manager.new.state # "absent"
        /\ manager.new.state \in Counting => manager.read.state \in Counting

ReindexOK ==
    reindex.at # "idle" =>
        /\ reindex.new = reindex.old + 1
        /\ reindex.at = "update" => reindex.read.state # "absent" /\ reindex.left # {}
        /\ reindex.at = "done" => reindex.left = {}

(* What holds of a key whose entry nobody overwrote.                       *)
CountOK(m, n) ==
    /\ m.count <= n
    /\ m.state \in Counting => m.count < DeletionThreshold
    /\ m.state = "absent" => m.count = 0

(* A run still owes the key the listing that missed it; one that knows no  *)
(* entry of the key will find none.                                        *)
Owed(s, k) == s.at = "run" /\ k \in s.todo /\ s.listed[k] = 0 /\ s.known[k] \in Counting
RunOK(s, k, m, n) ==
    /\ Owed(s, k) => n >= 1 /\ (m.state \in Counting => m.count + 1 <= n)
    /\ s.at = "run" /\ k \in s.todo /\ s.known[k] = "absent" => m.state = "absent"

(* What a plan has behind it carries the new version, and so do its        *)
(* vectors, before the entry does.                                         *)
PlanOK(x, k, m, v) ==
    x.at # "idle" /\ k \in x.plan =>
        /\ m.state # "absent"
        /\ k \notin x.left => m.version = x.new /\ x.new \in v
        /\ x.at = "update" /\ k = (CHOOSE j \in x.left : TRUE) => x.new \in v

KeyOK(k) ==
    /\ CountOK(manifest[k], misses[k])
    /\ \A r \in Runners : RunOK(sync[r], k, manifest[k], misses[k])
    /\ PlanOK(reindex, k, manifest[k], vecs[k])

LifecycleInv ==
    /\ LifecycleTypes /\ OneRun /\ EpochsInStep /\ CopyOK /\ ReindexOK
    /\ \A k \in Keys \ stale : KeyOK(k)

-----------------------------------------------------------------------------
(* The operators of an entry.                                              *)

LEMMA Limits == DeletionThreshold \in Nat /\ DeletionThreshold > 0 /\ MaxVersion \in Nat /\ MaxEtag \in Nat
BY LifecycleAssumption

LEMMA MinOfTwo ==
    ASSUME NEW a \in Nat, NEW b \in Nat
    PROVE  Min({a, b}) = IF a <= b THEN a ELSE b
<1> DEFINE n == IF a <= b THEN a ELSE b
<1>1. n \in {a, b} /\ \A y \in {a, b} : n <= y
  OBVIOUS
<1>2. \A x \in {a, b} : (\A y \in {a, b} : x <= y) => x = n
  OBVIOUS
<1> HIDE DEF n
<1>3. Min({a, b}) = CHOOSE x \in {a, b} : \A y \in {a, b} : x <= y
  BY DEF Min
<1>4. Min({a, b}) = n
  BY <1>1, <1>2, <1>3
<1> QED
  BY <1>4 DEF n

(* A set of versions has a newest one.                                     *)
LEMMA NewestVersion ==
    ASSUME NEW S \in SUBSET Versions, S # {}
    PROVE  Max(S) \in S
<1> DEFINE D == {MaxVersion - v : v \in S}
<1>1. MaxVersion \in Nat /\ \A v \in S : v \in Nat /\ v <= MaxVersion
  BY Limits DEF Versions
<1>2. D \subseteq Nat /\ D # {}
  BY <1>1
<1>3. PICK d \in D : \A e \in D : d <= e
  BY <1>2, LeastExists
<1>4. \A w \in S : MaxVersion - w \in D
  OBVIOUS
<1>5. PICK v \in S : d = MaxVersion - v
  OBVIOUS
<1> HIDE DEF D
<1>6. ASSUME NEW w \in S PROVE v >= w
  <2>1. MaxVersion - v <= MaxVersion - w
    BY <1>3, <1>4, <1>5
  <2> QED
    BY <1>1, <2>1
<1>7. \E x \in S : \A y \in S : x >= y
  BY <1>6
<1> QED
  BY <1>7 DEF Max

LEMMA EntryType ==
    ASSUME NEW tag \in Nat, NEW n \in Nat, NEW st \in States, NEW v \in Versions
    PROVE  /\ Entry(tag, n, st, v) \in Entries
           /\ Entry(tag, n, st, v).count = n /\ Entry(tag, n, st, v).state = st
           /\ Entry(tag, n, st, v).version = v
BY DEF Entry, Entries

LEMMA NoEntryType == NoEntry \in Entries /\ NoEntry.count = 0 /\ NoEntry.state = "absent"
BY EntryType, Limits DEF NoEntry, States, Versions

LEMMA WithState ==
    ASSUME NEW m \in Entries, NEW st \in States
    PROVE  LET e == [m EXCEPT !.state = st] IN
           e \in Entries /\ e.count = m.count /\ e.state = st /\ e.version = m.version
BY DEF Entries

LEMMA WithTag ==
    ASSUME NEW m \in Entries, NEW tag \in Nat
    PROVE  LET e == [m EXCEPT !.etag = tag] IN
           e \in Entries /\ e.count = m.count /\ e.state = m.state /\ e.version = m.version
BY DEF Entries

LEMMA WithVersion ==
    ASSUME NEW m \in Entries, NEW v \in Versions
    PROVE  LET e == [m EXCEPT !.version = v] IN
           e \in Entries /\ e.count = m.count /\ e.state = m.state /\ e.version = v
BY DEF Entries

LEMMA IncrementOf ==
    ASSUME NEW m \in Entries
    PROVE  LET i == IncrementMissing(m) IN
           /\ i \in Entries /\ i.version = m.version
           /\ i.state = "absent" <=> m.state = "absent"
           /\ m.state \notin Counting => i = m
           /\ m.state \in Counting => i.count = m.count + 1
           /\ i.state \in Counting => i.count < DeletionThreshold
<1>1. CASE m.state \notin Counting
  <2>1. IncrementMissing(m) = m
    BY <1>1 DEF IncrementMissing, Counting
  <2> QED
    BY <1>1, <2>1
<1>2. CASE m.state \in Counting
  <2> DEFINE st == IF m.count + 1 >= DeletionThreshold THEN "confirmed" ELSE "marked"
             n == m.count + 1
             i == [m EXCEPT !.count = n, !.state = st]
  <2>1. IncrementMissing(m) = [m EXCEPT !.count = @ + 1, !.state = st]
    BY <1>2 DEF IncrementMissing, Counting
  <2>2. m.count \in Nat
    BY DEF Entries
  <2>3. n \in Nat /\ st \in States /\ st # "absent" /\ (st \in Counting => n < DeletionThreshold)
    BY <2>2, Limits DEF States, Counting
  <2>4. IncrementMissing(m) = i
    BY <2>1
  <2> HIDE DEF st, n
  <2>5. i \in Entries /\ i.count = n /\ i.state = st /\ i.version = m.version
    BY <2>3 DEF Entries
  <2> HIDE DEF i
  <2> QED
    BY <1>2, <2>3, <2>4, <2>5 DEF n, Counting
<1> QED
  BY <1>1, <1>2

LEMMA MarkSeenOf ==
    ASSUME NEW m \in Entries
    PROVE  LET i == MarkSeen(m) IN
           /\ i \in Entries /\ i.count = 0 /\ i.version = m.version
           /\ i.state = "absent" <=> m.state = "absent"
           /\ i.state \in Counting => m.state \in Counting
<1> DEFINE st == IF m.state = "marked" THEN "active" ELSE m.state
           i == [m EXCEPT !.count = 0, !.state = st]
<1>1. MarkSeen(m) = i
  BY DEF MarkSeen
<1>2. st \in States /\ (st = "absent" <=> m.state = "absent") /\ (st \in Counting => m.state \in Counting)
  BY DEF Entries, States, Counting
<1> HIDE DEF st
<1>3. i \in Entries /\ i.count = 0 /\ i.state = st /\ i.version = m.version
  BY <1>2 DEF Entries
<1> QED
  BY <1>1, <1>2, <1>3

LEMMA RunFields ==
    ASSUME LifecycleTypes, NEW r \in Runners
    PROVE  /\ sync[r].at \in {"idle", "run"}
           /\ sync[r].at = "run" => /\ sync[r] \in Runs /\ sync[r].listed \in [Keys -> Nat]
                                    /\ sync[r].known \in [Keys -> States] /\ sync[r].todo \subseteq Keys
<1>1. sync[r] = IdleRun \/ sync[r] \in Runs
  BY DEF LifecycleTypes
<1> QED
  BY <1>1 DEF IdleRun, Runs

LEMMA CallFields ==
    ASSUME LifecycleTypes
    PROVE  /\ manager.at = "idle" \/ manager \in Writings
           /\ reindex.at = "idle" \/ reindex \in Reindexes
           /\ manager.at # "idle" => manager.key \in Keys /\ manager.read \in Entries /\ manager.new \in Entries
           /\ reindex.at # "idle" =>
                /\ reindex.plan \subseteq Keys /\ reindex.left \subseteq Keys
                /\ reindex.old \in Versions /\ reindex.new \in Versions /\ reindex.read \in Entries
BY DEF LifecycleTypes, NoCall, Writings, Reindexes

LEMMA EntryFields ==
    ASSUME LifecycleTypes, NEW k \in Keys
    PROVE  /\ manifest[k] \in Entries /\ manifest[k].count \in Nat /\ manifest[k].state \in States
           /\ manifest[k].version \in Versions /\ bucket[k] \in Nat
           /\ misses[k] \in 0 .. DeletionThreshold /\ misses[k] \in Nat /\ vecs[k] \in SUBSET Nat
BY Limits DEF LifecycleTypes, Entries

(* A miss is counted up to the threshold, which an entry that still counts *)
(* has not reached.                                                        *)
LEMMA OneMoreMiss ==
    ASSUME NEW n \in 0 .. DeletionThreshold
    PROVE  LET x == Min({n + 1, DeletionThreshold}) IN
           /\ x \in 0 .. DeletionThreshold /\ x >= 1 /\ n <= x
           /\ \A c \in Nat : c < DeletionThreshold /\ c <= n => c + 1 <= x
           /\ \A c \in Nat : c < DeletionThreshold /\ c + 1 <= n => c + 1 <= x /\ (c + 1 < DeletionThreshold => c + 2 <= x)
<1>1. n + 1 \in Nat /\ DeletionThreshold \in Nat /\ n \in Nat
  BY Limits
<1>2. Min({n + 1, DeletionThreshold}) = IF n + 1 <= DeletionThreshold THEN n + 1 ELSE DeletionThreshold
  BY <1>1, MinOfTwo
<1> QED
  BY <1>1, <1>2, Limits

-----------------------------------------------------------------------------
(* The steps, and what each keeps.                                         *)

LEMMA LifecycleInitInv == LifecycleInit => LifecycleInv
<1> SUFFICES ASSUME LifecycleInit PROVE LifecycleInv
  OBVIOUS
<1> USE DEF LifecycleInit
<1> DEFINE e == Entry(1, 0, "active", 0)
<1>1. e \in Entries /\ e.count = 0 /\ e.state = "active"
  BY EntryType, Limits DEF States, Versions
<1>2. \A k \in Keys : manifest[k] = e /\ misses[k] = 0
  OBVIOUS
<1>3. \A r \in Runners : sync[r].at = "idle"
  BY DEF IdleRun
<1>4. manager.at = "idle" /\ reindex.at = "idle"
  BY DEF NoCall
<1>5. LifecycleTypes
  <2>1. manifest \in [Keys -> Entries]
    BY <1>1
  <2> QED
    BY <2>1, Limits DEF LifecycleTypes
<1> HIDE DEF e
<1>6. OneRun /\ EpochsInStep /\ CopyOK /\ ReindexOK
  BY <1>3, <1>4 DEF OneRun, EpochsInStep, CopyOK, ReindexOK
<1>7. ASSUME NEW k \in Keys PROVE KeyOK(k)
  <2> USE DEF Counting
  <2>1. CountOK(manifest[k], misses[k])
    BY <1>1, <1>2, Limits DEF CountOK
  <2>2. \A r \in Runners : RunOK(sync[r], k, manifest[k], misses[k])
    BY <1>3 DEF RunOK, Owed
  <2>3. PlanOK(reindex, k, manifest[k], vecs[k])
    BY <1>4 DEF PlanOK
  <2> QED
    BY <2>1, <2>2, <2>3 DEF KeyOK
<1> QED
  BY <1>5, <1>6, <1>7 DEF LifecycleInv

LEMMA LifecycleStutter ==
    ASSUME LifecycleInv, UNCHANGED lifecycleVars
    PROVE  LifecycleInv'
BY DEF LifecycleInv, lifecycleVars, LifecycleTypes, OneRun, EpochsInStep, CopyOK, ReindexOK, KeyOK

LEMMA UploadedInv ==
    ASSUME LifecycleInv, NEW k \in Keys, NEW tag \in 0 .. MaxEtag, Uploaded(k, tag)
    PROVE  LifecycleInv'
<1>1. bucket' \in [Keys -> Nat]
  BY Limits DEF LifecycleInv, LifecycleTypes, Uploaded
<1> QED
  BY <1>1 DEF Uploaded, LifecycleInv, LifecycleTypes, OneRun, EpochsInStep, CopyOK, ReindexOK, KeyOK

LEMMA StartSyncInv ==
    ASSUME LifecycleInv, NEW r \in Runners, StartSync(r)
    PROVE  LifecycleInv'
<1> DEFINE known == [k \in Keys |-> manifest[k].state]
           s == [at |-> "run", tentative |-> epoch + 1, listed |-> bucket, known |-> known, todo |-> Keys]
<1>a. LifecycleTypes
  BY DEF LifecycleInv
<1>1. \A o \in Runners : sync[o].at = "idle"
  BY DEF StartSync, TryLock
<1>2. known \in [Keys -> States]
  BY <1>a, EntryFields
<1>3. s \in Runs /\ s.at = "run" /\ s.listed = bucket /\ s.known = known /\ s.todo = Keys /\ s.tentative = epoch + 1
  BY <1>a, <1>2 DEF LifecycleTypes, Runs
<1>4. sync' = [sync EXCEPT ![r] = s]
  BY DEF StartSync
<1>5. UNCHANGED <<bucket, manifest, epoch, manager, doomed, reindex, vecs, stale>>
  BY DEF StartSync
<1>6. ASSUME NEW k \in Keys
      PROVE  misses'[k] = IF bucket[k] = 0 THEN Min({misses[k] + 1, DeletionThreshold}) ELSE misses[k]
  BY DEF StartSync
<1>7. ASSUME NEW k \in Keys PROVE misses'[k] \in 0 .. DeletionThreshold
  BY <1>6, <1>a, EntryFields, OneMoreMiss
<1>8. \A k \in Keys : known[k] = manifest[k].state
  OBVIOUS
<1> HIDE DEF known, s
<1>9. \A o \in Runners : sync'[o] = IF o = r THEN s ELSE sync[o]
  BY <1>a, <1>4 DEF LifecycleTypes
<1>10. LifecycleTypes'
  <2>1. misses' \in [Keys -> 0 .. DeletionThreshold]
    <3>1. misses' = [k \in Keys |-> misses'[k]]
      BY DEF StartSync
    <3> QED
      BY <3>1, <1>7
  <2>2. sync' \in [Runners -> {IdleRun} \cup Runs]
    BY <1>a, <1>3, <1>4 DEF LifecycleTypes
  <2> QED
    BY <2>1, <2>2, <1>5, <1>a DEF LifecycleTypes
<1>11. OneRun' /\ EpochsInStep'
  BY <1>1, <1>3, <1>5, <1>9 DEF OneRun, EpochsInStep
<1>12. CopyOK' /\ ReindexOK'
  BY <1>5 DEF LifecycleInv, CopyOK, ReindexOK
<1>13. ASSUME NEW k \in Keys, k \notin stale PROVE KeyOK(k)'
  <2>1. KeyOK(k)
    BY <1>13 DEF LifecycleInv
  <2> DEFINE m == manifest[k]
             n == misses[k]
             x == misses'[k]
  <2>2. m.count \in Nat /\ n \in 0 .. DeletionThreshold /\ n \in Nat
    BY <1>a, EntryFields
  <2>3. CountOK(m, n)
    BY <2>1 DEF KeyOK
  <2>4. x \in 0 .. DeletionThreshold /\ n <= x
    <3>1. n <= Min({n + 1, DeletionThreshold})
      BY <2>2, OneMoreMiss
    <3>2. x = n \/ x = Min({n + 1, DeletionThreshold})
      BY <1>6
    <3>3. x \in 0 .. DeletionThreshold
      BY <1>7
    <3> HIDE DEF n, x
    <3> QED
      BY <2>2, <3>1, <3>2, <3>3
  <2>5. bucket[k] = 0 => x >= 1 /\ (m.state \in Counting => m.count + 1 <= x)
    <3>1. m.state \in Counting => m.count < DeletionThreshold /\ m.count <= n
      BY <2>3 DEF CountOK
    <3> HIDE DEF m, n
    <3>2. LET y == Min({n + 1, DeletionThreshold}) IN
          y >= 1 /\ \A c \in Nat : c < DeletionThreshold /\ c <= n => c + 1 <= y
      BY <2>2, OneMoreMiss
    <3>3. bucket[k] = 0 => x = Min({n + 1, DeletionThreshold})
      BY <1>6 DEF n
    <3> HIDE DEF x
    <3> QED
      BY <2>2, <3>1, <3>2, <3>3
  <2> HIDE DEF m, n, x
  <2>6. CountOK(m, x)
    BY <2>2, <2>3, <2>4, Limits DEF CountOK
  <2>7. ASSUME NEW o \in Runners PROVE RunOK(sync'[o], k, m, x)
    BY <1>1, <1>3, <1>8, <1>9, <2>5 DEF RunOK, Owed, m
  <2> QED
    BY <1>5, <2>1, <2>6, <2>7 DEF KeyOK, m, x
<1> QED
  BY <1>5, <1>10, <1>11, <1>12, <1>13 DEF LifecycleInv

(* A run ticks a key off.                                                  *)
LEMMA TickedOff ==
    ASSUME LifecycleTypes, NEW r \in Runners, NEW k \in Keys, sync[r].at = "run", Ticked(r, k)
    PROVE  /\ sync' \in [Runners -> {IdleRun} \cup Runs]
           /\ \A o \in Runners : o # r => sync'[o] = sync[o]
           /\ sync'[r].at = "run" /\ sync'[r].tentative = sync[r].tentative
           /\ sync'[r].listed = sync[r].listed /\ sync'[r].known = sync[r].known
           /\ sync'[r].todo = sync[r].todo \ {k}
<1> DEFINE s == [sync[r] EXCEPT !.todo = @ \ {k}]
<1>1. sync' = [sync EXCEPT ![r] = s]
  BY DEF Ticked
<1>2. sync[r] \in Runs
  BY RunFields
<1>3. s \in Runs /\ s.at = "run" /\ s.tentative = sync[r].tentative
      /\ s.listed = sync[r].listed /\ s.known = sync[r].known /\ s.todo = sync[r].todo \ {k}
  BY <1>2 DEF Runs
<1> HIDE DEF s
<1>4. sync'[r] = s /\ \A o \in Runners : o # r => sync'[o] = sync[o]
  BY <1>1 DEF LifecycleTypes
<1> QED
  BY <1>1, <1>3, <1>4 DEF LifecycleTypes

(* ... and what is left of it says the same of the other keys.             *)
LEMMA TickedRuns ==
    ASSUME LifecycleInv, NEW r \in Runners, NEW k \in Keys, sync[r].at = "run", Ticked(r, k), epoch' = epoch
    PROVE  /\ OneRun' /\ EpochsInStep'
           /\ \A m, n : \A o \in Runners : RunOK(sync'[o], k, m, n)
           /\ \A j \in Keys : \A m, n : \A o \in Runners : RunOK(sync[o], j, m, n) => RunOK(sync'[o], j, m, n)
<1>a. LifecycleTypes /\ OneRun /\ EpochsInStep
  BY DEF LifecycleInv
<1>1. /\ \A o \in Runners : o # r => sync'[o] = sync[o]
      /\ sync'[r].at = "run" /\ sync'[r].tentative = sync[r].tentative
      /\ sync'[r].listed = sync[r].listed /\ sync'[r].known = sync[r].known
      /\ sync'[r].todo = sync[r].todo \ {k}
  BY <1>a, TickedOff
<1>2. \A o \in Runners : o # r => sync'[o].at # "run"
  BY <1>a, <1>1 DEF OneRun
<1>3. OneRun'
  BY <1>2 DEF OneRun
<1>4. EpochsInStep'
  BY <1>a, <1>1, <1>2 DEF EpochsInStep
<1>5. \A m, n : \A o \in Runners : RunOK(sync'[o], k, m, n)
  BY <1>1, <1>2 DEF RunOK, Owed
<1>6. \A j \in Keys : \A m, n : \A o \in Runners : RunOK(sync[o], j, m, n) => RunOK(sync'[o], j, m, n)
  <2> SUFFICES ASSUME NEW j \in Keys, NEW m, NEW n, NEW o \in Runners, RunOK(sync[o], j, m, n)
               PROVE  RunOK(sync'[o], j, m, n)
    OBVIOUS
  <2>1. CASE o # r
    BY <1>2, <2>1 DEF RunOK, Owed
  <2>2. CASE o = r
    BY <1>1, <2>2 DEF RunOK, Owed
  <2> QED
    BY <2>1, <2>2
<1> QED
  BY <1>3, <1>4, <1>5, <1>6

(* Only k's entry changed, and k's place in the plan with it.              *)
LEMMA SeeKeyInv ==
    ASSUME LifecycleInv, NEW r \in Runners, NEW k \in Keys, SeeKey(r, k)
    PROVE  LifecycleInv'
<1> DEFINE tag == sync[r].listed[k]
           ingested == Entry(tag, 0, "active", 0)
           seen == MarkSeen(manifest[k])
           tagged == [seen EXCEPT !.etag = tag]
           m == IF sync[r].known[k] = "absent" THEN ingested ELSE IF ~Held(k) THEN manifest[k] ELSE tagged
           v == IF sync[r].known[k] = "absent" THEN vecs[k] \cup {0} ELSE vecs[k]
<1>a. LifecycleTypes
  BY DEF LifecycleInv
<1>b. manifest[k] \in Entries /\ vecs[k] \subseteq Nat
  BY <1>a, EntryFields
<1>c. sync[r].at = "run" /\ k \in sync[r].todo /\ Ticked(r, k)
  BY DEF SeeKey
<1>1. tag \in Nat
  BY <1>a, <1>c, RunFields
<1>2. ingested \in Entries /\ ingested.count = 0 /\ ingested.state = "active"
  BY <1>1, EntryType, Limits DEF States, Versions
<1>3. seen \in Entries /\ seen.count = 0 /\ seen.version = manifest[k].version
      /\ (seen.state = "absent" <=> manifest[k].state = "absent")
      /\ (seen.state \in Counting => manifest[k].state \in Counting)
  BY <1>b, MarkSeenOf
<1>4. tagged \in Entries /\ tagged.count = 0 /\ tagged.version = manifest[k].version
      /\ tagged.state = seen.state
  <2> HIDE DEF seen, tag
  <2> QED
    BY <1>1, <1>3, WithTag
<1>5. /\ manifest' = [manifest EXCEPT ![k] = m] /\ vecs' = [vecs EXCEPT ![k] = v]
      /\ misses' = [misses EXCEPT ![k] = 0]
      /\ UNCHANGED <<bucket, epoch, manager, doomed, reindex, stale>>
  BY DEF SeeKey
<1>6. m \in Entries /\ v \in SUBSET Nat /\ vecs[k] \subseteq v
  <2> HIDE DEF ingested, tagged
  <2> QED
    BY <1>b, <1>2, <1>4
<1>7. \/ sync[r].known[k] = "absent" /\ m = ingested
      \/ manifest[k].state = "absent" /\ m = manifest[k]
      \/ manifest[k].state # "absent" /\ m = tagged
  BY DEF Held
<1> HIDE DEF tag, ingested, seen, tagged, m, v
<1>8. LifecycleTypes'
  <2>1. sync' \in [Runners -> {IdleRun} \cup Runs]
    BY <1>a, <1>c, TickedOff
  <2>2. manifest' \in [Keys -> Entries] /\ vecs' \in [Keys -> SUBSET Nat] /\ misses' \in [Keys -> 0 .. DeletionThreshold]
    BY <1>a, <1>5, <1>6, Limits DEF LifecycleTypes
  <2> QED
    BY <2>1, <2>2, <1>5, <1>a DEF LifecycleTypes
<1>9. OneRun' /\ EpochsInStep'
  BY <1>c, <1>5, TickedRuns
<1>10. CopyOK' /\ ReindexOK'
  BY <1>5 DEF LifecycleInv, CopyOK, ReindexOK
<1>11. ASSUME NEW j \in Keys, j \notin stale PROVE KeyOK(j)'
  <2>1. KeyOK(j)
    BY <1>11 DEF LifecycleInv
  <2>2. CASE j # k
    <3>1. manifest'[j] = manifest[j] /\ misses'[j] = misses[j] /\ vecs'[j] = vecs[j] /\ reindex' = reindex
      BY <1>a, <1>5, <2>2 DEF LifecycleTypes
    <3>2. \A o \in Runners : RunOK(sync'[o], j, manifest[j], misses[j])
      BY <1>c, <1>5, <2>1, TickedRuns DEF KeyOK
    <3> QED
      BY <2>1, <3>1, <3>2 DEF KeyOK
  <2>3. CASE j = k
    <3>1. manifest'[k] = m /\ misses'[k] = 0 /\ vecs'[k] = v /\ reindex' = reindex
      BY <1>a, <1>5 DEF LifecycleTypes
    <3>2. \A o \in Runners : RunOK(sync'[o], k, m, 0)
      BY <1>c, <1>5, TickedRuns
    <3>3. CountOK(manifest[k], misses[k]) /\ RunOK(sync[r], k, manifest[k], misses[k])
          /\ PlanOK(reindex, k, manifest[k], vecs[k])
      BY <2>1, <2>3 DEF KeyOK
    <3>4. m.count = 0
      BY <1>2, <1>4, <1>7, <3>3 DEF CountOK
    <3>5. CountOK(m, 0)
      BY <3>4, Limits DEF CountOK
    <3>6. PlanOK(reindex, k, m, v)
      <4>1. CASE manifest[k].state = "absent"
        BY <4>1, <3>3 DEF PlanOK
      <4>2. CASE manifest[k].state # "absent"
        <5>1. m = tagged
          BY <4>2, <1>c, <1>7, <3>3 DEF RunOK
        <5>2. m.version = manifest[k].version /\ m.state # "absent"
          BY <4>2, <5>1, <1>3, <1>4
        <5> QED
          BY <3>3, <5>2, <1>6 DEF PlanOK
      <4> QED
        BY <4>1, <4>2
    <3> QED
      BY <2>3, <3>1, <3>2, <3>5, <3>6 DEF KeyOK
  <2> QED
    BY <2>2, <2>3
<1> QED
  BY <1>5, <1>8, <1>9, <1>10, <1>11 DEF LifecycleInv

LEMMA MissKeyInv ==
    ASSUME LifecycleInv, NEW r \in Runners, NEW k \in Keys, MissKey(r, k)
    PROVE  LifecycleInv'
<1> DEFINE i == IncrementMissing(manifest[k])
           m == IF sync[r].known[k] \in {"active", "marked"} THEN i ELSE manifest[k]
<1>a. LifecycleTypes
  BY DEF LifecycleInv
<1>b. manifest[k] \in Entries /\ manifest[k].count \in Nat /\ misses[k] \in Nat
  BY <1>a, EntryFields
<1>c. sync[r].at = "run" /\ k \in sync[r].todo /\ sync[r].listed[k] = 0 /\ Ticked(r, k)
  BY DEF MissKey
<1>1. /\ i \in Entries /\ i.version = manifest[k].version
      /\ i.state = "absent" <=> manifest[k].state = "absent"
      /\ manifest[k].state \notin Counting => i = manifest[k]
      /\ manifest[k].state \in Counting => i.count = manifest[k].count + 1
      /\ i.state \in Counting => i.count < DeletionThreshold
  BY <1>b, IncrementOf
<1>2. UNCHANGED <<bucket, epoch, manager, doomed, reindex, vecs, misses, stale>>
  BY DEF MissKey
<1>3. manifest' = [manifest EXCEPT ![k] = m]
  BY <1>a DEF MissKey, LifecycleTypes
<1>4. (m = i /\ sync[r].known[k] \in Counting) \/ m = manifest[k]
  BY DEF Counting
<1> HIDE DEF i, m
<1>5. LifecycleTypes'
  <2>1. sync' \in [Runners -> {IdleRun} \cup Runs]
    BY <1>a, <1>c, TickedOff
  <2>2. manifest' \in [Keys -> Entries]
    BY <1>a, <1>b, <1>1, <1>3, <1>4 DEF LifecycleTypes
  <2> QED
    BY <2>1, <2>2, <1>2, <1>a DEF LifecycleTypes
<1>6. OneRun' /\ EpochsInStep'
  BY <1>c, <1>2, TickedRuns
<1>7. CopyOK' /\ ReindexOK'
  BY <1>2 DEF LifecycleInv, CopyOK, ReindexOK
<1>8. ASSUME NEW j \in Keys, j \notin stale PROVE KeyOK(j)'
  <2>1. KeyOK(j)
    BY <1>8 DEF LifecycleInv
  <2>2. CASE j # k
    <3>1. manifest'[j] = manifest[j] /\ misses' = misses /\ vecs' = vecs /\ reindex' = reindex
      BY <1>a, <1>2, <1>3, <2>2 DEF LifecycleTypes
    <3>2. \A o \in Runners : RunOK(sync'[o], j, manifest[j], misses[j])
      BY <1>c, <1>2, <2>1, TickedRuns DEF KeyOK
    <3> QED
      BY <2>1, <3>1, <3>2 DEF KeyOK
  <2>3. CASE j = k
    <3>1. manifest'[k] = m /\ misses' = misses /\ vecs' = vecs /\ reindex' = reindex
      BY <1>a, <1>2, <1>3 DEF LifecycleTypes
    <3>2. \A o \in Runners : RunOK(sync'[o], k, m, misses[k])
      BY <1>c, <1>2, TickedRuns
    <3>3. CountOK(manifest[k], misses[k]) /\ RunOK(sync[r], k, manifest[k], misses[k])
          /\ PlanOK(reindex, k, manifest[k], vecs[k])
      BY <2>1, <2>3 DEF KeyOK
    <3>4. CountOK(m, misses[k])
      <4>1. CASE m = manifest[k]
        BY <3>3, <4>1
      <4>2. CASE m = i /\ sync[r].known[k] \in Counting /\ manifest[k].state \in Counting
        <5>1. manifest[k].count + 1 <= misses[k]
          BY <1>c, <3>3, <4>2 DEF RunOK, Owed
        <5>2. i.count <= misses[k] /\ i.state # "absent"
          BY <1>1, <4>2, <5>1 DEF Counting
        <5> QED
          BY <1>1, <4>2, <5>2 DEF CountOK
      <4> QED
        BY <1>1, <1>4, <4>1, <4>2
    <3>5. m.version = manifest[k].version /\ (m.state = "absent" <=> manifest[k].state = "absent")
      BY <1>1, <1>4
    <3>6. PlanOK(reindex, k, m, vecs[k])
      BY <3>3, <3>5 DEF PlanOK
    <3> QED
      BY <2>3, <3>1, <3>2, <3>4, <3>6 DEF KeyOK
  <2> QED
    BY <2>2, <2>3
<1> QED
  BY <1>2, <1>5, <1>6, <1>7, <1>8 DEF LifecycleInv

LEMMA FinishSyncInv ==
    ASSUME LifecycleInv, NEW r \in Runners, NEW ok \in BOOLEAN, FinishSync(r, ok)
    PROVE  LifecycleInv'
<1>a. LifecycleTypes /\ OneRun /\ EpochsInStep
  BY DEF LifecycleInv
<1>1. sync' = [sync EXCEPT ![r] = IdleRun] /\ sync[r].at = "run"
      /\ UNCHANGED <<bucket, manifest, manager, doomed, reindex, vecs, misses, stale>>
  BY DEF FinishSync
<1>2. sync'[r].at = "idle" /\ \A o \in Runners : o # r => sync'[o] = sync[o]
  BY <1>a, <1>1 DEF LifecycleTypes, IdleRun
<1>3. \A o \in Runners : sync'[o].at # "run"
  BY <1>a, <1>1, <1>2 DEF OneRun
<1>4. LifecycleTypes'
  <2>1. epoch' \in Nat
    BY <1>a DEF FinishSync, LifecycleTypes
  <2>2. sync' \in [Runners -> {IdleRun} \cup Runs]
    BY <1>a, <1>1 DEF LifecycleTypes
  <2> QED
    BY <2>1, <2>2, <1>1, <1>a DEF LifecycleTypes
<1>5. OneRun' /\ EpochsInStep'
  BY <1>3 DEF OneRun, EpochsInStep
<1>6. CopyOK' /\ ReindexOK'
  BY <1>1 DEF LifecycleInv, CopyOK, ReindexOK
<1>7. \A k \in Keys \ stale : KeyOK(k)'
  <2> SUFFICES ASSUME NEW k \in Keys \ stale PROVE KeyOK(k)'
    OBVIOUS
  <2>1. KeyOK(k)
    BY DEF LifecycleInv
  <2>2. \A o \in Runners : RunOK(sync'[o], k, manifest[k], misses[k])
    BY <1>3 DEF RunOK, Owed
  <2> QED
    BY <1>1, <2>1, <2>2 DEF KeyOK
<1> QED
  BY <1>1, <1>4, <1>5, <1>6, <1>7 DEF LifecycleInv

(* The manager's steps: k's entry becomes m, and the runs go on.           *)
LEMMA EntryReplaced ==
    ASSUME LifecycleInv, NEW k \in Keys, NEW m \in Entries, manifest' = [manifest EXCEPT ![k] = m],
           UNCHANGED <<bucket, epoch, sync, reindex, vecs, misses>>,
           LifecycleTypes => manager' \in {NoCall} \cup Writings, CopyOK',
           stale \subseteq stale',
           k \notin stale' => /\ CountOK(m, misses[k])
                              /\ m.state \in Counting => manifest[k].state \in Counting /\ m.count <= manifest[k].count
                              /\ m.version = manifest[k].version
                              /\ m.state = "absent" <=> manifest[k].state = "absent"
    PROVE  LifecycleInv'
<1>a. LifecycleTypes
  BY DEF LifecycleInv
<1>1. LifecycleTypes'
  BY <1>a DEF LifecycleTypes
<1>2. OneRun' /\ EpochsInStep' /\ ReindexOK'
  BY DEF LifecycleInv, OneRun, EpochsInStep, ReindexOK
<1>3. ASSUME NEW j \in Keys, j \notin stale' PROVE KeyOK(j)'
  <2>1. KeyOK(j)
    BY <1>3 DEF LifecycleInv
  <2>2. CASE j # k
    <3>1. manifest'[j] = manifest[j]
      BY <1>a, <2>2 DEF LifecycleTypes
    <3> QED
      BY <2>1, <3>1 DEF KeyOK
  <2>3. CASE j = k
    <3>1. manifest'[k] = m
      BY <1>a DEF LifecycleTypes
    <3>2. \A o \in Runners : RunOK(sync[o], k, manifest[k], misses[k])
      BY <2>1, <2>3 DEF KeyOK
    <3>3. PlanOK(reindex, k, m, vecs[k])
      BY <1>3, <2>1, <2>3 DEF PlanOK, KeyOK
    <3>4. m.count \in Nat /\ manifest[k].count \in Nat /\ misses[k] \in Nat
      BY <1>a, EntryFields DEF Entries
    <3>5. \A o \in Runners : RunOK(sync[o], k, m, misses[k])
      BY <1>3, <2>3, <3>2, <3>4 DEF RunOK
    <3> QED
      BY <1>3, <2>3, <3>1, <3>3, <3>5 DEF KeyOK
  <2> QED
    BY <2>2, <2>3
<1> QED
  BY <1>1, <1>2, <1>3 DEF LifecycleInv

LEMMA CallStarted ==
    ASSUME LifecycleInv, manager' \in {NoCall} \cup Writings, CopyOK',
           UNCHANGED <<bucket, manifest, epoch, sync, reindex, vecs, misses, stale>>
    PROVE  LifecycleInv'
BY DEF LifecycleInv, LifecycleTypes, OneRun, EpochsInStep, ReindexOK, KeyOK

LEMMA WritingFields ==
    ASSUME NEW k \in Keys, NEW old \in Entries, NEW copy \in Entries
    PROVE  LET w == Writing(k, old, copy) IN
           w \in Writings /\ w.at = "write" /\ w.key = k /\ w.read = old /\ w.new = copy
BY DEF Writing, Writings

LEMMA HandleMissingInv ==
    ASSUME LifecycleInv, NEW k \in Keys, HandleMissing(k)
    PROVE  LifecycleInv'
<1> DEFINE i == IncrementMissing(manifest[k])
           c == [i EXCEPT !.state = "confirmed"]
           n == misses[k]
           x == Min({n + 1, DeletionThreshold})
<1>a. LifecycleTypes
  BY DEF LifecycleInv
<1>b. manifest[k] \in Entries /\ manifest[k].count \in Nat /\ n \in Nat /\ n \in 0 .. DeletionThreshold
  BY <1>a, EntryFields
<1>1. /\ i \in Entries /\ i.version = manifest[k].version
      /\ i.state = "absent" <=> manifest[k].state = "absent"
      /\ manifest[k].state \notin Counting => i = manifest[k]
      /\ manifest[k].state \in Counting => i.count = manifest[k].count + 1
      /\ i.state \in Counting => i.count < DeletionThreshold
  BY <1>b, IncrementOf
<1>2. /\ manifest' = [manifest EXCEPT ![k] = i] /\ misses' = [misses EXCEPT ![k] = x]
      /\ manager' = (IF i.count >= DeletionThreshold THEN Writing(k, i, c) ELSE manager)
      /\ manager.at = "idle" /\ manifest[k].state # "absent"
      /\ UNCHANGED <<bucket, epoch, sync, doomed, reindex, vecs, stale>>
  BY DEF HandleMissing, Held
<1>3. /\ x \in 0 .. DeletionThreshold /\ x >= 1 /\ n <= x
      /\ \A d \in Nat : d < DeletionThreshold /\ d <= n => d + 1 <= x
      /\ \A d \in Nat : d < DeletionThreshold /\ d + 1 <= n => d + 1 <= x /\ (d + 1 < DeletionThreshold => d + 2 <= x)
  <2> HIDE DEF n
  <2> QED
    BY <1>b, OneMoreMiss
<1> HIDE DEF i, x
<1>4. c \in Entries /\ c.count = i.count /\ c.version = i.version /\ c.state = "confirmed"
  BY <1>1, WithState DEF States
<1> HIDE DEF c, n
<1>5. i.state # "absent"
  BY <1>1, <1>2
<1>6. manager' \in {NoCall} \cup Writings /\ CopyOK'
  <2>1. CASE i.count >= DeletionThreshold
    <3>1. manager' \in Writings /\ manager'.read = i /\ manager'.new = c
      BY <2>1, <1>1, <1>2, <1>4, WritingFields
    <3>2. i.count \in Nat
      BY <1>1 DEF Entries
    <3> QED
      BY <3>1, <3>2, <1>4, <1>5 DEF CopyOK, Counting
  <2>2. CASE ~(i.count >= DeletionThreshold)
    BY <2>2, <1>a, <1>2 DEF LifecycleTypes, CopyOK
  <2> QED
    BY <2>1, <2>2
<1>7. LifecycleTypes'
  <2>1. manifest' \in [Keys -> Entries] /\ misses' \in [Keys -> 0 .. DeletionThreshold]
    BY <1>a, <1>1, <1>2, <1>3 DEF LifecycleTypes
  <2> QED
    BY <2>1, <1>a, <1>2, <1>6 DEF LifecycleTypes
<1>8. OneRun' /\ EpochsInStep' /\ ReindexOK'
  BY <1>2 DEF LifecycleInv, OneRun, EpochsInStep, ReindexOK
<1>9. ASSUME NEW j \in Keys, j \notin stale PROVE KeyOK(j)'
  <2>1. KeyOK(j)
    BY <1>9 DEF LifecycleInv
  <2>2. CASE j # k
    <3>1. manifest'[j] = manifest[j] /\ misses'[j] = misses[j]
      BY <1>a, <1>2, <2>2 DEF LifecycleTypes
    <3> QED
      BY <1>2, <2>1, <3>1 DEF KeyOK
  <2>3. CASE j = k
    <3>1. manifest'[k] = i /\ misses'[k] = x
      BY <1>a, <1>2 DEF LifecycleTypes
    <3>2. CountOK(manifest[k], n) /\ PlanOK(reindex, k, manifest[k], vecs[k])
          /\ \A o \in Runners : RunOK(sync[o], k, manifest[k], n)
      BY <2>1, <2>3 DEF KeyOK, n
    <3>3. CountOK(i, x)
      <4>1. CASE manifest[k].state \in Counting
        <5>1. manifest[k].count < DeletionThreshold /\ manifest[k].count <= n
          BY <3>2, <4>1 DEF CountOK
        <5>2. i.count <= x
          BY <1>b, <1>1, <1>3, <4>1, <5>1
        <5> QED
          BY <1>1, <1>5, <5>2 DEF CountOK
      <4>2. CASE manifest[k].state \notin Counting
        <5>1. i = manifest[k]
          BY <1>1, <4>2
        <5>2. i.count <= n /\ i.count \in Nat
          BY <1>b, <3>2, <5>1 DEF CountOK
        <5> QED
          BY <1>b, <1>1, <1>3, <1>5, <5>2 DEF CountOK
      <4> QED
        BY <4>1, <4>2
    <3>4. ASSUME NEW o \in Runners PROVE RunOK(sync[o], k, i, x)
      <4>1. ASSUME Owed(sync[o], k), i.state \in Counting PROVE i.count + 1 <= x
        <5>1. manifest[k].state \in Counting
          BY <1>1, <4>1
        <5>2. manifest[k].count + 1 <= n
          BY <3>2, <4>1, <5>1 DEF RunOK
        <5>3. i.count = manifest[k].count + 1 /\ i.count < DeletionThreshold
          BY <1>1, <4>1, <5>1
        <5> QED
          BY <1>b, <1>3, <5>2, <5>3, Limits
      <4>2. RunOK(sync[o], k, manifest[k], n)
        BY <3>2
      <4> QED
        BY <1>2, <1>3, <1>5, <4>1, <4>2 DEF RunOK
    <3>5. PlanOK(reindex, k, i, vecs[k])
      BY <1>1, <1>5, <3>2 DEF PlanOK
    <3> QED
      BY <1>2, <2>3, <3>1, <3>3, <3>4, <3>5 DEF KeyOK
  <2> QED
    BY <2>2, <2>3
<1> QED
  BY <1>2, <1>6, <1>7, <1>8, <1>9 DEF LifecycleInv

LEMMA ScheduleHardDeleteInv ==
    ASSUME LifecycleInv, NEW k \in Keys, ScheduleHardDelete(k)
    PROVE  LifecycleInv'
<1> DEFINE c == [manifest[k] EXCEPT !.state = "scheduled"]
<1>1. manifest[k] \in Entries /\ manifest[k].count \in Nat
  BY EntryFields DEF LifecycleInv
<1>2. c \in Entries /\ c.count = manifest[k].count /\ c.version = manifest[k].version /\ c.state = "scheduled"
  BY <1>1, WithState DEF States
<1>3. manager' = Writing(k, manifest[k], c) /\ manifest[k].state = "confirmed"
      /\ UNCHANGED <<bucket, manifest, epoch, sync, reindex, vecs, misses, stale>>
  BY DEF ScheduleHardDelete
<1> HIDE DEF c
<1>4. manager' \in Writings /\ manager'.read = manifest[k] /\ manager'.new = c
  BY <1>1, <1>2, <1>3, WritingFields
<1>5. CopyOK'
  BY <1>1, <1>2, <1>3, <1>4 DEF CopyOK, Counting
<1> QED
  BY <1>3, <1>4, <1>5, CallStarted

LEMMA RecoverDocumentInv ==
    ASSUME LifecycleInv, NEW k \in Keys, RecoverDocument(k)
    PROVE  LifecycleInv'
<1> DEFINE s == MarkSeen(manifest[k])
           c == [s EXCEPT !.etag = bucket[k]]
<1>1. manifest[k] \in Entries /\ manifest[k].count \in Nat /\ bucket[k] \in Nat
  BY EntryFields DEF LifecycleInv
<1>2. s \in Entries /\ s.count = 0 /\ s.version = manifest[k].version
      /\ (s.state = "absent" <=> manifest[k].state = "absent")
      /\ (s.state \in Counting => manifest[k].state \in Counting)
  BY <1>1, MarkSeenOf
<1>3. manager' = Writing(k, manifest[k], c) /\ manifest[k].state # "absent"
      /\ UNCHANGED <<bucket, manifest, epoch, sync, reindex, vecs, misses, stale>>
  BY DEF RecoverDocument
<1> HIDE DEF s
<1>4. c \in Entries /\ c.count = s.count /\ c.version = s.version /\ c.state = s.state
  BY <1>1, <1>2, WithTag
<1> HIDE DEF c
<1>5. manager' \in Writings /\ manager'.read = manifest[k] /\ manager'.new = c
  BY <1>1, <1>3, <1>4, WritingFields
<1>6. CopyOK'
  BY <1>1, <1>2, <1>3, <1>4, <1>5 DEF CopyOK
<1> QED
  BY <1>3, <1>5, <1>6, CallStarted

(* A copy that is written over what it was read from, or over a stale key. *)
LEMMA ManagerWritesInv ==
    ASSUME LifecycleInv, ManagerWrites
    PROVE  LifecycleInv'
<1> DEFINE k == manager.key
           old == manager.read
           copy == manager.new
<1>a. LifecycleTypes /\ manager.at = "write"
  BY DEF LifecycleInv, ManagerWrites
<1>1. k \in Keys /\ old \in Entries /\ copy \in Entries
  BY <1>a, CallFields
<1>2. /\ manifest' = [manifest EXCEPT ![k] = copy] /\ manager' = NoCall
      /\ UNCHANGED <<bucket, epoch, sync, reindex, vecs, misses>>
      /\ stale \subseteq stale' /\ (k \notin stale' => k \notin stale /\ manifest[k] = old)
  BY DEF ManagerWrites, Upsert
<1>3. /\ copy.count <= old.count /\ copy.version = old.version
      /\ old.state # "absent" /\ copy.state # "absent"
      /\ copy.state \in Counting => old.state \in Counting
  BY <1>a DEF LifecycleInv, CopyOK
<1>4. CopyOK'
  BY <1>2 DEF CopyOK, NoCall
<1> HIDE DEF k, old, copy
<1>5. ASSUME k \notin stale' PROVE CountOK(copy, misses[k])
  <2>1. CountOK(old, misses[k])
    BY <1>1, <1>2, <1>5 DEF LifecycleInv, KeyOK
  <2>2. old.count \in Nat /\ copy.count \in Nat /\ misses[k] \in Nat
    BY <1>a, <1>1, EntryFields DEF Entries
  <2> QED
    BY <1>3, <2>1, <2>2, Limits DEF CountOK
<1> QED
  BY <1>1, <1>2, <1>3, <1>4, <1>5, EntryReplaced

LEMMA RipenInv ==
    ASSUME LifecycleInv, NEW k \in Keys, Ripen(k)
    PROVE  LifecycleInv'
<1> DEFINE m == [manifest[k] EXCEPT !.state = "ready"]
<1>a. LifecycleTypes
  BY DEF LifecycleInv
<1>1. manifest[k] \in Entries
  BY <1>a, EntryFields
<1>2. m \in Entries /\ m.count = manifest[k].count /\ m.version = manifest[k].version /\ m.state = "ready"
  BY <1>1, WithState DEF States
<1>3. manifest' = [manifest EXCEPT ![k] = m]
  BY DEF Ripen
<1>4. UNCHANGED <<bucket, epoch, sync, manager, reindex, vecs, misses, stale>> /\ manifest[k].state = "scheduled"
  BY DEF Ripen
<1> HIDE DEF m
<1>5. ASSUME k \notin stale PROVE CountOK(m, misses[k])
  <2>1. CountOK(manifest[k], misses[k])
    BY <1>5 DEF LifecycleInv, KeyOK
  <2> QED
    BY <1>2, <2>1 DEF CountOK, Counting
<1>6. CopyOK' /\ manager' \in {NoCall} \cup Writings
  BY <1>a, <1>4 DEF LifecycleInv, LifecycleTypes, CopyOK
<1> QED
  BY <1>2, <1>3, <1>4, <1>5, <1>6, EntryReplaced DEF Counting

LEMMA ListHardDeletesInv ==
    ASSUME LifecycleInv, ListHardDeletes
    PROVE  LifecycleInv'
BY DEF ListHardDeletes, LifecycleInv, LifecycleTypes, OneRun, EpochsInStep, CopyOK, ReindexOK, KeyOK

(* A hard delete takes the key from the plan, its entry and its vectors.   *)
LEMMA HardDeleteInv ==
    ASSUME LifecycleInv, NEW k \in Keys, NEW ok \in BOOLEAN, HardDelete(k, ok)
    PROVE  LifecycleInv'
<1>a. LifecycleTypes
  BY DEF LifecycleInv
<1>1. CASE ~ok
  BY <1>1 DEF HardDelete, LifecycleInv, LifecycleTypes, OneRun, EpochsInStep, CopyOK, ReindexOK, KeyOK
<1>2. CASE ok
  <2> DEFINE x == IF reindex.at # "idle" THEN [reindex EXCEPT !.plan = @ \ {k}] ELSE reindex
  <2>1. /\ manifest' = [manifest EXCEPT ![k] = NoEntry] /\ vecs' = [vecs EXCEPT ![k] = {}]
        /\ reindex' = x
        /\ UNCHANGED <<bucket, epoch, sync, manager, misses, stale>>
    BY <1>2 DEF HardDelete
  <2>2. /\ x \in {NoCall} \cup Reindexes /\ x.at = reindex.at
        /\ x.at # "idle" => /\ x.plan = reindex.plan \ {k} /\ x.left = reindex.left /\ x.old = reindex.old
                            /\ x.new = reindex.new /\ x.read = reindex.read
    <3>1. CASE reindex.at # "idle"
      <4>1. reindex \in Reindexes
        BY <1>a, <3>1, CallFields
      <4> QED
        BY <3>1, <4>1 DEF Reindexes
    <3>2. CASE reindex.at = "idle"
      BY <1>a, <3>2 DEF LifecycleTypes
    <3> QED
      BY <3>1, <3>2
  <2> HIDE DEF x
  <2>3. LifecycleTypes'
    <3>1. manifest' \in [Keys -> Entries] /\ vecs' \in [Keys -> SUBSET Nat]
      BY <1>a, <2>1, NoEntryType DEF LifecycleTypes
    <3> QED
      BY <3>1, <1>a, <2>1, <2>2 DEF LifecycleTypes
  <2>4. OneRun' /\ EpochsInStep' /\ CopyOK'
    BY <2>1 DEF LifecycleInv, OneRun, EpochsInStep, CopyOK
  <2>5. ReindexOK'
    BY <2>1, <2>2 DEF LifecycleInv, ReindexOK
  <2>6. ASSUME NEW j \in Keys, j \notin stale PROVE KeyOK(j)'
    <3>1. KeyOK(j)
      BY <2>6 DEF LifecycleInv
    <3>2. CASE j # k
      <4>1. manifest'[j] = manifest[j] /\ vecs'[j] = vecs[j]
        BY <1>a, <2>1, <3>2 DEF LifecycleTypes
      <4>2. PlanOK(x, j, manifest[j], vecs[j])
        BY <2>2, <3>1, <3>2 DEF PlanOK, KeyOK
      <4> QED
        BY <2>1, <3>1, <4>1, <4>2 DEF KeyOK
    <3>3. CASE j = k
      <4>1. manifest'[k] = NoEntry /\ vecs'[k] = {}
        BY <1>a, <2>1 DEF LifecycleTypes
      <4>2. misses[k] \in Nat
        BY <1>a, EntryFields
      <4>3. CountOK(NoEntry, misses[k])
        BY <4>2, NoEntryType, Limits DEF CountOK
      <4>4. \A o \in Runners : RunOK(sync[o], k, NoEntry, misses[k])
        BY <3>1, <3>3, NoEntryType DEF RunOK, KeyOK, Counting
      <4>5. PlanOK(x, k, NoEntry, {})
        BY <2>2 DEF PlanOK
      <4> QED
        BY <2>1, <3>3, <4>1, <4>3, <4>4, <4>5 DEF KeyOK
    <3> QED
      BY <3>2, <3>3
  <2> QED
    BY <2>1, <2>3, <2>4, <2>5, <2>6 DEF LifecycleInv
<1> QED
  BY <1>1, <1>2

-----------------------------------------------------------------------------
(* The reindexer moves on: what its plan says of each key is what is left  *)
(* to show.                                                                *)
LEMMA ReindexMoves ==
    ASSUME LifecycleInv, UNCHANGED <<bucket, manifest, epoch, sync, manager, misses, stale>>,
           vecs' \in [Keys -> SUBSET Nat], reindex' \in {NoCall} \cup Reindexes, ReindexOK',
           \A k \in Keys \ stale : PlanOK(reindex, k, manifest[k], vecs[k])
                                    => PlanOK(reindex', k, manifest[k], vecs'[k])
    PROVE  LifecycleInv'
BY DEF LifecycleInv, LifecycleTypes, OneRun, EpochsInStep, CopyOK, KeyOK

LEMMA PlanReindexInv ==
    ASSUME LifecycleInv, PlanReindex
    PROVE  LifecycleInv'
<1> DEFINE P == Planned
           V == {manifest[k].version : k \in P}
           newest == Max(V)
           n == newest + 1
           x == [at |-> "process", plan |-> P, left |-> P, old |-> newest, new |-> n, read |-> NoEntry]
<1>a. LifecycleTypes
  BY DEF LifecycleInv
<1>1. UNCHANGED <<bucket, manifest, epoch, sync, manager, vecs, misses, stale>>
      /\ reindex' = x /\ newest < MaxVersion /\ P # {}
  BY DEF PlanReindex
<1>2. P \subseteq Keys /\ \A k \in P : manifest[k].state = "active"
  BY DEF Planned
<1> HIDE DEF P
<1>3. V \in SUBSET Versions /\ V # {}
  BY <1>a, <1>1, <1>2, EntryFields
<1> HIDE DEF V
<1>4. newest \in Versions
  BY <1>3, NewestVersion
<1> HIDE DEF newest
<1>5. n \in Versions
  BY <1>1, <1>4, Limits DEF Versions
<1>6. n = newest + 1
  OBVIOUS
<1> HIDE DEF n
<1>7. x \in Reindexes /\ x.at = "process" /\ x.plan = P /\ x.left = P /\ x.old = newest /\ x.new = n
  BY <1>2, <1>4, <1>5, NoEntryType DEF Reindexes
<1> HIDE DEF x
<1>8. ReindexOK'
  BY <1>1, <1>6, <1>7 DEF ReindexOK
<1>9. \A k \in Keys : PlanOK(x, k, manifest[k], vecs[k])
  BY <1>2, <1>7 DEF PlanOK
<1>10. vecs' \in [Keys -> SUBSET Nat]
  BY <1>a, <1>1 DEF LifecycleTypes
<1> QED
  BY <1>1, <1>7, <1>8, <1>9, <1>10, ReindexMoves

LEMMA ProcessDocumentInv ==
    ASSUME LifecycleInv, ProcessDocument
    PROVE  LifecycleInv'
<1> DEFINE d == NextDoc
           e == manifest[d]
           x == [reindex EXCEPT !.at = "update", !.read = e]
<1>a. LifecycleTypes
  BY DEF LifecycleInv
<1>b. reindex.at = "process" /\ reindex.left # {} /\ manifest[d].state # "absent"
  BY DEF ProcessDocument, Held
<1>c. reindex \in Reindexes /\ reindex.left \subseteq Keys /\ reindex.new \in Versions
  BY <1>a, <1>b, CallFields
<1>1. d \in Keys /\ d = CHOOSE j \in reindex.left : TRUE
  BY <1>b, <1>c DEF NextDoc
<1>2. /\ vecs' = [vecs EXCEPT ![d] = @ \cup {reindex.new}] /\ reindex' = x
      /\ UNCHANGED <<bucket, manifest, epoch, sync, manager, misses, stale>>
  BY DEF ProcessDocument
<1> HIDE DEF d
<1>3. e \in Entries /\ e.state # "absent"
  BY <1>a, <1>b, <1>1, EntryFields
<1> HIDE DEF e
<1>4. x \in Reindexes /\ x.at = "update" /\ x.read = e /\ x.plan = reindex.plan /\ x.left = reindex.left
      /\ x.old = reindex.old /\ x.new = reindex.new
  BY <1>c, <1>3 DEF Reindexes
<1> HIDE DEF x
<1>5. vecs' \in [Keys -> SUBSET Nat] /\ vecs'[d] = vecs[d] \cup {reindex.new}
      /\ \A k \in Keys : k # d => vecs'[k] = vecs[k]
  <2>1. reindex.new \in Nat
    BY <1>c, Limits DEF Versions
  <2> QED
    BY <1>a, <1>1, <1>2, <2>1 DEF LifecycleTypes
<1>6. ReindexOK'
  BY <1>b, <1>2, <1>3, <1>4 DEF LifecycleInv, ReindexOK
<1>7. ASSUME NEW k \in Keys, PlanOK(reindex, k, manifest[k], vecs[k])
      PROVE  PlanOK(x, k, manifest[k], vecs'[k])
  BY <1>b, <1>1, <1>4, <1>5, <1>7 DEF PlanOK
<1> QED
  BY <1>2, <1>4, <1>5, <1>6, <1>7, ReindexMoves

LEMMA UpdateManifestVersionInv ==
    ASSUME LifecycleInv, UpdateManifestVersion
    PROVE  LifecycleInv'
<1> DEFINE d == NextDoc
           old == reindex.read
           n == reindex.new
           e == [old EXCEPT !.version = n]
           x == [reindex EXCEPT !.at = "process", !.left = @ \ {d}, !.read = NoEntry]
<1>a. LifecycleTypes /\ reindex.at = "update"
  BY DEF LifecycleInv, UpdateManifestVersion
<1>b. reindex \in Reindexes /\ reindex.left \subseteq Keys /\ n \in Versions /\ old \in Entries
  BY <1>a, CallFields
<1>c. old.state # "absent" /\ reindex.left # {} /\ n = reindex.old + 1
  BY <1>a DEF LifecycleInv, ReindexOK
<1>1. d \in Keys /\ d = CHOOSE j \in reindex.left : TRUE
  BY <1>b, <1>c DEF NextDoc
<1>2. /\ manifest' = [manifest EXCEPT ![d] = e] /\ reindex' = x
      /\ UNCHANGED <<bucket, epoch, sync, manager, vecs, misses>>
      /\ stale \subseteq stale' /\ (d \notin stale' => d \notin stale /\ manifest[d] = old)
  BY DEF UpdateManifestVersion, Upsert
<1> HIDE DEF d
<1>3. x \in Reindexes /\ x.at = "process" /\ x.plan = reindex.plan /\ x.left = reindex.left \ {d}
      /\ x.old = reindex.old /\ x.new = n
  BY <1>b, NoEntryType DEF Reindexes
<1> HIDE DEF old, n
<1>4. e \in Entries /\ e.count = old.count /\ e.state = old.state /\ e.version = n
  BY <1>b, WithVersion
<1> HIDE DEF e, x
<1>5. LifecycleTypes'
  <2>1. manifest' \in [Keys -> Entries]
    BY <1>a, <1>2, <1>4 DEF LifecycleTypes
  <2> QED
    BY <2>1, <1>a, <1>2, <1>3 DEF LifecycleTypes
<1>6. OneRun' /\ EpochsInStep' /\ CopyOK'
  BY <1>2 DEF LifecycleInv, OneRun, EpochsInStep, CopyOK
<1>7. ReindexOK'
  BY <1>c, <1>2, <1>3 DEF ReindexOK
<1>8. ASSUME NEW k \in Keys, k \notin stale' PROVE KeyOK(k)'
  <2>1. KeyOK(k)
    BY <1>2, <1>8 DEF LifecycleInv
  <2>2. CASE k # d
    <3>1. manifest'[k] = manifest[k]
      BY <1>a, <1>2, <2>2 DEF LifecycleTypes
    <3>2. PlanOK(x, k, manifest[k], vecs[k])
      BY <1>a, <1>3, <2>1, <2>2 DEF PlanOK, KeyOK, n
    <3> QED
      BY <1>2, <2>1, <3>1, <3>2 DEF KeyOK
  <2>3. CASE k = d
    <3>1. manifest'[d] = e /\ manifest[d] = old
      BY <1>a, <1>1, <1>2, <1>8, <2>3 DEF LifecycleTypes
    <3>2. CountOK(old, misses[d]) /\ PlanOK(reindex, d, old, vecs[d])
          /\ \A o \in Runners : RunOK(sync[o], d, old, misses[d])
      BY <2>1, <2>3, <3>1 DEF KeyOK
    <3>3. CountOK(e, misses[d])
      BY <1>4, <3>2 DEF CountOK
    <3>4. \A o \in Runners : RunOK(sync[o], d, e, misses[d])
      BY <1>4, <3>2 DEF RunOK
    <3>5. PlanOK(x, d, e, vecs[d])
      BY <1>a, <1>c, <1>1, <1>3, <1>4, <3>2 DEF PlanOK, n
    <3> QED
      BY <1>2, <2>3, <3>1, <3>3, <3>4, <3>5 DEF KeyOK
  <2> QED
    BY <2>2, <2>3
<1> QED
  BY <1>5, <1>6, <1>7, <1>8 DEF LifecycleInv

LEMMA EndReindexInv ==
    ASSUME LifecycleInv, NEW ok \in BOOLEAN, EndReindex(ok)
    PROVE  LifecycleInv'
<1> DEFINE x == [reindex EXCEPT !.at = "done", !.left = {}]
<1>a. LifecycleTypes /\ reindex.at = "process" /\ (ok => reindex.left = {})
  BY DEF LifecycleInv, EndReindex, Succeeded
<1>b. reindex \in Reindexes /\ reindex.new = reindex.old + 1 /\ reindex.old \in Nat
  BY <1>a, CallFields, Limits DEF LifecycleInv, ReindexOK, Versions
<1>c. UNCHANGED <<bucket, manifest, epoch, sync, manager, misses, stale>>
  BY DEF EndReindex
<1>1. CASE ok
  <2>1. vecs' = [k \in Keys |-> vecs[k] \ {reindex.old}] /\ reindex' = x
    BY <1>1 DEF EndReindex
  <2>2. x \in Reindexes /\ x.at = "done" /\ x.plan = reindex.plan /\ x.left = {}
        /\ x.old = reindex.old /\ x.new = reindex.new
    BY <1>b DEF Reindexes
  <2> HIDE DEF x
  <2>3. ReindexOK'
    BY <1>b, <2>1, <2>2 DEF ReindexOK
  <2>4. vecs' \in [Keys -> SUBSET Nat]
    BY <1>a, <2>1 DEF LifecycleTypes
  <2>5. ASSUME NEW k \in Keys, PlanOK(reindex, k, manifest[k], vecs[k])
        PROVE  PlanOK(x, k, manifest[k], vecs'[k])
    <3>1. vecs'[k] = vecs[k] \ {reindex.old}
      BY <2>1
    <3> QED
      BY <1>a, <1>b, <1>1, <2>2, <2>5, <3>1 DEF PlanOK
  <2> QED
    BY <1>c, <2>1, <2>2, <2>3, <2>4, <2>5, ReindexMoves
<1>2. CASE ~ok
  <2>1. vecs' = vecs /\ reindex' = NoCall /\ NoCall.at = "idle"
    BY <1>2 DEF EndReindex, NoCall
  <2>2. ReindexOK' /\ vecs' \in [Keys -> SUBSET Nat]
    BY <1>a, <2>1 DEF ReindexOK, LifecycleTypes
  <2>3. \A k \in Keys : PlanOK(NoCall, k, manifest[k], vecs'[k])
    BY <2>1 DEF PlanOK
  <2> QED
    BY <1>c, <2>1, <2>2, <2>3, ReindexMoves
<1> QED
  BY <1>1, <1>2

LEMMA LifecycleNextInv ==
    ASSUME LifecycleInv, [LifecycleNext]_lifecycleVars
    PROVE  LifecycleInv'
<1>1. CASE UNCHANGED lifecycleVars
  BY <1>1, LifecycleStutter
<1>2. CASE LifecycleNext
  BY <1>2, UploadedInv, StartSyncInv, SeeKeyInv, MissKeyInv, FinishSyncInv, HandleMissingInv,
     ScheduleHardDeleteInv, RecoverDocumentInv, ManagerWritesInv, RipenInv, ListHardDeletesInv,
     HardDeleteInv, PlanReindexInv, ProcessDocumentInv, UpdateManifestVersionInv, EndReindexInv
     DEF LifecycleNext
<1> QED
  BY <1>1, <1>2

LEMMA LifecycleInvSound == LifecycleInv => LifecycleSound
<1> SUFFICES ASSUME LifecycleInv PROVE LifecycleSound
  OBVIOUS
<1>1. CountsMisses
  BY DEF LifecycleInv, KeyOK, CountOK, CountsMisses
<1>2. EpochsInStep
  BY DEF LifecycleInv
<1>3. PlannedIsSearchable
  <2> SUFFICES ASSUME reindex.at = "done", NEW k \in reindex.plan \ stale
               PROVE  manifest[k].version \in vecs[k]
    BY DEF PlannedIsSearchable
  <2>1. k \in Keys /\ reindex.left = {}
    BY CallFields DEF LifecycleInv, ReindexOK
  <2>2. PlanOK(reindex, k, manifest[k], vecs[k])
    BY <2>1 DEF LifecycleInv, KeyOK
  <2> QED
    BY <2>1, <2>2 DEF PlanOK
<1> QED
  BY <1>1, <1>2, <1>3 DEF LifecycleSound

(* No document is confirmed missing before as many listings as the         *)
(* threshold says have missed it in a row, the epoch a run commits is the  *)
(* one it stamped, and every document of a finished reindex has vectors of *)
(* the version its entry names, for any keys, runners and threshold: what  *)
(* execute_sync's run lock and the manifest's write_lock are for, short of *)
(* the entries a get and a later upsert overwrite.                         *)
THEOREM LifecycleAlwaysSound == LifecycleSpec => []LifecycleSound
<1>1. LifecycleInv /\ [LifecycleNext]_lifecycleVars => LifecycleInv'
  BY LifecycleNextInv
<1> QED
  BY <1>1, LifecycleInitInv, LifecycleInvSound, PTL DEF LifecycleSpec

-----------------------------------------------------------------------------
(* The ingestion.  AckedIsIngested is about messages that were answered;   *)
(* what makes it hold is said of the marks, in memory and on disk, and of  *)
(* the message in hand: a mark belongs to a document that is ingested or   *)
(* excused, or to the one in hand, and what the message has behind it is   *)
(* settled unless one of its documents has failed.                         *)

NoRepeats(s) == \A i, j \in DOMAIN s : s[i] = s[j] => i = j
Stages == {"next", "parsing", "embedding", "inserting", "undo", "completed"}
Works == [msg : Messages, left : Seq(Docs), doc : Docs \cup {Nothing}, stage : Stages,
          attempt : Nat, failed : BOOLEAN]
Amounts == {"none", "partial", "all"}

PipelineTypes ==
    /\ queue \in [Messages -> [at : {"pending", "inflight", "acked", "terminated"}, deliveries : Nat]]
    /\ work \in {Idle} \cup Works
    /\ marks \in Seq(Docs) /\ marksDb \in Seq(Docs)
    /\ docState \in [Docs -> {"none", "queued", "failed"} \cup Stages]
    /\ vectors \in [Docs -> Amounts]

DocSettled(v, x, d) == v[d] = "all" \/ d \in x
DocInHand(w, d) == w # Idle /\ w.stage # "next" /\ w.doc = d

WorkOK(w, q, v, x) ==
    w # Idle =>
        /\ q[w.msg].at \in {"pending", "inflight"}
        /\ w.stage # "next" => w.left # <<>> /\ w.doc = Head(w.left)
        /\ w.stage = "completed" => v[w.doc] = "all"
        /\ w.failed \/ \A d \in Range(DocsOf[w.msg]) : DocSettled(v, x, d) \/ d \in Range(w.left)

(* The marks of a set, in memory or on disk.                               *)
MarksOK(S, w, v, x) == \A d \in S : DocSettled(v, x, d) \/ DocInHand(w, d)

StoreOK(s) == NoRepeats(s) /\ MarksOK(Range(s), work, vectors, excused)

PipelineInv ==
    /\ PipelineTypes /\ PipelineAccounted
    /\ WorkOK(work, queue, vectors, excused)
    /\ StoreOK(marks) /\ StoreOK(marksDb) /\ Len(marks) <= MaxMarks

-----------------------------------------------------------------------------
LEMMA PipelineLimits ==
    /\ MaxDeliver \in Nat \ {0} /\ MaxMarks \in Nat \ {0}
    /\ DocsOf \in [Messages -> Seq(Docs)] /\ Nothing \notin Messages
BY PipelineAssumption

LEMMA FrontOf ==
    ASSUME NEW S, NEW s \in Seq(S), s # <<>>
    PROVE  /\ Head(s) \in S /\ Tail(s) \in Seq(S) /\ Range(s) = {Head(s)} \cup Range(Tail(s))
           /\ NoRepeats(s) => NoRepeats(Tail(s))
           /\ Len(Tail(s)) = Len(s) - 1 /\ Len(s) > 0
<1>1. Len(s) \in Nat /\ Len(s) > 0 /\ DOMAIN s = 1 .. Len(s) /\ Head(s) = s[1]
  OBVIOUS
<1>2. Tail(s) \in Seq(S) /\ Len(Tail(s)) = Len(s) - 1 /\ \A i \in 1 .. Len(s) - 1 : Tail(s)[i] = s[i + 1]
  OBVIOUS
<1>3. DOMAIN Tail(s) = 1 .. Len(s) - 1
  BY <1>1, <1>2
<1>4. Range(s) = {Head(s)} \cup Range(Tail(s))
  <2>1. ASSUME NEW i \in DOMAIN s PROVE i = 1 \/ (i - 1 \in DOMAIN Tail(s) /\ Tail(s)[i - 1] = s[i])
    BY <1>1, <1>2, <1>3
  <2>2. ASSUME NEW i \in DOMAIN Tail(s) PROVE i + 1 \in DOMAIN s /\ Tail(s)[i] = s[i + 1]
    BY <1>1, <1>2, <1>3
  <2>3. 1 \in DOMAIN s
    BY <1>1
  <2>4. ASSUME NEW x \in Range(s) PROVE x \in {Head(s)} \cup Range(Tail(s))
    <3>1. PICK i \in DOMAIN s : x = s[i]
      BY DEF Range
    <3> QED
      BY <1>1, <2>1, <3>1 DEF Range
  <2>5. ASSUME NEW x \in Range(Tail(s)) PROVE x \in Range(s)
    BY <2>2 DEF Range
  <2>6. Head(s) \in Range(s)
    BY <1>1, <2>3 DEF Range
  <2> QED
    BY <2>4, <2>5, <2>6
<1>5. NoRepeats(s) => NoRepeats(Tail(s))
  <2> SUFFICES ASSUME NoRepeats(s), NEW i \in DOMAIN Tail(s), NEW j \in DOMAIN Tail(s), Tail(s)[i] = Tail(s)[j]
               PROVE  i = j
    BY DEF NoRepeats
  <2>1. i + 1 \in DOMAIN s /\ j + 1 \in DOMAIN s /\ s[i + 1] = s[j + 1]
    BY <1>1, <1>2, <1>3
  <2>2. i + 1 = j + 1
    BY <2>1 DEF NoRepeats
  <2> QED
    BY <1>3, <2>2
<1>6. Head(s) \in S
  BY <1>1
<1> QED
  BY <1>1, <1>2, <1>4, <1>5, <1>6

LEMMA AppendOf ==
    ASSUME NEW S, NEW s \in Seq(S), NEW e \in S
    PROVE  /\ Append(s, e) \in Seq(S) /\ Range(Append(s, e)) = Range(s) \cup {e}
           /\ NoRepeats(s) /\ e \notin Range(s) => NoRepeats(Append(s, e))
           /\ Len(Append(s, e)) = Len(s) + 1
<1> DEFINE a == Append(s, e)
<1>1. /\ a \in Seq(S) /\ Len(s) \in Nat /\ Len(a) = Len(s) + 1 /\ DOMAIN s = 1 .. Len(s)
      /\ DOMAIN a = 1 .. Len(s) + 1 /\ a[Len(s) + 1] = e /\ \A i \in 1 .. Len(s) : a[i] = s[i]
  OBVIOUS
<1> HIDE DEF a
<1>2. ASSUME NEW i \in DOMAIN a PROVE (i \in DOMAIN s /\ a[i] = s[i]) \/ (i = Len(s) + 1 /\ a[i] = e)
  BY <1>1
<1>3. \A i \in DOMAIN s : i \in DOMAIN a /\ a[i] = s[i]
  BY <1>1
<1>4. Len(s) + 1 \in DOMAIN a
  BY <1>1
<1>5. Range(a) = Range(s) \cup {e}
  BY <1>1, <1>2, <1>3, <1>4 DEF Range
<1>6. NoRepeats(s) /\ e \notin Range(s) => NoRepeats(a)
  BY <1>2 DEF NoRepeats, Range
<1> QED
  BY <1>1, <1>5, <1>6 DEF a

(* A sequence without its p-th element.                                    *)
LEMMA OneLess ==
    ASSUME NEW S, NEW s \in Seq(S), NEW p \in 1 .. Len(s)
    PROVE  /\ RemoveAt(s, p) \in Seq(S) /\ Len(RemoveAt(s, p)) = Len(s) - 1
           /\ \A j \in 1 .. Len(s) - 1 : RemoveAt(s, p)[j] = IF j < p THEN s[j] ELSE s[j + 1]
<1> DEFINE n == Len(s)
           a == SubSeq(s, 1, p - 1)
           b == SubSeq(s, p + 1, n)
<1>1. n \in Nat /\ p \in Nat /\ p - 1 \in Int /\ p + 1 \in Int /\ 1 <= p /\ p <= n /\ \A i \in 1 .. n : s[i] \in S
  OBVIOUS
<1> HIDE DEF n
<1>2. a \in Seq(S) /\ Len(a) = (IF 1 <= p - 1 THEN p - 1 - 1 + 1 ELSE 0) /\ \A j \in 1 .. p - 1 - 1 + 1 : a[j] = s[1 + j - 1]
  <2>1. \A i \in 1 .. p - 1 : s[i] \in S
    BY <1>1
  <2> QED
    BY <1>1, <2>1, SubSeqProperties
<1>3. Len(a) = p - 1 /\ \A j \in 1 .. p - 1 : a[j] = s[j]
  <2> HIDE DEF a
  <2> QED
    BY <1>1, <1>2
<1>4. b \in Seq(S) /\ Len(b) = (IF p + 1 <= n THEN n - (p + 1) + 1 ELSE 0)
      /\ \A j \in 1 .. n - (p + 1) + 1 : b[j] = s[p + 1 + j - 1]
  <2>1. \A i \in p + 1 .. n : s[i] \in S
    BY <1>1
  <2> QED
    BY <1>1, <2>1, SubSeqProperties
<1>5. Len(b) = n - p /\ \A j \in 1 .. n - p : b[j] = s[p + j]
  <2> HIDE DEF b
  <2> QED
    BY <1>1, <1>4
<1>6. RemoveAt(s, p) = a \o b
  BY DEF RemoveAt, n
<1> HIDE DEF a, b
<1>7. /\ a \o b \in Seq(S) /\ Len(a \o b) = Len(a) + Len(b)
      /\ \A j \in 1 .. Len(a) + Len(b) : (a \o b)[j] = IF j <= Len(a) THEN a[j] ELSE b[j - Len(a)]
  BY <1>2, <1>4, ConcatProperties
<1>8. ASSUME NEW j \in 1 .. n - 1 PROVE (a \o b)[j] = IF j < p THEN s[j] ELSE s[j + 1]
  <2>1. j \in 1 .. Len(a) + Len(b)
    BY <1>1, <1>3, <1>5
  <2>2. CASE j < p
    <3>1. j <= Len(a) /\ j \in 1 .. p - 1
      BY <1>1, <1>3, <2>2
    <3> QED
      BY <1>3, <1>7, <2>1, <2>2, <3>1
  <2>3. CASE ~(j < p)
    <3>1. ~(j <= Len(a)) /\ j - Len(a) \in 1 .. n - p /\ p + (j - Len(a)) = j + 1
      BY <1>1, <1>3, <2>3
    <3> QED
      BY <1>5, <1>7, <2>1, <2>3, <3>1
  <2> QED
    BY <2>2, <2>3
<1>9. Len(a \o b) = n - 1
  BY <1>1, <1>3, <1>5, <1>7
<1> QED
  BY <1>6, <1>7, <1>8, <1>9 DEF n

LEMMA UnmarkedOf ==
    ASSUME NEW S, NEW s \in Seq(S), NEW e, NoRepeats(s)
    PROVE  LET r == Unmarked(s, e) IN
           /\ r \in Seq(S) /\ Range(r) = Range(s) \ {e} /\ NoRepeats(r) /\ Len(r) <= Len(s)
<1> DEFINE I == {i \in 1 .. Len(s) : s[i] = e}
           p == Min(I)
           n == Len(s)
           r == RemoveAt(s, p)
<1>0. n \in Nat /\ DOMAIN s = 1 .. n
  OBVIOUS
<1>1. CASE I = {}
  <2>1. Unmarked(s, e) = s
    BY <1>1 DEF Unmarked, RemoveFirst
  <2>2. e \notin Range(s)
    BY <1>0, <1>1 DEF Range
  <2> QED
    BY <1>0, <2>1, <2>2
<1>2. CASE I # {}
  <2>1. p \in I
    <3>1. I \in SUBSET Nat
      BY <1>0
    <3> HIDE DEF I
    <3> QED
      BY <1>2, <3>1, LeastShard
  <2> HIDE DEF p
  <2>2. p \in 1 .. n /\ s[p] = e
    BY <2>1
  <2>3. Unmarked(s, e) = r
    <3>1. SelectInSeq(s, LAMBDA v : v = e) = p
      BY <1>2 DEF SelectInSeq, p
    <3> QED
      BY <1>2, <3>1 DEF Unmarked, RemoveFirst
  <2>4. /\ r \in Seq(S) /\ Len(r) = n - 1
        /\ \A j \in 1 .. n - 1 : r[j] = IF j < p THEN s[j] ELSE s[j + 1]
    BY <2>2, OneLess
  <2> HIDE DEF r
  <2>5. DOMAIN r = 1 .. n - 1
    BY <1>0, <2>4
  <2> DEFINE at(j) == IF j < p THEN j ELSE j + 1
  <2>6. ASSUME NEW j \in DOMAIN r PROVE at(j) \in DOMAIN s /\ at(j) # p /\ r[j] = s[at(j)]
    BY <1>0, <2>2, <2>4, <2>5
  <2>7. ASSUME NEW j \in DOMAIN r, NEW k \in DOMAIN r, at(j) = at(k) PROVE j = k
    BY <1>0, <2>2, <2>5, <2>7
  <2>8. ASSUME NEW i \in DOMAIN s, i # p PROVE \E j \in DOMAIN r : at(j) = i
    <3>1. CASE i < p
      BY <1>0, <2>2, <2>5, <3>1
    <3>2. CASE i > p
      <4>1. i - 1 \in DOMAIN r /\ at(i - 1) = i
        BY <1>0, <2>2, <2>5, <3>2
      <4> QED
        BY <4>1
    <3> QED
      BY <1>0, <2>2, <2>8, <3>1, <3>2
  <2> HIDE DEF at
  <2>9. NoRepeats(r)
    BY <2>6, <2>7 DEF NoRepeats
  <2>10. Range(r) = Range(s) \ {e}
    <3>1. ASSUME NEW j \in DOMAIN r PROVE r[j] \in Range(s) \ {e}
      <4>1. s[at(j)] # e
        BY <1>0, <2>2, <2>6 DEF NoRepeats
      <4> QED
        BY <2>6, <4>1 DEF Range
    <3>2. ASSUME NEW i \in DOMAIN s, s[i] # e PROVE s[i] \in Range(r)
      <4>1. PICK j \in DOMAIN r : at(j) = i
        BY <2>2, <2>8, <3>2
      <4> QED
        BY <2>6, <4>1 DEF Range
    <3> QED
      BY <3>1, <3>2 DEF Range
  <2> QED
    BY <1>0, <2>3, <2>4, <2>9, <2>10
<1> QED
  BY <1>1, <1>2

LEMMA NewestOf ==
    ASSUME NEW S, NEW s \in Seq(S), NoRepeats(s)
    PROVE  LET r == Newest(s) IN
           r \in Seq(S) /\ Range(r) \subseteq Range(s) /\ NoRepeats(r) /\ Len(r) <= MaxMarks
<1> DEFINE n == Len(s)
           r == SubSeq(s, n - MaxMarks + 1, n)
<1>0. n \in Nat /\ DOMAIN s = 1 .. n /\ MaxMarks \in Nat \ {0}
  BY PipelineLimits
<1>1. CASE n > MaxMarks
  <2>1. Newest(s) = r
    BY <1>1 DEF Newest
  <2>2. n - MaxMarks + 1 \in 1 .. n
    BY <1>0, <1>1
  <2>3. r \in Seq(S) /\ Len(r) = MaxMarks /\ \A j \in 1 .. MaxMarks : r[j] = s[n - MaxMarks + j]
    BY <1>0, <1>1, <2>2
  <2> HIDE DEF r
  <2>4. DOMAIN r = 1 .. MaxMarks
    BY <1>0, <2>3
  <2>5. ASSUME NEW j \in DOMAIN r PROVE n - MaxMarks + j \in DOMAIN s /\ r[j] = s[n - MaxMarks + j]
    BY <1>0, <1>1, <2>3, <2>4
  <2>6. Range(r) \subseteq Range(s)
    BY <2>5 DEF Range
  <2>7. NoRepeats(r)
    <3> SUFFICES ASSUME NEW i \in DOMAIN r, NEW j \in DOMAIN r, r[i] = r[j] PROVE i = j
      BY DEF NoRepeats
    <3>1. n - MaxMarks + i = n - MaxMarks + j
      BY <2>5 DEF NoRepeats
    <3> QED
      BY <1>0, <2>4, <3>1
  <2> QED
    BY <1>0, <2>1, <2>3, <2>6, <2>7
<1>2. CASE ~(n > MaxMarks)
  BY <1>0, <1>2 DEF Newest
<1> QED
  BY <1>1, <1>2

LEMMA WorkFields ==
    ASSUME PipelineTypes, Busy
    PROVE  /\ work \in Works /\ work.msg \in Messages /\ work.left \in Seq(Docs)
           /\ work.stage \in Stages /\ work.attempt \in Nat /\ work.failed \in BOOLEAN
BY DEF PipelineTypes, Busy, Works

LEMMA IdleFields == Idle.msg = Nothing
BY DEF Idle

LEMMA WorkIsBusy == ASSUME NEW w \in Works PROVE w # Idle /\ w.msg \in Messages
BY PipelineLimits DEF Works, Idle

-----------------------------------------------------------------------------
(* What is settled stays settled.                                          *)
LEMMA SettledStays ==
    ASSUME PipelineInv, \A d \in Docs : vectors[d] = "all" => vectors'[d] = "all", excused \subseteq excused'
    PROVE  /\ \A d \in Docs : DocSettled(vectors, excused, d) => DocSettled(vectors', excused', d)
           /\ \A m \in Messages : Range(DocsOf[m]) \subseteq Docs
           /\ Range(marks) \subseteq Docs /\ Range(marksDb) \subseteq Docs
<1>1. \A s \in Seq(Docs) : Range(s) \subseteq Docs
  BY DEF Range
<1>2. \A m \in Messages : DocsOf[m] \in Seq(Docs)
  BY PipelineLimits
<1> QED
  BY <1>1, <1>2 DEF DocSettled, PipelineInv, PipelineTypes

(* The steps of the process on the message in hand, up to its answer.      *)
LEMMA WorkMoves ==
    ASSUME PipelineInv, Busy, UNCHANGED <<queue, deadLetters>>, PipelineTypes',
           work' \in Works, work'.msg = work.msg, work'.attempt = work.attempt,
           \A d \in Docs : vectors[d] = "all" => vectors'[d] = "all", excused \subseteq excused',
           CompletedIsInserted', WorkOK(work, queue, vectors, excused)',
           StoreOK(marks)', StoreOK(marksDb)', Len(marks') <= MaxMarks
    PROVE  PipelineInv'
<1>1. AckedIsIngested'
  <2>1. AckedIsIngested
    BY DEF PipelineInv, PipelineAccounted
  <2> QED
    BY <2>1, SettledStays DEF AckedIsIngested, DocSettled
<1>2. DroppedIsRecorded'
  <2>1. DroppedIsRecorded
    BY DEF PipelineInv, PipelineAccounted
  <2> QED
    BY <2>1 DEF DroppedIsRecorded
<1> QED
  BY <1>1, <1>2 DEF PipelineInv, PipelineAccounted

LEMMA SkipOf ==
    ASSUME PipelineInv, Busy, work.left # <<>>, NEW ok \in BOOLEAN
    PROVE  LET w == Skip(ok) IN
           /\ w \in Works /\ w # Idle /\ w.msg = work.msg /\ w.attempt = work.attempt
           /\ w.left = Tail(work.left) /\ w.stage = "next" /\ (w.failed <=> work.failed \/ ~ok)
           /\ Head(work.left) \in Docs
           /\ Range(work.left) = {Head(work.left)} \cup Range(w.left)
<1> DEFINE t == Tail(work.left)
           f == work.failed \/ ~ok
           w == [work EXCEPT !.left = t, !.doc = Nothing, !.stage = "next", !.failed = f]
<1>1. work \in Works /\ work.left \in Seq(Docs) /\ work.failed \in BOOLEAN
  BY WorkFields DEF PipelineInv
<1>2. t \in Seq(Docs) /\ Head(work.left) \in Docs /\ Range(work.left) = {Head(work.left)} \cup Range(t)
  BY <1>1, FrontOf
<1>3. f \in BOOLEAN /\ Skip(ok) = w
  BY <1>1 DEF Skip
<1> HIDE DEF t, f
<1>4. w \in Works /\ w.msg = work.msg /\ w.attempt = work.attempt /\ w.left = t /\ w.stage = "next" /\ w.failed = f
  BY <1>1, <1>2, <1>3 DEF Works, Stages
<1>5. w # Idle
  BY <1>4, WorkIsBusy
<1> HIDE DEF w
<1> QED
  BY <1>2, <1>3, <1>4, <1>5 DEF t, f

(* A document is done with: its marks are settled, or gone.                *)
LEMMA Skipped ==
    ASSUME PipelineInv, Busy, work.left # <<>>, NEW ok \in BOOLEAN, work' = Skip(ok),
           UNCHANGED <<queue, docState, vectors, deadLetters>>, excused \subseteq excused',
           ok => DocSettled(vectors, excused', Head(work.left)),
           marks' \in Seq(Docs), marksDb' \in Seq(Docs), NoRepeats(marks'), NoRepeats(marksDb'),
           \A d \in Range(marks') \cup Range(marksDb') : DocSettled(vectors, excused', d),
           Len(marks') <= MaxMarks
    PROVE  PipelineInv'
<1> DEFINE w == Skip(ok)
<1>1. /\ w \in Works /\ w # Idle /\ w.msg = work.msg /\ w.attempt = work.attempt
      /\ w.left = Tail(work.left) /\ w.stage = "next" /\ (w.failed <=> work.failed \/ ~ok)
      /\ Range(work.left) = {Head(work.left)} \cup Range(w.left)
  BY SkipOf
<1>2. work' = w
  OBVIOUS
<1> HIDE DEF w
<1>3. PipelineTypes'
  BY <1>1, <1>2 DEF PipelineInv, PipelineTypes
<1>4. \A d : DocSettled(vectors, excused, d) => DocSettled(vectors, excused', d)
  BY DEF DocSettled
<1>5. WorkOK(w, queue, vectors, excused')
  <2>1. WorkOK(work, queue, vectors, excused)
    BY DEF PipelineInv
  <2>2. ASSUME ~w.failed, NEW d \in Range(DocsOf[w.msg])
        PROVE  DocSettled(vectors, excused', d) \/ d \in Range(w.left)
    <3>1. ~work.failed /\ ok
      BY <1>1, <2>2
    <3>2. DocSettled(vectors, excused, d) \/ d \in Range(work.left)
      BY <1>1, <2>1, <2>2, <3>1 DEF WorkOK, Busy
    <3> QED
      BY <1>1, <1>4, <3>1, <3>2
  <2> QED
    BY <1>1, <2>1, <2>2 DEF WorkOK, Busy
<1>6. StoreOK(marks)' /\ StoreOK(marksDb)'
  BY DEF StoreOK, MarksOK
<1>7. CompletedIsInserted'
  BY DEF PipelineInv, PipelineAccounted, CompletedIsInserted
<1> QED
  BY <1>1, <1>2, <1>3, <1>5, <1>6, <1>7, WorkMoves

LEMMA FetchFailsInv == ASSUME PipelineInv, FetchFails PROVE PipelineInv'
<1>1. \A d \in Range(marks) \cup Range(marksDb) : DocSettled(vectors, excused, d)
  BY DEF FetchFails, Stage, PipelineInv, StoreOK, MarksOK, DocInHand
<1> QED
  BY <1>1, Skipped DEF FetchFails, PipelineInv, PipelineTypes, StoreOK

LEMMA DuplicateInv == ASSUME PipelineInv, Duplicate PROVE PipelineInv'
<1>1. \A d \in Range(marks) \cup Range(marksDb) : DocSettled(vectors, excused, d)
  BY DEF Duplicate, Stage, PipelineInv, StoreOK, MarksOK, DocInHand
<1> QED
  BY <1>1, Skipped DEF Duplicate, Marked, PipelineInv, PipelineTypes, StoreOK

LEMMA EndEventInv == ASSUME PipelineInv, EndEvent PROVE PipelineInv'
<1>1. work.left # <<>> /\ work.doc = Head(work.left) /\ vectors[work.doc] = "all"
  BY DEF EndEvent, Stage, Busy, PipelineInv, WorkOK
<1>2. \A d \in Range(marks) \cup Range(marksDb) : DocSettled(vectors, excused, d)
  BY <1>1 DEF PipelineInv, StoreOK, MarksOK, DocInHand, DocSettled
<1>3. DocSettled(vectors, excused, Head(work.left))
  BY <1>1 DEF DocSettled
<1> QED
  BY <1>1, <1>2, <1>3, Skipped DEF EndEvent, PipelineInv, PipelineTypes, StoreOK

LEMMA UndoInv == ASSUME PipelineInv, NEW written \in BOOLEAN, Undo(written) PROVE PipelineInv'
<1> DEFINE d == work.doc
<1>1. work.left # <<>> /\ d = Head(work.left) /\ Busy
  BY DEF Undo, Stage, Busy, PipelineInv, WorkOK
<1>2. marks \in Seq(Docs) /\ marksDb \in Seq(Docs) /\ NoRepeats(marks) /\ NoRepeats(marksDb)
  BY DEF PipelineInv, PipelineTypes, StoreOK
<1>3. marks' = Unmarked(marks, d) /\ marksDb' = (IF written THEN Unmarked(marksDb, d) ELSE marksDb)
      /\ excused' = (IF written THEN excused ELSE excused \cup {d})
      /\ work' = Skip(FALSE) /\ UNCHANGED <<queue, docState, vectors, deadLetters>>
  BY DEF Undo
<1>4. \A e \in Range(marks) \cup Range(marksDb) : e = d \/ DocSettled(vectors, excused, e)
  BY DEF PipelineInv, StoreOK, MarksOK, DocInHand
<1> HIDE DEF d
<1>5. /\ marks' \in Seq(Docs) /\ Range(marks') = Range(marks) \ {d} /\ NoRepeats(marks')
      /\ Len(marks') <= Len(marks)
  BY <1>2, <1>3, UnmarkedOf
<1>6. marksDb' \in Seq(Docs) /\ NoRepeats(marksDb')
      /\ Range(marksDb') = IF written THEN Range(marksDb) \ {d} ELSE Range(marksDb)
  BY <1>2, <1>3, UnmarkedOf
<1>7. \A e \in Range(marks') \cup Range(marksDb') : DocSettled(vectors, excused', e)
  BY <1>3, <1>4, <1>5, <1>6 DEF DocSettled
<1>8. Len(marks') <= MaxMarks
  <2>1. Len(marks) \in Nat /\ Len(marks') \in Nat /\ Len(marks) <= MaxMarks /\ MaxMarks \in Nat
    BY <1>2, <1>5, PipelineLimits DEF PipelineInv
  <2> QED
    BY <1>5, <2>1
<1>9. excused \subseteq excused'
  BY <1>3
<1> QED
  BY <1>1, <1>3, <1>5, <1>6, <1>7, <1>8, <1>9, Skipped

LEMMA CheckAndMarkInv ==
    ASSUME PipelineInv, NEW deleted \in BOOLEAN, NEW inserted \in BOOLEAN, CheckAndMark(deleted, inserted)
    PROVE  PipelineInv'
<1> DEFINE d == Head(work.left)
           base == IF Full THEN Tail(marks) ELSE marks
           kept == IF Full /\ deleted THEN Unmarked(marksDb, Head(marks)) ELSE marksDb
           w == [work EXCEPT !.doc = d, !.stage = "parsing"]
<1>1. Busy /\ work.stage = "next" /\ work.left # <<>> /\ d \notin Range(marks)
  BY DEF CheckAndMark, Stage, Marked
<1>2. /\ marks' = Append(base, d) /\ work' = w /\ docState' = [docState EXCEPT ![d] = "queued"]
      /\ marksDb' = (IF inserted /\ d \notin Range(kept) THEN Append(kept, d) ELSE kept)
      /\ UNCHANGED <<queue, vectors, deadLetters, excused>>
  BY DEF CheckAndMark
<1>3. work \in Works /\ work.left \in Seq(Docs) /\ d \in Docs
  BY <1>1, WorkFields, FrontOf DEF PipelineInv
<1>4. /\ marks \in Seq(Docs) /\ marksDb \in Seq(Docs) /\ NoRepeats(marks) /\ NoRepeats(marksDb)
      /\ Len(marks) <= MaxMarks /\ MaxMarks \in Nat \ {0} /\ Len(marks) \in Nat
  BY PipelineLimits DEF PipelineInv, PipelineTypes, StoreOK
<1>5. /\ base \in Seq(Docs) /\ Range(base) \subseteq Range(marks) /\ NoRepeats(base) /\ Len(base) < MaxMarks
      /\ Len(base) \in Nat
  <2>1. CASE Full
    <3>1. marks # <<>>
      BY <1>4, <2>1 DEF Full
    <3>2. base = Tail(marks)
      BY <2>1
    <3> HIDE DEF base
    <3>3. Tail(marks) \in Seq(Docs) /\ Range(Tail(marks)) \subseteq Range(marks) /\ NoRepeats(Tail(marks))
          /\ Len(Tail(marks)) = Len(marks) - 1 /\ Len(marks) > 0
      BY <1>4, <3>1, FrontOf
    <3> QED
      BY <1>4, <3>2, <3>3
  <2>2. CASE ~Full
    BY <1>4, <2>2 DEF Full
  <2> QED
    BY <2>1, <2>2
<1>6. kept \in Seq(Docs) /\ Range(kept) \subseteq Range(marksDb) /\ NoRepeats(kept)
  <2>1. CASE Full /\ deleted
    <3>1. kept = Unmarked(marksDb, Head(marks))
      BY <2>1
    <3> HIDE DEF kept
    <3> QED
      BY <1>4, <3>1, UnmarkedOf
  <2>2. CASE ~(Full /\ deleted)
    BY <1>4, <2>2
  <2> QED
    BY <2>1, <2>2
<1>7. w \in Works /\ w.msg = work.msg /\ w.attempt = work.attempt /\ w.left = work.left
      /\ w.doc = d /\ w.stage = "parsing" /\ w.failed = work.failed
  BY <1>3 DEF Works, Stages
<1>8. \A e \in Range(marks) \cup Range(marksDb) : DocSettled(vectors, excused, e)
  BY <1>1 DEF PipelineInv, StoreOK, MarksOK, DocInHand
<1>9. w # Idle
  BY <1>7, WorkIsBusy
<1>10. WorkOK(work, queue, vectors, excused)
  BY DEF PipelineInv
<1>d. \A e : DocInHand(w, e) <=> e = d
  BY <1>7, <1>9 DEF DocInHand
<1> HIDE DEF base, kept, w
<1>11. marks' \in Seq(Docs) /\ Range(marks') = Range(base) \cup {d} /\ NoRepeats(marks') /\ Len(marks') = Len(base) + 1
  <2>1. d \notin Range(base)
    BY <1>1, <1>5
  <2> HIDE DEF d
  <2> QED
    BY <1>2, <1>3, <1>5, <2>1, AppendOf
<1>12. marksDb' \in Seq(Docs) /\ Range(marksDb') \subseteq Range(kept) \cup {d} /\ NoRepeats(marksDb')
  <2> HIDE DEF d
  <2>1. CASE inserted /\ d \notin Range(kept)
    BY <1>2, <1>3, <1>6, <2>1, AppendOf
  <2>2. CASE ~(inserted /\ d \notin Range(kept))
    BY <1>2, <1>6, <2>2
  <2> QED
    BY <2>1, <2>2
<1>13. PipelineTypes'
  <2>1. docState' \in [Docs -> {"none", "queued", "failed"} \cup Stages]
    BY <1>2 DEF PipelineInv, PipelineTypes
  <2> QED
    BY <1>2, <1>7, <1>11, <1>12, <2>1 DEF PipelineInv, PipelineTypes
<1>14. WorkOK(w, queue, vectors, excused)
  BY <1>1, <1>7, <1>9, <1>10 DEF WorkOK, Busy
<1>15. MarksOK(Range(marks'), w, vectors, excused) /\ MarksOK(Range(marksDb'), w, vectors, excused)
  BY <1>5, <1>6, <1>8, <1>11, <1>12, <1>d DEF MarksOK
<1>16. StoreOK(marks)' /\ StoreOK(marksDb)'
  BY <1>2, <1>11, <1>12, <1>15 DEF StoreOK
<1>17. CompletedIsInserted'
  <2>1. docState'[d] = "queued" /\ \A e \in Docs : e # d => docState'[e] = docState[e]
    BY <1>2, <1>3 DEF PipelineInv, PipelineTypes
  <2> QED
    BY <1>2, <2>1 DEF PipelineInv, PipelineAccounted, CompletedIsInserted
<1>18. Len(marks') <= MaxMarks
  BY <1>4, <1>5, <1>11
<1> QED
  BY <1>1, <1>2, <1>7, <1>13, <1>14, <1>16, <1>17, <1>18, WorkMoves

(* The document in hand goes on to its next stage.                         *)
LEMMA Advanced ==
    ASSUME PipelineInv, Busy, Stage # "next", NEW to \in {"embedding", "inserting", "completed", "undo"},
           Advance(to), UNCHANGED <<queue, marks, marksDb, deadLetters, excused>>,
           vectors' \in [Docs -> Amounts], \A d \in Docs : vectors[d] = "all" => vectors'[d] = "all",
           to = "completed" => vectors'[work.doc] = "all"
    PROVE  PipelineInv'
<1> DEFINE d == work.doc
           w == [work EXCEPT !.stage = to]
           st == IF to = "undo" THEN "failed" ELSE to
<1>1. work \in Works /\ work.left \in Seq(Docs) /\ work.left # <<>> /\ d = Head(work.left)
  BY WorkFields DEF PipelineInv, WorkOK, Busy, Stage
<1>2. d \in Docs
  BY <1>1, FrontOf
<1>3. work' = w /\ docState' = [docState EXCEPT ![d] = st]
  BY DEF Advance
<1>4. w \in Works /\ w.msg = work.msg /\ w.attempt = work.attempt /\ w.left = work.left
      /\ w.doc = d /\ w.stage = to /\ w.failed = work.failed
  BY <1>1 DEF Works, Stages
<1>5. w # Idle
  BY <1>4, WorkIsBusy
<1>6. st \in {"none", "queued", "failed"} \cup Stages /\ (st = "completed" <=> to = "completed")
  BY DEF Stages
<1>7. \A e : DocInHand(work, e) <=> DocInHand(w, e)
  BY <1>4, <1>5 DEF DocInHand, Busy, Stage
<1> HIDE DEF d, w, st
<1>8. PipelineTypes'
  <2>1. docState' \in [Docs -> {"none", "queued", "failed"} \cup Stages]
    BY <1>3, <1>6 DEF PipelineInv, PipelineTypes
  <2> QED
    BY <1>3, <1>4, <2>1 DEF PipelineInv, PipelineTypes
<1>9. WorkOK(w, queue, vectors', excused)
  <2>1. WorkOK(work, queue, vectors, excused) /\ work # Idle
    BY DEF PipelineInv, Busy
  <2>2. w.failed \/ \A e \in Range(DocsOf[w.msg]) : DocSettled(vectors', excused, e) \/ e \in Range(w.left)
    <3>1. work.msg \in Messages
      BY WorkFields DEF PipelineInv
    <3> QED
      BY <1>4, <2>1, <3>1, SettledStays DEF WorkOK
  <2> QED
    BY <1>1, <1>4, <2>1, <2>2 DEF WorkOK, d
<1>10. StoreOK(marks)' /\ StoreOK(marksDb)'
  <2>1. \A S \in SUBSET Docs : MarksOK(S, work, vectors, excused) => MarksOK(S, w, vectors', excused)
    BY <1>7, SettledStays DEF MarksOK
  <2>2. Range(marks) \in SUBSET Docs /\ Range(marksDb) \in SUBSET Docs
    BY SettledStays
  <2> QED
    BY <1>3, <2>1, <2>2 DEF PipelineInv, StoreOK
<1>11. CompletedIsInserted'
  <2>1. docState'[d] = st /\ \A e \in Docs : e # d => docState'[e] = docState[e]
    BY <1>2, <1>3 DEF PipelineInv, PipelineTypes
  <2>2. ASSUME NEW e \in Docs, docState'[e] = "completed" PROVE vectors'[e] = "all"
    <3>1. CASE e = d
      BY <1>6, <2>1, <2>2, <3>1 DEF d
    <3>2. CASE e # d
      BY <2>1, <2>2, <3>2 DEF PipelineInv, PipelineAccounted, CompletedIsInserted
    <3> QED
      BY <3>1, <3>2
  <2> QED
    BY <2>2 DEF CompletedIsInserted
<1> QED
  BY <1>3, <1>4, <1>8, <1>9, <1>10, <1>11, WorkMoves DEF PipelineInv

LEMMA ParseInv == ASSUME PipelineInv, NEW ok \in BOOLEAN, Parse(ok) PROVE PipelineInv'
BY Advanced DEF Parse, PipelineInv, PipelineTypes, Stage

LEMMA EmbedInv == ASSUME PipelineInv, NEW ok \in BOOLEAN, Embed(ok) PROVE PipelineInv'
BY Advanced DEF Embed, PipelineInv, PipelineTypes, Stage

LEMMA InsertBatchInv ==
    ASSUME PipelineInv, NEW outcome \in InsertOutcomes, NEW kept \in Amounts, InsertBatch(outcome, kept)
    PROVE  PipelineInv'
<1> DEFINE d == work.doc
           v == IF kept = "none" THEN vectors[d] ELSE More(vectors[d], kept)
           to == IF CompleteInsert(outcome) THEN "completed" ELSE "undo"
<1>1. Busy /\ work.stage = "inserting" /\ (outcome # "lost" => kept = outcome)
  BY DEF InsertBatch, Stage
<1>2. vectors' = [vectors EXCEPT ![d] = v] /\ Advance(to)
      /\ UNCHANGED <<queue, marks, marksDb, deadLetters, excused>>
  BY DEF InsertBatch
<1>3. work.left \in Seq(Docs) /\ work.left # <<>> /\ d = Head(work.left)
  BY <1>1, WorkFields DEF PipelineInv, WorkOK, Busy
<1>4. d \in Docs
  BY <1>3, FrontOf
<1>5. vectors \in [Docs -> Amounts]
  BY DEF PipelineInv, PipelineTypes
<1>6. v \in Amounts /\ (vectors[d] = "all" => v = "all") /\ (to = "completed" => v = "all")
  BY <1>1, <1>4, <1>5 DEF More, Amounts, CompleteInsert, InsertOutcomes
<1> HIDE DEF v, d
<1>7. vectors' \in [Docs -> Amounts] /\ vectors'[d] = v /\ \A e \in Docs : e # d => vectors'[e] = vectors[e]
  BY <1>2, <1>4, <1>5, <1>6
<1>8. to \in {"embedding", "inserting", "completed", "undo"}
  OBVIOUS
<1>9. to = "completed" => vectors'[work.doc] = "all"
  BY <1>6, <1>7 DEF d
<1>10. \A e \in Docs : vectors[e] = "all" => vectors'[e] = "all"
  BY <1>6, <1>7
<1> HIDE DEF to
<1> QED
  BY <1>1, <1>2, <1>7, <1>8, <1>9, <1>10, Advanced DEF Stage

-----------------------------------------------------------------------------
(* The queue's steps and the answers.                                      *)

LEMMA PipelineInitInv == PipelineInit => PipelineInv
<1> SUFFICES ASSUME PipelineInit PROVE PipelineInv
  OBVIOUS
<1> USE DEF PipelineInit
<1>1. PipelineTypes
  BY DEF PipelineTypes, Amounts
<1>2. \A m \in Messages : queue[m].at = "pending" /\ queue[m].deliveries = 0
  OBVIOUS
<1>3. PipelineAccounted
  BY <1>2, PipelineLimits DEF PipelineAccounted, AckedIsIngested, CompletedIsInserted, DroppedIsRecorded
<1>4. StoreOK(marks) /\ StoreOK(marksDb) /\ Len(marks) <= MaxMarks
  BY PipelineLimits DEF StoreOK, NoRepeats, MarksOK, Range
<1>5. WorkOK(work, queue, vectors, excused)
  BY DEF WorkOK
<1> QED
  BY <1>1, <1>3, <1>4, <1>5 DEF PipelineInv

LEMMA PipelineStutter == ASSUME PipelineInv, UNCHANGED pipelineVars PROVE PipelineInv'
BY DEF pipelineVars, PipelineInv, PipelineTypes, PipelineAccounted, AckedIsIngested, CompletedIsInserted,
       DroppedIsRecorded, StoreOK

LEMMA CoolInv == ASSUME PipelineInv, Cool PROVE PipelineInv'
BY DEF Cool, PipelineInv, PipelineTypes, PipelineAccounted, AckedIsIngested, CompletedIsInserted,
       DroppedIsRecorded, StoreOK

LEMMA DeliverInv == ASSUME PipelineInv, NEW m \in Messages, Deliver(m) PROVE PipelineInv'
<1> DEFINE n == queue[m].deliveries + 1
           q == [at |-> "inflight", deliveries |-> n]
           w == [msg |-> m, left |-> DocsOf[m], doc |-> Nothing, stage |-> "next", attempt |-> n, failed |-> FALSE]
<1>1. work = Idle /\ queue[m].at = "pending" /\ queue' = [queue EXCEPT ![m] = q] /\ work' = w
      /\ UNCHANGED <<marks, marksDb, docState, vectors, deadLetters, excused>> /\ queue[m].deliveries < MaxDeliver
  BY DEF Deliver, Busy
<1>2. queue[m].deliveries \in Nat /\ n \in Nat
  BY DEF PipelineInv, PipelineTypes
<1>3. (n < MaxDeliver \/ n = MaxDeliver) /\ DocsOf[m] \in Seq(Docs)
  BY <1>1, <1>2, PipelineLimits
<1> HIDE DEF n
<1>4. w \in Works /\ w.msg = m /\ w.left = DocsOf[m] /\ w.stage = "next" /\ w.attempt = n /\ w.failed = FALSE
  BY <1>2, <1>3 DEF Works, Stages
<1>5. q \in [at : {"pending", "inflight", "acked", "terminated"}, deliveries : Nat] /\ q.at = "inflight" /\ q.deliveries = n
  BY <1>2
<1>6. w # Idle
  BY <1>4, WorkIsBusy
<1> HIDE DEF q, w
<1>7. PipelineTypes' /\ queue'[m] = q /\ \A o \in Messages : o # m => queue'[o] = queue[o]
  BY <1>1, <1>4, <1>5 DEF PipelineInv, PipelineTypes
<1>8. WorkOK(w, queue', vectors, excused)
  BY <1>4, <1>5, <1>7 DEF WorkOK
<1>9. StoreOK(marks)' /\ StoreOK(marksDb)'
  BY <1>1 DEF PipelineInv, StoreOK, MarksOK, DocInHand
<1>10. AckedIsIngested' /\ CompletedIsInserted'
  BY <1>1, <1>5, <1>7 DEF PipelineInv, PipelineAccounted, AckedIsIngested, CompletedIsInserted
<1>11. DroppedIsRecorded'
  <2> SUFFICES ASSUME NEW o \in Messages
               PROVE  \/ queue'[o].at = "acked" \/ o \in deadLetters' \cup excused'
                      \/ queue'[o].deliveries < MaxDeliver
                      \/ work'.msg = o /\ work'.attempt = MaxDeliver
    BY DEF DroppedIsRecorded
  <2>1. CASE o = m
    BY <1>1, <1>3, <1>4, <1>5, <1>7, <2>1
  <2>2. CASE o # m
    <3>1. \/ queue[o].at = "acked" \/ o \in deadLetters \cup excused
          \/ queue[o].deliveries < MaxDeliver \/ work.msg = o
      BY DEF PipelineInv, PipelineAccounted, DroppedIsRecorded
    <3>2. work.msg # o
      BY <1>1, IdleFields, PipelineLimits
    <3> QED
      BY <1>1, <1>7, <2>2, <3>1, <3>2
  <2> QED
    BY <2>1, <2>2
<1> QED
  BY <1>1, <1>7, <1>8, <1>9, <1>10, <1>11 DEF PipelineInv, PipelineAccounted

(* A message moves in the queue, and nothing else.                         *)
LEMMA Requeued ==
    ASSUME PipelineInv, NEW m \in Messages, NEW q \in [at : {"pending", "inflight", "acked", "terminated"}, deliveries : Nat],
           queue' = [queue EXCEPT ![m] = q], q.at = "pending",
           q.deliveries < MaxDeliver \/ (queue[m].at # "acked" /\ q.deliveries = queue[m].deliveries),
           UNCHANGED <<work, marks, marksDb, docState, vectors, deadLetters, excused>>
    PROVE  PipelineInv'
<1>1. PipelineTypes' /\ queue'[m] = q /\ \A o \in Messages : o # m => queue'[o] = queue[o]
  BY DEF PipelineInv, PipelineTypes
<1>2. WorkOK(work, queue', vectors, excused)
  <2>1. CASE Busy
    <3>1. work.msg \in Messages
      BY <2>1, WorkFields DEF PipelineInv
    <3> QED
      BY <1>1, <3>1 DEF PipelineInv, WorkOK
  <2>2. CASE ~Busy
    BY <2>2 DEF WorkOK, Busy
  <2> QED
    BY <2>1, <2>2
<1>3. StoreOK(marks)' /\ StoreOK(marksDb)' /\ Len(marks') <= MaxMarks
  BY DEF PipelineInv, StoreOK
<1>4. AckedIsIngested' /\ CompletedIsInserted'
  BY <1>1 DEF PipelineInv, PipelineAccounted, AckedIsIngested, CompletedIsInserted
<1>5. DroppedIsRecorded'
  BY <1>1 DEF PipelineInv, PipelineAccounted, DroppedIsRecorded
<1> QED
  BY <1>1, <1>2, <1>3, <1>4, <1>5 DEF PipelineInv, PipelineAccounted

LEMMA PublishInv == ASSUME PipelineInv, NEW m \in Messages, Publish(m) PROVE PipelineInv'
<1> DEFINE q == [at |-> "pending", deliveries |-> 0]
<1>1. q \in [at : {"pending", "inflight", "acked", "terminated"}, deliveries : Nat] /\ q.at = "pending" /\ q.deliveries = 0
  OBVIOUS
<1>2. 0 < MaxDeliver
  BY PipelineLimits
<1>3. queue' = [queue EXCEPT ![m] = q] /\ UNCHANGED <<work, marks, marksDb, docState, vectors, deadLetters, excused>>
  BY DEF Publish
<1> HIDE DEF q
<1> QED
  BY <1>1, <1>2, <1>3, Requeued

LEMMA AckWaitPassesInv == ASSUME PipelineInv, NEW m \in Messages, AckWaitPasses(m) PROVE PipelineInv'
<1> DEFINE q == [queue[m] EXCEPT !.at = "pending"]
<1>1. queue[m] \in [at : {"pending", "inflight", "acked", "terminated"}, deliveries : Nat]
  BY DEF PipelineInv, PipelineTypes
<1>2. q \in [at : {"pending", "inflight", "acked", "terminated"}, deliveries : Nat] /\ q.at = "pending"
      /\ q.deliveries = queue[m].deliveries
  BY <1>1
<1>3. queue' = [queue EXCEPT ![m] = q] /\ UNCHANGED <<work, marks, marksDb, docState, vectors, deadLetters, excused>>
      /\ queue[m].at # "acked"
  BY DEF AckWaitPasses
<1> HIDE DEF q
<1> QED
  BY <1>2, <1>3, Requeued

(* An answer ends the work on a message.                                   *)
LEMMA MessageAnswered ==
    ASSUME PipelineInv, AtEnd, NEW at \in {"acked", "pending", "terminated"}, Answer(at),
           deadLetters \subseteq deadLetters', excused \subseteq excused',
           at = "acked" => ~work.failed,
           at = "pending" => ~LastAttempt(work.attempt),
           at = "terminated" => work.msg \in deadLetters' \cup excused'
    PROVE  PipelineInv'
<1> DEFINE m == work.msg
           q == [queue[m] EXCEPT !.at = at]
<1>1. Busy /\ work.stage = "next" /\ work.left = <<>>
  BY DEF AtEnd, Stage
<1>2. m \in Messages /\ work.attempt \in Nat
  BY <1>1, WorkFields DEF PipelineInv
<1>3. queue[m] \in [at : {"pending", "inflight", "acked", "terminated"}, deliveries : Nat]
  BY <1>2 DEF PipelineInv, PipelineTypes
<1>4. q \in [at : {"pending", "inflight", "acked", "terminated"}, deliveries : Nat] /\ q.at = at
      /\ q.deliveries = queue[m].deliveries
  BY <1>3
<1>5. queue' = [queue EXCEPT ![m] = q] /\ work' = Idle /\ UNCHANGED <<marks, marksDb, docState, vectors>>
  BY DEF Answer
<1>6. /\ queue[m].at \in {"pending", "inflight"}
      /\ work.failed \/ \A d \in Range(DocsOf[m]) : DocSettled(vectors, excused, d) \/ d \in Range(work.left)
  BY <1>1 DEF PipelineInv, WorkOK, Busy
<1>7. \A d : d \notin Range(work.left)
  BY <1>1 DEF Range
<1> HIDE DEF m, q
<1>8. PipelineTypes' /\ queue'[m] = q /\ \A o \in Messages : o # m => queue'[o] = queue[o]
  BY <1>2, <1>4, <1>5 DEF PipelineInv, PipelineTypes
<1>9. WorkOK(work, queue, vectors, excused)' /\ Len(marks') <= MaxMarks
  BY <1>5 DEF WorkOK, PipelineInv
<1>10. StoreOK(marks)' /\ StoreOK(marksDb)'
  <2>1. \A d \in Range(marks) \cup Range(marksDb) : DocSettled(vectors, excused, d)
    BY <1>1 DEF PipelineInv, StoreOK, MarksOK, DocInHand
  <2> QED
    BY <1>5, <2>1 DEF PipelineInv, StoreOK, MarksOK, DocSettled
<1>11. CompletedIsInserted'
  BY <1>5 DEF PipelineInv, PipelineAccounted, CompletedIsInserted
<1>12. AckedIsIngested'
  <2> SUFFICES ASSUME NEW o \in Messages, queue'[o].at = "acked", NEW d \in Range(DocsOf[o])
               PROVE  DocSettled(vectors, excused, d)
    BY <1>5 DEF AckedIsIngested, DocSettled
  <2>1. CASE o = m
    BY <1>4, <1>6, <1>7, <1>8, <2>1
  <2>2. CASE o # m
    BY <1>8, <2>2 DEF PipelineInv, PipelineAccounted, AckedIsIngested, DocSettled
  <2> QED
    BY <2>1, <2>2
<1>13. DroppedIsRecorded'
  <2> SUFFICES ASSUME NEW o \in Messages
               PROVE  \/ queue'[o].at = "acked" \/ o \in deadLetters' \cup excused'
                      \/ queue'[o].deliveries < MaxDeliver
    BY DEF DroppedIsRecorded
  <2>1. \/ queue[o].at = "acked" \/ o \in deadLetters \cup excused
        \/ queue[o].deliveries < MaxDeliver
        \/ work.msg = o /\ work.attempt = MaxDeliver
    BY DEF PipelineInv, PipelineAccounted, DroppedIsRecorded
  <2>2. CASE o = m
    <3>1. at = "pending" => work.attempt # MaxDeliver
      BY <1>2, PipelineLimits DEF LastAttempt
    <3> QED
      BY <1>4, <1>6, <1>8, <2>1, <2>2, <3>1 DEF m
  <2>3. CASE o # m
    BY <1>8, <2>1, <2>3 DEF m
  <2> QED
    BY <2>2, <2>3
<1> QED
  BY <1>8, <1>9, <1>10, <1>11, <1>12, <1>13 DEF PipelineInv, PipelineAccounted

LEMMA AckInv == ASSUME PipelineInv, Ack PROVE PipelineInv'
BY MessageAnswered DEF Ack

LEMMA NackInv == ASSUME PipelineInv, Nack PROVE PipelineInv'
BY MessageAnswered DEF Nack

LEMMA DeadLetterInv == ASSUME PipelineInv, NEW sent \in BOOLEAN, DeadLetter(sent) PROVE PipelineInv'
<1>1. AtEnd /\ Answer("terminated") /\ deadLetters \subseteq deadLetters' /\ excused \subseteq excused'
      /\ work.msg \in deadLetters' \cup excused'
  BY DEF DeadLetter
<1> QED
  BY <1>1, MessageAnswered

(* A crash excuses the document and the message it interrupts, and the     *)
(* store comes back with marks it had on disk.                             *)
LEMMA CrashInv == ASSUME PipelineInv, Crash PROVE PipelineInv'
<1>1. /\ Busy /\ work' = Idle /\ marks' = Newest(marksDb) /\ UNCHANGED <<queue, marksDb, docState, vectors, deadLetters>>
      /\ excused \subseteq excused' /\ work.msg \in excused'
      /\ work.stage \in {"parsing", "embedding", "inserting", "undo"} => work.doc \in excused'
  BY DEF Crash, Stage
<1>2. marksDb \in Seq(Docs) /\ NoRepeats(marksDb)
  BY DEF PipelineInv, PipelineTypes, StoreOK
<1>3. marks' \in Seq(Docs) /\ Range(marks') \subseteq Range(marksDb) /\ NoRepeats(marks') /\ Len(marks') <= MaxMarks
  BY <1>1, <1>2, NewestOf
<1>4. \A d \in Range(marksDb) : DocSettled(vectors, excused', d)
  <2> SUFFICES ASSUME NEW d \in Range(marksDb) PROVE DocSettled(vectors, excused', d)
    OBVIOUS
  <2>1. DocSettled(vectors, excused, d) \/ DocInHand(work, d)
    BY DEF PipelineInv, StoreOK, MarksOK
  <2>2. CASE DocInHand(work, d)
    <3>1. work.stage \in Stages /\ work.stage # "next" /\ work.doc = d
      BY <1>1, <2>2, WorkFields DEF PipelineInv, DocInHand
    <3>2. work.stage = "completed" => vectors[d] = "all"
      BY <1>1, <3>1 DEF PipelineInv, WorkOK, Busy
    <3> QED
      BY <1>1, <3>1, <3>2 DEF Stages, DocSettled
  <2> QED
    BY <1>1, <2>1, <2>2 DEF DocSettled
<1>5. PipelineTypes'
  BY <1>1, <1>3 DEF PipelineInv, PipelineTypes
<1>6. WorkOK(work, queue, vectors, excused)'
  BY <1>1 DEF WorkOK
<1>7. StoreOK(marks)' /\ StoreOK(marksDb)'
  BY <1>1, <1>2, <1>3, <1>4 DEF StoreOK, MarksOK
<1>8. AckedIsIngested' /\ CompletedIsInserted'
  BY <1>1 DEF PipelineInv, PipelineAccounted, AckedIsIngested, CompletedIsInserted
<1>9. DroppedIsRecorded'
  <2>1. DroppedIsRecorded
    BY DEF PipelineInv, PipelineAccounted
  <2> QED
    BY <1>1, <2>1 DEF DroppedIsRecorded
<1> QED
  BY <1>3, <1>5, <1>6, <1>7, <1>8, <1>9 DEF PipelineInv, PipelineAccounted

LEMMA PipelineNextInv == ASSUME PipelineInv, [PipelineNext]_pipelineVars PROVE PipelineInv'
<1>1. CASE UNCHANGED pipelineVars
  BY <1>1, PipelineStutter
<1>2. CASE PipelineNext
  BY <1>2, DeliverInv, AckWaitPassesInv, PublishInv, FetchFailsInv, DuplicateInv, EndEventInv, AckInv,
     NackInv, CrashInv, CoolInv, CheckAndMarkInv, ParseInv, EmbedInv, UndoInv, DeadLetterInv, InsertBatchInv
     DEF PipelineNext, Amounts
<1> QED
  BY <1>1, <1>2

(* A message is acknowledged only when every document it announced is      *)
(* ingested in full, and one that will not be delivered again is accounted *)
(* for, for any messages, documents and limits: through failed stages,     *)
(* repeated deliveries, evicted marks and restarts, short of the documents *)
(* whose mark outlived failed work (pipeline.rs 337-384).                  *)
THEOREM PipelineAlwaysAccounted == PipelineSpec => []PipelineAccounted
<1>1. PipelineInv /\ [PipelineNext]_pipelineVars => PipelineInv'
  BY PipelineNextInv
<1>2. PipelineInv => PipelineAccounted
  BY DEF PipelineInv
<1> QED
  BY <1>1, <1>2, PipelineInitInv, PTL DEF PipelineSpec

-----------------------------------------------------------------------------
(* The gate of a shard.  Positions of records in the order they were       *)
(* emitted say everything about the spool: what is in the channel is later *)
(* than what is in a file or was deleted, a later file has later records,  *)
(* and the files that a roll removes are the first ones.  That a record is *)
(* in one place only, so that counting works, follows from the order, but  *)
(* for what a restart lost in the channel, of which it is said.            *)

Place(em, c) == CHOOSE n \in DOMAIN em : em[n] = c
Filed(sp) == UNION {Range(sp[f]) : f \in DOMAIN sp}

(* The files and what was deleted.                                         *)
FilesOrdered(em, sp) ==
    /\ \A f, g \in DOMAIN sp : f < g =>
          \A c \in Range(sp[f]), d \in Range(sp[g]) : Place(em, c) < Place(em, d)
    /\ \A f \in DOMAIN sp : \A i, j \in DOMAIN sp[f] :
          i < j => Place(em, sp[f][i]) < Place(em, sp[f][j])
SpoolTyped(sp) ==
    DOMAIN sp \in SUBSET Nat /\ IsFiniteSet(DOMAIN sp) /\ sp \in [DOMAIN sp -> Seq(Calls)]
SpoolOK(em, sp, gone) ==
    /\ SpoolTyped(sp) /\ FilesOrdered(em, sp)
    /\ Filed(sp) \cup gone \subseteq Range(em) /\ Filed(sp) \cap gone = {}
FirstGone(em, sp, gone) == \A c \in Filed(sp), d \in gone : Place(em, d) < Place(em, c)

(* What is sent comes after what is kept.                                  *)
SentOK(em, ch, kept) ==
    /\ ch \in Seq(Calls) /\ Range(ch) \subseteq Range(em)
    /\ \A i, j \in DOMAIN ch : i < j => Place(em, ch[i]) < Place(em, ch[j])
    /\ \A c \in kept, d \in Range(ch) : Place(em, c) < Place(em, d)

CallSteps == {"idle", "received", "waiting", "granted", "working", "done", "gone"}
QueueOK(q, at, k) ==
    /\ q \in Seq(Calls) /\ NoRepeats(q)
    /\ \A c \in Range(q) : at[c].step = "waiting" /\ CallClass[c] = k

GateTypes ==
    /\ callAt \in [Calls -> [step : CallSteps, since : Nat]]
    /\ gateNow \in Nat /\ dropped \in Nat /\ spoolSeq \in Nat /\ serverRuns \in Nat /\ serverRuns >= 1
    /\ emitted \in Seq(Calls) /\ NoRepeats(emitted) /\ forgotten \subseteq Calls
    /\ open \in DOMAIN spool /\ open <= spoolSeq /\ \A f \in DOMAIN spool : f <= open

GateQueues ==
    /\ waiters \in [Classes -> Seq(Calls)]
    /\ \A k \in Classes : QueueOK(waiters[k], callAt, k) /\ Cardinality(Holding(k)) <= Limit(k)

SpooledOrGone == Filed(spool) \cup forgotten
GateRecords ==
    /\ \A c \in Range(emitted) : callAt[c].step = "done"
    /\ SpoolOK(emitted, spool, forgotten) /\ SentOK(emitted, channel, SpooledOrGone)
    /\ serverRuns = 1 => FirstGone(emitted, spool, forgotten)
    /\ Len(emitted) = dropped + Len(channel) + Cardinality(SpooledOrGone)

GateInv == GateTypes /\ GateQueues /\ GateRecords

-----------------------------------------------------------------------------
(* Places.                                                                 *)
LEMMA PlaceIs ==
    ASSUME NEW em \in Seq(Calls), NEW c \in Range(em)
    PROVE  /\ Place(em, c) \in DOMAIN em /\ em[Place(em, c)] = c
           /\ Place(em, c) \in Nat /\ Place(em, c) <= Len(em)
<1>1. \E n \in DOMAIN em : em[n] = c
  BY DEF Range
<1>2. Place(em, c) \in DOMAIN em /\ em[Place(em, c)] = c
  BY <1>1 DEF Place
<1>3. DOMAIN em = 1 .. Len(em) /\ Len(em) \in Nat
  OBVIOUS
<1> QED
  BY <1>2, <1>3

LEMMA PlaceStays ==
    ASSUME NEW em \in Seq(Calls), NoRepeats(em), NEW e \in Calls, e \notin Range(em)
    PROVE  /\ \A c \in Range(em) : Place(Append(em, e), c) = Place(em, c)
           /\ Place(Append(em, e), e) = Len(em) + 1
           /\ \A c \in Range(em) : Place(em, c) < Len(em) + 1
<1> DEFINE a == Append(em, e)
<1>1. /\ a \in Seq(Calls) /\ Len(em) \in Nat /\ DOMAIN em = 1 .. Len(em)
      /\ DOMAIN a = 1 .. Len(em) + 1 /\ a[Len(em) + 1] = e /\ \A i \in 1 .. Len(em) : a[i] = em[i]
  OBVIOUS
<1>2. NoRepeats(a) /\ Range(a) = Range(em) \cup {e}
  BY AppendOf
<1> HIDE DEF a
<1>3. ASSUME NEW c \in Range(a), NEW n \in DOMAIN a, a[n] = c PROVE Place(a, c) = n
  <2>1. Place(a, c) \in DOMAIN a /\ a[Place(a, c)] = c
    BY <1>1, PlaceIs
  <2> QED
    BY <1>2, <1>3, <2>1 DEF NoRepeats
<1>4. ASSUME NEW c \in Range(em) PROVE Place(a, c) = Place(em, c) /\ Place(em, c) < Len(em) + 1
  <2>1. Place(em, c) \in 1 .. Len(em) /\ em[Place(em, c)] = c
    BY <1>1, PlaceIs
  <2>2. Place(em, c) \in DOMAIN a /\ a[Place(em, c)] = c
    BY <1>1, <2>1
  <2> QED
    BY <1>1, <1>2, <1>3, <2>1, <2>2
<1>5. Place(a, e) = Len(em) + 1
  BY <1>1, <1>2, <1>3
<1> QED
  BY <1>4, <1>5 DEF a

(* What is ordered stays so when one more record is emitted.               *)
LEMMA SpoolStays ==
    ASSUME NEW em \in Seq(Calls), NoRepeats(em), NEW e \in Calls, e \notin Range(em),
           NEW sp, NEW gone, SpoolOK(em, sp, gone)
    PROVE  /\ SpoolOK(Append(em, e), sp, gone)
           /\ FirstGone(em, sp, gone) => FirstGone(Append(em, e), sp, gone)
<1> DEFINE a == Append(em, e)
<1>1. Range(a) = Range(em) \cup {e}
  BY AppendOf
<1>2. \A c \in Range(em) : Place(a, c) = Place(em, c)
  BY PlaceStays
<1> HIDE DEF a
<1>3. Filed(sp) \cup gone \subseteq Range(em)
  BY DEF SpoolOK
<1>4. \A f \in DOMAIN sp : Range(sp[f]) \subseteq Range(em)
  BY <1>3 DEF Filed
<1>5. \A f \in DOMAIN sp : \A i \in DOMAIN sp[f] : sp[f][i] \in Range(em)
  BY <1>4 DEF Range
<1>6. FilesOrdered(a, sp)
  BY <1>2, <1>4, <1>5 DEF SpoolOK, FilesOrdered
<1>7. SpoolOK(a, sp, gone)
  BY <1>1, <1>3, <1>6 DEF SpoolOK
<1>8. FirstGone(em, sp, gone) => FirstGone(a, sp, gone)
  BY <1>2, <1>3 DEF FirstGone
<1> QED
  BY <1>7, <1>8 DEF a

LEMMA SentStays ==
    ASSUME NEW em \in Seq(Calls), NoRepeats(em), NEW e \in Calls, e \notin Range(em),
           NEW ch, NEW kept, kept \subseteq Range(em), SentOK(em, ch, kept)
    PROVE  SentOK(Append(em, e), ch, kept) /\ SentOK(Append(em, e), Append(ch, e), kept)
<1> DEFINE a == Append(em, e)
           b == Append(ch, e)
<1>1. Range(a) = Range(em) \cup {e}
  BY AppendOf
<1>2. /\ \A c \in Range(em) : Place(a, c) = Place(em, c) /\ Place(em, c) < Len(em) + 1
      /\ Place(a, e) = Len(em) + 1
  BY PlaceStays
<1>3. ch \in Seq(Calls) /\ Range(ch) \subseteq Range(em)
  BY DEF SentOK
<1>4. b \in Seq(Calls) /\ Range(b) = Range(ch) \cup {e}
  BY <1>3, AppendOf
<1>5. /\ Len(ch) \in Nat /\ DOMAIN ch = 1 .. Len(ch)
      /\ DOMAIN b = 1 .. Len(ch) + 1 /\ b[Len(ch) + 1] = e /\ \A i \in 1 .. Len(ch) : b[i] = ch[i]
  BY <1>3
<1> HIDE DEF a, b
<1>6. \A i \in DOMAIN ch : ch[i] \in Range(ch)
  BY DEF Range
<1>7. SentOK(a, ch, kept)
  BY <1>1, <1>2, <1>3, <1>6 DEF SentOK
<1>8. ASSUME NEW i \in DOMAIN b, NEW j \in DOMAIN b, i < j PROVE Place(a, b[i]) < Place(a, b[j])
  <2>1. i \in DOMAIN ch /\ b[i] = ch[i]
    BY <1>5, <1>8
  <2>2. CASE j \in DOMAIN ch
    BY <1>5, <1>7, <1>8, <2>1, <2>2 DEF SentOK
  <2>3. CASE j = Len(ch) + 1
    BY <1>2, <1>3, <1>5, <1>6, <2>1, <2>3
  <2> QED
    BY <1>5, <2>2, <2>3
<1>9. ASSUME NEW c \in kept, NEW d \in Range(b) PROVE Place(a, c) < Place(a, d)
  <2>1. CASE d \in Range(ch)
    BY <1>7, <2>1 DEF SentOK
  <2>2. CASE d = e
    BY <1>2, <2>2
  <2> QED
    BY <1>4, <2>1, <2>2
<1>10. SentOK(a, b, kept)
  BY <1>1, <1>3, <1>4, <1>8, <1>9 DEF SentOK
<1> QED
  BY <1>7, <1>10 DEF a, b

(* The writer takes the first record, which is later than all that is kept *)
(* and earlier than the rest.                                              *)
LEMMA Taken ==
    ASSUME NEW em, NEW ch, NEW kept, SentOK(em, ch, kept), ch # <<>>
    PROVE  /\ Head(ch) \in Calls /\ Head(ch) \in Range(em)
           /\ \A c \in kept : Place(em, c) < Place(em, Head(ch))
           /\ SentOK(em, Tail(ch), kept) /\ SentOK(em, Tail(ch), kept \cup {Head(ch)})
           /\ Len(Tail(ch)) = Len(ch) - 1 /\ Len(ch) \in Nat
<1>1. ch \in Seq(Calls) /\ Range(ch) \subseteq Range(em)
  BY DEF SentOK
<1>2. /\ Head(ch) \in Calls /\ Tail(ch) \in Seq(Calls) /\ Range(ch) = {Head(ch)} \cup Range(Tail(ch))
      /\ Len(Tail(ch)) = Len(ch) - 1 /\ Len(ch) > 0
  BY <1>1, FrontOf
<1>3. /\ Len(ch) \in Nat /\ DOMAIN ch = 1 .. Len(ch) /\ Head(ch) = ch[1]
      /\ DOMAIN Tail(ch) = 1 .. Len(ch) - 1 /\ \A i \in 1 .. Len(ch) - 1 : Tail(ch)[i] = ch[i + 1]
  BY <1>1
<1> DEFINE h == Head(ch)
           t == Tail(ch)
<1>4. h \in Calls /\ t \in Seq(Calls) /\ Range(ch) = {h} \cup Range(t) /\ h = ch[1]
      /\ DOMAIN t = 1 .. Len(ch) - 1 /\ \A i \in 1 .. Len(ch) - 1 : t[i] = ch[i + 1]
  BY <1>2, <1>3
<1> HIDE DEF h, t
<1>5. ASSUME NEW i \in DOMAIN t PROVE i + 1 \in DOMAIN ch /\ 1 \in DOMAIN ch /\ 1 < i + 1 /\ t[i] = ch[i + 1] /\ i \in Nat
  BY <1>3, <1>4
<1>6. ASSUME NEW i \in DOMAIN t, NEW j \in DOMAIN t, i < j PROVE Place(em, t[i]) < Place(em, t[j])
  <2>1. i + 1 < j + 1
    BY <1>5, <1>6
  <2> QED
    BY <1>5, <2>1 DEF SentOK
<1>7. ASSUME NEW d \in Range(t) PROVE Place(em, h) < Place(em, d)
  <2>1. PICK i \in DOMAIN t : d = t[i]
    BY DEF Range
  <2> QED
    BY <1>4, <1>5, <2>1 DEF SentOK
<1>8. \A c \in kept, d \in Range(ch) : Place(em, c) < Place(em, d)
  BY DEF SentOK
<1>9. SentOK(em, t, kept)
  BY <1>1, <1>4, <1>6, <1>8 DEF SentOK
<1>10. SentOK(em, t, kept \cup {h})
  BY <1>4, <1>7, <1>9 DEF SentOK
<1> QED
  BY <1>1, <1>2, <1>3, <1>4, <1>8, <1>9, <1>10 DEF h, t

(* A record is appended to the last file.                                  *)
WithRecord(sp, m, h) == [sp EXCEPT ![m] = Append(@, h)]

LEMMA FileAppended ==
    ASSUME NEW em \in Seq(Calls), NEW sp, NEW gone, SpoolOK(em, sp, gone),
           NEW m \in DOMAIN sp, \A f \in DOMAIN sp : f <= m,
           NEW h \in Calls, h \in Range(em),
           \A c \in Filed(sp) \cup gone : Place(em, c) < Place(em, h)
    PROVE  /\ SpoolOK(em, WithRecord(sp, m, h), gone) /\ DOMAIN WithRecord(sp, m, h) = DOMAIN sp
           /\ Filed(WithRecord(sp, m, h)) = Filed(sp) \cup {h}
           /\ FirstGone(em, sp, gone) => FirstGone(em, WithRecord(sp, m, h), gone)
<1> DEFINE next == WithRecord(sp, m, h)
           s == sp[m]
           a == Append(s, h)
<1>1. /\ DOMAIN sp \in SUBSET Nat /\ IsFiniteSet(DOMAIN sp) /\ sp \in [DOMAIN sp -> Seq(Calls)]
      /\ FilesOrdered(em, sp) /\ Filed(sp) \cup gone \subseteq Range(em) /\ Filed(sp) \cap gone = {}
  BY DEF SpoolOK, SpoolTyped
<1>2. s \in Seq(Calls)
  BY <1>1
<1>3. a \in Seq(Calls) /\ Range(a) = Range(s) \cup {h}
  BY <1>2, AppendOf
<1>4. /\ Len(s) \in Nat /\ DOMAIN s = 1 .. Len(s)
      /\ DOMAIN a = 1 .. Len(s) + 1 /\ a[Len(s) + 1] = h /\ \A i \in 1 .. Len(s) : a[i] = s[i]
  BY <1>2
<1>5. /\ DOMAIN next = DOMAIN sp /\ next[m] = a /\ \A f \in DOMAIN sp \ {m} : next[f] = sp[f]
      /\ sp[m] = s
  BY DEF WithRecord
<1> HIDE DEF next, a, s
<1>6. next \in [DOMAIN next -> Seq(Calls)]
  <2>1. next = [f \in DOMAIN sp |-> IF f = m THEN a ELSE sp[f]]
    BY <1>5 DEF next, WithRecord, a, s
  <2> QED
    BY <1>1, <1>3, <1>5, <2>1
<1>7. Filed(next) = Filed(sp) \cup {h}
  BY <1>3, <1>5 DEF Filed
<1>8. h \notin Filed(sp) \cup gone
  <2>1. Place(em, h) \in Nat
    BY PlaceIs
  <2> QED
    BY <2>1
<1>9. ASSUME NEW f \in DOMAIN sp, NEW g \in DOMAIN sp, f < g,
             NEW c \in Range(next[f]), NEW d \in Range(next[g])
      PROVE  Place(em, c) < Place(em, d)
  <2>1. f # m
    BY <1>1, <1>9
  <2>2. c \in Range(sp[f]) /\ c \in Filed(sp)
    BY <1>5, <2>1 DEF Filed
  <2>3. d \in Range(sp[g]) \/ d = h
    BY <1>3, <1>5
  <2> QED
    BY <1>1, <1>9, <2>2, <2>3 DEF FilesOrdered
<1>10. ASSUME NEW f \in DOMAIN sp, NEW i \in DOMAIN next[f], NEW j \in DOMAIN next[f], i < j
       PROVE  Place(em, next[f][i]) < Place(em, next[f][j])
  <2>1. CASE f # m
    BY <1>1, <1>5, <1>10, <2>1 DEF FilesOrdered
  <2>2. CASE f = m
    <3>1. i \in DOMAIN a /\ j \in DOMAIN a /\ next[f] = a
      BY <1>5, <2>2
    <3>2. i \in DOMAIN s /\ a[i] = s[i]
      BY <1>4, <1>10, <3>1
    <3>3. CASE j \in DOMAIN s
      <4>1. a[j] = s[j]
        BY <1>4, <3>3
      <4> QED
        BY <1>1, <1>5, <1>10, <3>1, <3>2, <3>3, <4>1 DEF FilesOrdered
    <3>4. CASE j = Len(s) + 1
      <4>1. s[i] \in Filed(sp)
        BY <1>5, <3>2 DEF Filed, Range
      <4> QED
        BY <1>4, <3>1, <3>2, <3>4, <4>1
    <3> QED
      BY <1>4, <3>1, <3>3, <3>4
  <2> QED
    BY <2>1, <2>2
<1>11. FilesOrdered(em, next)
  BY <1>5, <1>9, <1>10 DEF FilesOrdered
<1>12. SpoolOK(em, next, gone)
  BY <1>1, <1>5, <1>6, <1>7, <1>8, <1>11 DEF SpoolOK, SpoolTyped
<1>13. FirstGone(em, sp, gone) => FirstGone(em, next, gone)
  BY <1>7 DEF FirstGone
<1> QED
  BY <1>5, <1>7, <1>8, <1>12, <1>13 DEF next

(* A file is opened after the others.                                      *)
WithFile(sp, n) == [f \in DOMAIN sp \cup {n} |-> IF f \in DOMAIN sp THEN sp[f] ELSE <<>>]

LEMMA FileOpened ==
    ASSUME NEW em, NEW sp, NEW gone, SpoolOK(em, sp, gone), NEW n \in Nat, n \notin DOMAIN sp
    PROVE  /\ SpoolOK(em, WithFile(sp, n), gone) /\ Filed(WithFile(sp, n)) = Filed(sp)
           /\ DOMAIN WithFile(sp, n) = DOMAIN sp \cup {n} /\ WithFile(sp, n)[n] = <<>>
<1> DEFINE next == WithFile(sp, n)
<1>1. /\ DOMAIN sp \in SUBSET Nat /\ IsFiniteSet(DOMAIN sp) /\ sp \in [DOMAIN sp -> Seq(Calls)]
      /\ FilesOrdered(em, sp) /\ Filed(sp) \cup gone \subseteq Range(em) /\ Filed(sp) \cap gone = {}
  BY DEF SpoolOK, SpoolTyped
<1>2. /\ DOMAIN next = DOMAIN sp \cup {n} /\ next[n] = <<>> /\ \A f \in DOMAIN sp : next[f] = sp[f]
  BY DEF WithFile
<1>3. next \in [DOMAIN next -> Seq(Calls)]
  <2>1. <<>> \in Seq(Calls)
    OBVIOUS
  <2> QED
    BY <1>1, <1>2, <2>1 DEF WithFile
<1>4. IsFiniteSet(DOMAIN next) /\ DOMAIN next \in SUBSET Nat
  BY <1>1, <1>2, FS_AddElement
<1> HIDE DEF next
<1>5. Range(next[n]) = {} /\ DOMAIN next[n] = {}
  <2>1. DOMAIN <<>> = {}
    OBVIOUS
  <2> QED
    BY <1>2, <2>1 DEF Range
<1>6. Filed(next) = Filed(sp)
  BY <1>2, <1>5 DEF Filed
<1>7. \A f \in DOMAIN next : f = n \/ (f \in DOMAIN sp /\ next[f] = sp[f])
  BY <1>2
<1>8. FilesOrdered(em, next)
  <2>1. ASSUME NEW f \in DOMAIN next, NEW g \in DOMAIN next, f < g,
               NEW c \in Range(next[f]), NEW d \in Range(next[g])
        PROVE  Place(em, c) < Place(em, d)
    BY <1>1, <1>5, <1>7, <2>1 DEF FilesOrdered
  <2>2. ASSUME NEW f \in DOMAIN next, NEW i \in DOMAIN next[f], NEW j \in DOMAIN next[f], i < j
        PROVE  Place(em, next[f][i]) < Place(em, next[f][j])
    BY <1>1, <1>5, <1>7, <2>2 DEF FilesOrdered
  <2> QED
    BY <2>1, <2>2 DEF FilesOrdered
<1>9. SpoolOK(em, next, gone)
  BY <1>1, <1>3, <1>4, <1>6, <1>8 DEF SpoolOK, SpoolTyped
<1> QED
  BY <1>2, <1>6, <1>9 DEF next

(* enforce_retention takes the first files.                                *)
LEMMA LowestAreFirst ==
    ASSUME NEW files \in SUBSET Nat, IsFiniteSet(files), NEW n \in Int,
           NEW f \in LowestOf(files, n), NEW g \in files \ LowestOf(files, n)
    PROVE  f < g
<1> DEFINE B(x) == {y \in files : y < x}
<1>1. \A x \in files : IsFiniteSet(B(x)) /\ Cardinality(B(x)) \in Nat
  <2>1. \A x \in files : B(x) \in SUBSET files
    OBVIOUS
  <2> QED
    BY <2>1, FS_Subset, FS_CardinalityType
<1>2. f \in files /\ g \in files /\ f \in Nat /\ g \in Nat
  BY DEF LowestOf
<1>3. Cardinality(B(f)) < n /\ ~(Cardinality(B(g)) < n)
  BY <1>2 DEF LowestOf
<1>4. ASSUME g <= f PROVE FALSE
  <2>1. B(g) \in SUBSET B(f)
    <3>1. ASSUME NEW y \in files, y < g PROVE y < f
      BY <1>2, <1>4, <3>1
    <3> QED
      BY <3>1
  <2>0. IsFiniteSet(B(f))
    BY <1>1, <1>2
  <2>2. Cardinality(B(g)) <= Cardinality(B(f))
    <3> HIDE DEF B
    <3> QED
      BY <2>0, <2>1, FS_Subset
  <2> HIDE DEF B
  <2> QED
    BY <1>1, <1>2, <1>3, <2>2
<1> QED
  BY <1>2, <1>4

LEMMA FilesEvicted ==
    ASSUME NEW em \in Seq(Calls), NEW sp, NEW gone, SpoolOK(em, sp, gone), NEW E \in SUBSET DOMAIN sp
    PROVE  LET next == [f \in DOMAIN sp \ E |-> sp[f]]
               lost == UNION {Range(sp[f]) : f \in E}
           IN /\ Filed(next) \cup lost = Filed(sp)
              /\ (\A f \in E, g \in DOMAIN sp \ E : f < g \/ sp[g] = <<>>) =>
                    /\ SpoolOK(em, next, gone \cup lost)
                    /\ FirstGone(em, sp, gone) => FirstGone(em, next, gone \cup lost)
<1> DEFINE next == [f \in DOMAIN sp \ E |-> sp[f]]
           lost == UNION {Range(sp[f]) : f \in E}
<1>1. /\ DOMAIN sp \in SUBSET Nat /\ IsFiniteSet(DOMAIN sp) /\ sp \in [DOMAIN sp -> Seq(Calls)]
      /\ FilesOrdered(em, sp) /\ Filed(sp) \cup gone \subseteq Range(em) /\ Filed(sp) \cap gone = {}
  BY DEF SpoolOK, SpoolTyped
<1>2. DOMAIN next = DOMAIN sp \ E /\ \A f \in DOMAIN next : f \in DOMAIN sp /\ next[f] = sp[f]
  OBVIOUS
<1>3. next \in [DOMAIN next -> Seq(Calls)]
  BY <1>1
<1>4. IsFiniteSet(DOMAIN next) /\ DOMAIN next \in SUBSET Nat
  BY <1>1, <1>2, FS_Subset
<1>5. Filed(next) \cup lost = Filed(sp)
  BY DEF Filed
<1>6. \A d \in lost : \E f \in E : d \in Range(sp[f])
  OBVIOUS
<1>7. \A c \in Filed(next) : \E g \in DOMAIN sp \ E : c \in Range(sp[g])
  BY <1>2 DEF Filed
<1> HIDE DEF next, lost
<1>8. FilesOrdered(em, next)
  BY <1>1, <1>2 DEF FilesOrdered
<1>9. ASSUME \A f \in E, g \in DOMAIN sp \ E : f < g \/ sp[g] = <<>>
      PROVE  /\ SpoolOK(em, next, gone \cup lost)
             /\ FirstGone(em, sp, gone) => FirstGone(em, next, gone \cup lost)
  <2>1. ASSUME NEW d \in lost, NEW c \in Filed(next) PROVE Place(em, d) < Place(em, c)
    <3>1. PICK f \in E : d \in Range(sp[f])
      BY <1>6
    <3>2. PICK g \in DOMAIN sp \ E : c \in Range(sp[g])
      BY <1>7
    <3>3. sp[g] # <<>>
      <4>1. DOMAIN <<>> = {}
        OBVIOUS
      <4> QED
        BY <3>2, <4>1 DEF Range
    <3>4. f < g
      BY <1>9, <3>3
    <3> QED
      BY <1>1, <3>1, <3>2, <3>4 DEF FilesOrdered
  <2>2. Filed(next) \cap lost = {}
    <3>1. ASSUME NEW c \in Filed(next), c \in lost PROVE FALSE
      <4>1. Place(em, c) < Place(em, c)
        BY <2>1, <3>1
      <4>2. Place(em, c) \in Nat
        BY <1>1, <1>5, PlaceIs
      <4> QED
        BY <4>1, <4>2
    <3> QED
      BY <3>1
  <2>3. Filed(next) \cap (gone \cup lost) = {} /\ Filed(next) \cup (gone \cup lost) \subseteq Range(em)
    BY <1>1, <1>5, <2>2
  <2>4. SpoolOK(em, next, gone \cup lost)
    BY <1>3, <1>4, <1>8, <2>3 DEF SpoolOK, SpoolTyped
  <2>5. FirstGone(em, sp, gone) => FirstGone(em, next, gone \cup lost)
    BY <1>5, <2>1 DEF FirstGone
  <2> QED
    BY <2>4, <2>5
<1> QED
  BY <1>5, <1>9 DEF next, lost

LEMMA RollFacts ==
    ASSUME NEW em \in Seq(Calls), NEW sp, NEW gone, SpoolOK(em, sp, gone),
           NEW n \in Nat, \A f \in DOMAIN sp : f < n
    PROVE  LET kept == Rolled(sp, n).kept
               lost == Rolled(sp, n).lost
           IN /\ SpoolOK(em, kept, gone \cup lost) /\ Filed(kept) \cup lost = Filed(sp)
              /\ n \in DOMAIN kept /\ kept[n] = <<>> /\ \A f \in DOMAIN kept : f <= n
              /\ FirstGone(em, sp, gone) => FirstGone(em, kept, gone \cup lost)
<1> DEFINE all == WithFile(sp, n)
           E == Evicted(DOMAIN all, n)
           kept == [f \in DOMAIN all \ E |-> all[f]]
           lost == UNION {Range(all[f]) : f \in E}
<1>1. DOMAIN sp \in SUBSET Nat /\ n \notin DOMAIN sp
  <2>1. DOMAIN sp \in SUBSET Nat
    BY DEF SpoolOK, SpoolTyped
  <2> QED
    BY <2>1
<1>2. /\ SpoolOK(em, all, gone) /\ Filed(all) = Filed(sp)
      /\ DOMAIN all = DOMAIN sp \cup {n} /\ all[n] = <<>>
  BY <1>1, FileOpened
<1>3. Rolled(sp, n).kept = kept /\ Rolled(sp, n).lost = lost
  BY DEF Rolled, WithFile
<1> HIDE DEF all
<1>4. DOMAIN all \in SUBSET Nat /\ IsFiniteSet(DOMAIN all)
  BY <1>2 DEF SpoolOK, SpoolTyped
<1>5. E \in SUBSET DOMAIN all /\ n \notin E
  BY DEF Evicted, LowestOf
<1>6. Excess(DOMAIN all) \in Int
  BY <1>4, FS_CardinalityType, GateAssumption DEF Excess
<1>7. ASSUME NEW f \in E, NEW g \in DOMAIN all \ E PROVE f < g \/ all[g] = <<>>
  <2> DEFINE x == Excess(DOMAIN all)
  <2>1. f \in LowestOf(DOMAIN all, x)
    BY <1>7 DEF Evicted
  <2>2. g # n => g \notin LowestOf(DOMAIN all, x)
    BY <1>7 DEF Evicted
  <2>3. x \in Int
    BY <1>6
  <2> HIDE DEF x, E
  <2>4. g # n => f < g
    BY <1>4, <2>1, <2>2, <2>3, LowestAreFirst
  <2> QED
    BY <1>2, <2>4
<1> HIDE DEF E
<1>8. Filed(kept) \cup lost = Filed(all)
  BY <1>2, <1>5, FilesEvicted
<1>9. /\ SpoolOK(em, kept, gone \cup lost)
      /\ FirstGone(em, all, gone) => FirstGone(em, kept, gone \cup lost)
  BY <1>2, <1>5, <1>7, FilesEvicted
<1>10. FirstGone(em, sp, gone) => FirstGone(em, all, gone)
  BY <1>2 DEF FirstGone
<1>11. n \in DOMAIN kept /\ kept[n] = <<>> /\ \A f \in DOMAIN kept : f <= n
  <2>1. \A f \in DOMAIN all : f <= n
    BY <1>1, <1>2
  <2> QED
    BY <1>2, <1>5, <2>1
<1> HIDE DEF kept, lost
<1> QED
  BY <1>2, <1>3, <1>8, <1>9, <1>10, <1>11

(* Counting what is kept.                                                  *)
LEMMA KeptFinite == ASSUME NEW K \in SUBSET Calls PROVE IsFiniteSet(K) /\ Cardinality(K) \in Nat
BY GateAssumption, FS_Subset, FS_CardinalityType

LEMMA OneMore ==
    ASSUME NEW K \in SUBSET Calls, NEW h \in Calls, h \notin K
    PROVE  Cardinality(K \cup {h}) = Cardinality(K) + 1
BY KeptFinite, FS_AddElement

(* A sequence without repeats is as long as its range is large.            *)
LEMMA RangeCount ==
    ASSUME NEW s \in Seq(Calls), NoRepeats(s)
    PROVE  Cardinality(Range(s)) = Len(s) /\ Range(s) \subseteq Calls
<1>1. Len(s) \in Nat /\ DOMAIN s = 1 .. Len(s) /\ \A i \in 1 .. Len(s) : s[i] \in Calls
  OBVIOUS
<1>2. s \in [1 .. Len(s) -> Range(s)]
  BY <1>1 DEF Range
<1>3. s \in Bijection(1 .. Len(s), Range(s))
  <2>1. \A i, j \in 1 .. Len(s) : i # j => s[i] # s[j]
    BY <1>1 DEF NoRepeats
  <2>2. \A t \in Range(s) : \E i \in 1 .. Len(s) : s[i] = t
    BY <1>1 DEF Range
  <2>3. s \in Injection(1 .. Len(s), Range(s))
    BY <1>2, <2>1 DEF Injection, IsInjective
  <2>4. s \in Surjection(1 .. Len(s), Range(s))
    BY <1>2, <2>2 DEF Surjection
  <2> QED
    BY <2>3, <2>4 DEF Bijection
<1>4. ExistsBijection(1 .. Len(s), Range(s))
  BY <1>3 DEF ExistsBijection
<1>5. Range(s) \subseteq Calls
  BY <1>1 DEF Range
<1> QED
  BY <1>1, <1>4, <1>5, FS_CountingElements

LEMMA SentOnce ==
    ASSUME NEW em \in Seq(Calls), NEW ch, NEW kept, SentOK(em, ch, kept)
    PROVE  NoRepeats(ch)
<1>1. ch \in Seq(Calls) /\ Range(ch) \subseteq Range(em)
  BY DEF SentOK
<1>2. DOMAIN ch \subseteq Nat /\ \A i \in DOMAIN ch : ch[i] \in Range(ch)
  BY <1>1 DEF Range
<1>3. \A i \in DOMAIN ch : Place(em, ch[i]) \in Nat
  BY <1>1, <1>2, PlaceIs
<1>4. ASSUME NEW i \in DOMAIN ch, NEW j \in DOMAIN ch, ch[i] = ch[j] PROVE i = j
  <2>1. ~(i < j) /\ ~(j < i)
    BY <1>3, <1>4 DEF SentOK
  <2> QED
    BY <1>2, <2>1
<1> QED
  BY <1>4 DEF NoRepeats

(* Permits.                                                                *)
LEMMA ClassOfCall == ASSUME NEW c \in Calls PROVE CallClass[c] \in Classes
BY GateAssumption

LEMMA LimitIs == ASSUME NEW k \in Classes PROVE Limit(k) \in Nat /\ Limit(k) >= 1
<1> DEFINE p == Permits[k]
           m == IF p >= 1 THEN p ELSE 1
<1>1. p \in Nat
  BY GateAssumption
<1>2. Limit(k) = CHOOSE x \in {p, 1} : \A y \in {p, 1} : x >= y
  BY DEF Limit, Max
<1> HIDE DEF p
<1>3. m \in {p, 1} /\ (\A y \in {p, 1} : m >= y) /\ \A x \in {p, 1} : (\A y \in {p, 1} : x >= y) => x = m
  BY <1>1
<1> HIDE DEF m
<1>4. Limit(k) = m
  BY <1>2, <1>3
<1> QED
  BY <1>1, <1>3, <1>4

HasPermit(x) == x.step \in {"granted", "working"}
GateCalls == [step : CallSteps, since : Nat]

(* A call takes a step: it has a permit only if it had one or one was      *)
(* free, and it is queued only while it waits.                             *)
LEMMA QueuesFollow ==
    ASSUME GateInv, NEW c \in Calls, NEW x \in GateCalls, callAt' = [callAt EXCEPT ![c] = x],
           HasPermit(x) => HasPermit(callAt[c]) \/ Free(CallClass[c]),
           waiters' \in [Classes -> Seq(Calls)],
           \A k \in Classes : NoRepeats(waiters'[k]) /\ \A d \in Range(waiters'[k]) :
                \/ d \in Range(waiters[k]) /\ d # c
                \/ d = c /\ x.step = "waiting" /\ k = CallClass[c]
    PROVE  GateQueues' /\ callAt' \in [Calls -> GateCalls]
<1>1. callAt \in [Calls -> GateCalls]
  BY DEF GateInv, GateTypes, GateCalls
<1>2. /\ callAt' \in [Calls -> GateCalls] /\ callAt'[c] = x
      /\ \A d \in Calls : d # c => callAt'[d] = callAt[d]
  BY <1>1
<1>3. ASSUME NEW k \in Classes PROVE QueueOK(waiters'[k], callAt', k)
  <2>1. \A d \in Range(waiters[k]) : d \in Calls /\ callAt[d].step = "waiting" /\ CallClass[d] = k
    <3>1. waiters[k] \in Seq(Calls)
      BY DEF GateInv, GateQueues
    <3>2. \A d \in Range(waiters[k]) : d \in Calls
      BY <3>1 DEF Range
    <3> QED
      BY <3>2 DEF GateInv, GateQueues, QueueOK
  <2> QED
    BY <1>2, <2>1 DEF QueueOK
<1>4. ASSUME NEW k \in Classes PROVE Cardinality(Holding(k)') <= Limit(k)
  <2> DEFINE H == Holding(k)
             N == Holding(k)'
  <2>1. H \in SUBSET Calls /\ N \in SUBSET Calls
    BY DEF Holding
  <2>2. /\ IsFiniteSet(H) /\ IsFiniteSet(N) /\ Cardinality(H) \in Nat /\ Cardinality(N) \in Nat
        /\ Limit(k) \in Nat /\ Cardinality(H) <= Limit(k)
    BY <2>1, KeptFinite, LimitIs DEF GateInv, GateQueues
  <2>3. \A d \in N : d \in H \/ (d = c /\ HasPermit(x) /\ CallClass[c] = k)
    BY <1>2 DEF Holding, HasPermit
  <2>4. CallClass[c] = k /\ HasPermit(callAt[c]) => c \in H
    BY DEF Holding, HasPermit
  <2>5. CallClass[c] = k /\ Free(CallClass[c]) => Cardinality(H) < Limit(k)
    BY DEF Free
  <2> HIDE DEF H, N
  <2>6. CASE N \subseteq H
    <3>1. Cardinality(N) <= Cardinality(H)
      BY <2>2, <2>6, FS_Subset
    <3> QED
      BY <2>2, <3>1 DEF N
  <2>7. CASE ~(N \subseteq H)
    <3>1. N \subseteq H \cup {c} /\ Cardinality(H) < Limit(k)
      BY <2>3, <2>4, <2>5, <2>7
    <3>2. IsFiniteSet(H \cup {c}) /\ Cardinality(H \cup {c}) <= Cardinality(H) + 1
      <4>1. /\ IsFiniteSet(H \cup {c})
            /\ Cardinality(H \cup {c}) = IF c \in H THEN Cardinality(H) ELSE Cardinality(H) + 1
        BY <2>2, FS_AddElement, Zenon
      <4>2. \A n \in Nat : n <= n + 1 /\ n + 1 <= n + 1
        OBVIOUS
      <4> QED
        BY <2>2, <4>1, <4>2
    <3>3. Cardinality(H \cup {c}) \in Nat /\ Cardinality(N) <= Cardinality(H \cup {c})
      BY <3>1, <3>2, FS_Subset, FS_CardinalityType
    <3>4. Cardinality(N) <= Limit(k)
      BY <2>2, <3>1, <3>2, <3>3
    <3> QED
      BY <3>4 DEF N
  <2> QED
    BY <2>6, <2>7
<1>5. \A k \in Classes : Limit(k)' = Limit(k)
  BY DEF Limit
<1> QED
  BY <1>2, <1>3, <1>4, <1>5 DEF GateQueues

(* Who is not waiting is in no queue.                                      *)
LEMMA NotQueued ==
    ASSUME GateInv, NEW c \in Calls, callAt[c].step # "waiting", UNCHANGED waiters
    PROVE  /\ waiters' \in [Classes -> Seq(Calls)]
           /\ \A k \in Classes : NoRepeats(waiters'[k]) /\ \A d \in Range(waiters'[k]) : d \in Range(waiters[k]) /\ d # c
BY DEF GateInv, GateQueues, QueueOK

LEMMA CallLeaves ==
    ASSUME GateInv, NEW c \in Calls, waiters' = [waiters EXCEPT ![CallClass[c]] = RemoveFirst(@, c)]
    PROVE  /\ waiters' \in [Classes -> Seq(Calls)]
           /\ \A k \in Classes : NoRepeats(waiters'[k]) /\ \A d \in Range(waiters'[k]) : d \in Range(waiters[k]) /\ d # c
<1> DEFINE q == waiters[CallClass[c]]
           r == RemoveFirst(q, c)
<1>1. waiters \in [Classes -> Seq(Calls)] /\ \A k \in Classes : QueueOK(waiters[k], callAt, k)
  BY DEF GateInv, GateQueues
<1>2. CallClass[c] \in Classes
  BY ClassOfCall
<1>3. q \in Seq(Calls) /\ NoRepeats(q)
  BY <1>1, <1>2 DEF QueueOK
<1>4. r \in Seq(Calls) /\ Range(r) = Range(q) \ {c} /\ NoRepeats(r)
  <2> HIDE DEF q
  <2> QED
    BY <1>3, UnmarkedOf DEF Unmarked
<1> HIDE DEF r
<1>5. waiters' = [waiters EXCEPT ![CallClass[c]] = r]
  BY DEF r
<1>6. waiters' \in [Classes -> Seq(Calls)]
  BY <1>1, <1>4, <1>5
<1>7. ASSUME NEW k \in Classes
      PROVE  NoRepeats(waiters'[k]) /\ \A d \in Range(waiters'[k]) : d \in Range(waiters[k]) /\ d # c
  <2>1. CASE k = CallClass[c]
    BY <1>1, <1>4, <1>5, <2>1
  <2>2. CASE k # CallClass[c]
    BY <1>1, <1>5, <2>2 DEF QueueOK
  <2> QED
    BY <2>1, <2>2
<1> QED
  BY <1>6, <1>7

(* A step of a call.                                                       *)
LEMMA StepIs ==
    ASSUME GateInv, NEW c \in Calls, NEW s \in CallSteps
    PROVE  LET x == [step |-> s, since |-> callAt[c].since] IN
           /\ x \in GateCalls /\ x.step = s /\ Step(c, s) = [callAt EXCEPT ![c] = x]
<1>1. callAt \in [Calls -> GateCalls]
  BY DEF GateInv, GateTypes, GateCalls
<1> DEFINE v == callAt[c]
           x == [step |-> s, since |-> v.since]
<1>2. v \in GateCalls
  BY <1>1
<1>3. x \in GateCalls /\ x.step = s
  BY <1>2 DEF GateCalls
<1>4. [v EXCEPT !.step = s] = x
  BY <1>2 DEF GateCalls
<1>5. Step(c, s) = [callAt EXCEPT ![c] = [v EXCEPT !.step = s]]
  BY DEF Step
<1> QED
  BY <1>3, <1>4, <1>5

(* A step that leaves the records alone.                                   *)
LEMMA RecordsStay ==
    ASSUME GateInv, NEW c \in Calls, callAt[c].step # "done", NEW x, callAt' = [callAt EXCEPT ![c] = x],
           UNCHANGED <<gateNow, spoolVars, serverRuns>>, callAt' \in [Calls -> GateCalls], GateQueues'
    PROVE  GateInv'
<1>1. UNCHANGED <<gateNow, dropped, spoolSeq, serverRuns, emitted, forgotten, open, spool, channel>>
  BY DEF spoolVars
<1>2. GateTypes'
  BY <1>1 DEF GateInv, GateTypes, GateCalls
<1>3. ASSUME NEW d \in Range(emitted) PROVE callAt'[d].step = "done"
  <2>1. d \in Calls /\ callAt[d].step = "done"
    <3>1. emitted \in Seq(Calls)
      BY DEF GateInv, GateTypes
    <3>2. d \in Calls
      BY <3>1 DEF Range
    <3> QED
      BY <3>2 DEF GateInv, GateRecords
  <2> QED
    BY <2>1 DEF GateInv, GateTypes
<1>4. SpooledOrGone' = SpooledOrGone
  BY <1>1 DEF SpooledOrGone
<1>5. GateRecords'
  BY <1>1, <1>3, <1>4 DEF GateInv, GateRecords
<1> QED
  BY <1>2, <1>5 DEF GateInv

(* A call is answered: its record is new, and is sent or counted.          *)
LEMMA AnswerFacts ==
    ASSUME GateInv, NEW c \in Calls, callAt[c].step # "done", AnswerCall(c), GateQueues',
           callAt' \in [Calls -> GateCalls]
    PROVE  GateInv'
<1>1. /\ GateTypes /\ GateRecords /\ emitted \in Seq(Calls) /\ NoRepeats(emitted)
      /\ SpoolOK(emitted, spool, forgotten) /\ SentOK(emitted, channel, SpooledOrGone)
  BY DEF GateInv, GateTypes, GateRecords
<1>2. /\ emitted' = Append(emitted, c) /\ callAt' = Step(c, "done")
      /\ UNCHANGED <<gateNow, spool, spoolSeq, open, forgotten, serverRuns>>
  BY DEF AnswerCall, Emit
<1>3. \/ channel' = Append(channel, c) /\ dropped' = dropped
      \/ channel' = channel /\ dropped' = dropped + 1
  BY DEF AnswerCall, Emit, SendRecord
<1>4. c \notin Range(emitted)
  BY <1>1 DEF GateRecords
<1>5. /\ emitted' \in Seq(Calls) /\ NoRepeats(emitted') /\ Range(emitted') = Range(emitted) \cup {c}
      /\ Len(emitted') = Len(emitted) + 1
  BY <1>1, <1>2, <1>4, AppendOf
<1>6. SpooledOrGone' = SpooledOrGone /\ SpooledOrGone \subseteq Range(emitted)
  BY <1>1, <1>2 DEF SpooledOrGone, SpoolOK
<1>7. /\ SpoolOK(emitted', spool', forgotten')
      /\ serverRuns' = 1 => FirstGone(emitted', spool', forgotten')
  BY <1>1, <1>2, <1>4, SpoolStays DEF GateRecords
<1>8. SentOK(emitted', channel', SpooledOrGone')
  BY <1>1, <1>2, <1>3, <1>4, <1>6, SentStays
<1>9. Len(emitted') = dropped' + Len(channel') + Cardinality(SpooledOrGone')
  <2>1. /\ channel \in Seq(Calls) /\ Len(channel) \in Nat /\ Len(emitted) \in Nat /\ dropped \in Nat
        /\ Len(emitted) = dropped + Len(channel) + Cardinality(SpooledOrGone)
    BY <1>1 DEF SentOK, GateTypes, GateRecords
  <2>2. Cardinality(SpooledOrGone) \in Nat
    <3>1. SpooledOrGone \subseteq Calls
      BY <1>1, <1>6 DEF Range
    <3> QED
      BY <3>1, KeptFinite
  <2>3. Len(Append(channel, c)) = Len(channel) + 1
    BY <2>1
  <2> QED
    BY <1>3, <1>5, <1>6, <2>1, <2>2, <2>3
<1>10. GateTypes'
  <2>1. dropped' \in Nat
    BY <1>1, <1>3 DEF GateTypes
  <2> QED
    BY <1>1, <1>2, <1>5, <2>1 DEF GateTypes, GateCalls
<1>11. \A d \in Range(emitted') : callAt'[d].step = "done"
  <2>1. callAt \in [Calls -> GateCalls]
    BY <1>1 DEF GateTypes, GateCalls
  <2>2. /\ callAt'[c].step = "done"
        /\ \A d \in Calls : d # c => callAt'[d] = callAt[d]
    BY <1>2, <2>1 DEF Step, GateCalls
  <2>3. \A d \in Range(emitted) : d \in Calls /\ callAt[d].step = "done"
    BY <1>1 DEF GateRecords, Range
  <2> QED
    BY <1>5, <2>2, <2>3
<1>12. GateRecords'
  BY <1>7, <1>8, <1>9, <1>11 DEF GateRecords
<1> QED
  BY <1>10, <1>12 DEF GateInv

(* The steps of a call.                                                    *)
LEMMA StepInv ==
    ASSUME GateInv, NEW c \in Calls, NEW s \in CallSteps, callAt[c].step \notin {"done", s},
           callAt' = Step(c, s),
           s \in {"granted", "working"} => HasPermit(callAt[c]) \/ Free(CallClass[c]),
           waiters' \in [Classes -> Seq(Calls)],
           \A k \in Classes : NoRepeats(waiters'[k]) /\ \A d \in Range(waiters'[k]) :
                \/ d \in Range(waiters[k]) /\ d # c
                \/ d = c /\ s = "waiting" /\ k = CallClass[c]
    PROVE  /\ GateQueues' /\ callAt' \in [Calls -> GateCalls]
           /\ UNCHANGED <<gateNow, spoolVars, serverRuns>> => GateInv'
<1> DEFINE x == [step |-> s, since |-> callAt[c].since]
<1>1. x \in GateCalls /\ x.step = s /\ callAt' = [callAt EXCEPT ![c] = x]
  BY StepIs
<1> HIDE DEF x
<1>2. HasPermit(x) => HasPermit(callAt[c]) \/ Free(CallClass[c])
  BY <1>1 DEF HasPermit
<1>3. GateQueues' /\ callAt' \in [Calls -> GateCalls]
  BY <1>1, <1>2, QueuesFollow
<1> QED
  BY <1>1, <1>3, RecordsStay

LEMMA ReceiveInv == ASSUME GateInv, NEW c \in Calls, Receive(c) PROVE GateInv'
<1> DEFINE x == [step |-> "received", since |-> gateNow]
<1>1. callAt[c].step = "idle" /\ callAt' = [callAt EXCEPT ![c] = x] /\ UNCHANGED <<waiters, gateNow, spoolVars, serverRuns>>
  BY DEF Receive
<1>2. x \in GateCalls /\ ~HasPermit(x)
  BY DEF GateCalls, CallSteps, HasPermit, GateInv, GateTypes
<1> HIDE DEF x
<1>3. GateQueues' /\ callAt' \in [Calls -> GateCalls]
  BY <1>1, <1>2, NotQueued, QueuesFollow
<1> QED
  BY <1>1, <1>3, RecordsStay

(* An answer to a call that is in no queue any more.                       *)
LEMMA AnsweredInv ==
    ASSUME GateInv, NEW c \in Calls, callAt[c].step # "done", AnswerCall(c),
           waiters' \in [Classes -> Seq(Calls)],
           \A k \in Classes : NoRepeats(waiters'[k]) /\ \A d \in Range(waiters'[k]) : d \in Range(waiters[k]) /\ d # c
    PROVE  GateInv'
<1>1. callAt' = Step(c, "done")
  BY DEF AnswerCall
<1>2. "done" \in CallSteps /\ "done" \notin {"granted", "working"}
  BY DEF CallSteps
<1>3. GateQueues' /\ callAt' \in [Calls -> GateCalls]
  BY <1>1, <1>2, StepInv
<1> QED
  BY <1>3, AnswerFacts

LEMMA AcquirePermitInv == ASSUME GateInv, NEW c \in Calls, AcquirePermit(c) PROVE GateInv'
<1> DEFINE k == CallClass[c]
<1>1. callAt[c].step = "received" /\ k \in Classes
  BY ClassOfCall DEF AcquirePermit
<1>2. CASE /\ Free(k) /\ callAt' = [callAt EXCEPT ![c].step = "granted"]
           /\ UNCHANGED <<waiters, gateNow, spoolVars, serverRuns>>
  <2>1. callAt' = Step(c, "granted") /\ "granted" \in CallSteps
    BY <1>2 DEF Step, CallSteps
  <2>2. /\ waiters' \in [Classes -> Seq(Calls)]
        /\ \A n \in Classes : NoRepeats(waiters'[n]) /\ \A d \in Range(waiters'[n]) : d \in Range(waiters[n]) /\ d # c
    BY <1>1, <1>2, NotQueued
  <2>3. callAt[c].step \notin {"done", "granted"} /\ Free(CallClass[c]) /\ UNCHANGED <<gateNow, spoolVars, serverRuns>>
    BY <1>1, <1>2
  <2> QED
    BY <2>1, <2>2, <2>3, StepInv
<1>3. CASE AnswerCall(c) /\ UNCHANGED waiters
  BY <1>1, <1>3, NotQueued, AnsweredInv
<1>4. CASE /\ callAt' = [callAt EXCEPT ![c].step = "waiting"]
           /\ waiters' = [waiters EXCEPT ![k] = Append(@, c)]
           /\ UNCHANGED <<gateNow, spoolVars, serverRuns>>
  <2>1. callAt' = Step(c, "waiting") /\ "waiting" \in CallSteps
    BY <1>4 DEF Step, CallSteps
  <2>2. waiters \in [Classes -> Seq(Calls)] /\ \A n \in Classes : NoRepeats(waiters[n]) /\ c \notin Range(waiters[n])
    BY <1>1 DEF GateInv, GateQueues, QueueOK
  <2> DEFINE q == Append(waiters[k], c)
  <2>3. q \in Seq(Calls) /\ Range(q) = Range(waiters[k]) \cup {c} /\ NoRepeats(q)
    <3>1. waiters[k] \in Seq(Calls)
      BY <1>1, <2>2
    <3> QED
      BY <1>1, <2>2, <3>1, AppendOf
  <2>4. waiters' = [waiters EXCEPT ![k] = q]
    BY <1>4
  <2> HIDE DEF q, k
  <2>5. waiters' \in [Classes -> Seq(Calls)]
    BY <2>2, <2>3, <2>4
  <2>6. ASSUME NEW n \in Classes
        PROVE  NoRepeats(waiters'[n]) /\ \A d \in Range(waiters'[n]) :
                \/ d \in Range(waiters[n]) /\ d # c
                \/ d = c /\ n = k
    <3>1. CASE n = k
      BY <2>2, <2>3, <2>4, <3>1
    <3>2. CASE n # k
      BY <2>2, <2>4, <3>2
    <3> QED
      BY <3>1, <3>2
  <2> QED
    BY <1>1, <1>4, <2>1, <2>5, <2>6, StepInv DEF k
<1> QED
  BY <1>2, <1>3, <1>4 DEF AcquirePermit

LEMMA HandOverInv == ASSUME GateInv, NEW k \in Classes, HandOver(k) PROVE GateInv'
<1> DEFINE c == Head(waiters[k])
           t == Tail(waiters[k])
<1>1. waiters \in [Classes -> Seq(Calls)] /\ \A n \in Classes : QueueOK(waiters[n], callAt, n)
  BY DEF GateInv, GateQueues
<1>2. waiters[k] \in Seq(Calls) /\ NoRepeats(waiters[k]) /\ waiters[k] # <<>> /\ Free(k)
  BY <1>1 DEF HandOver, QueueOK
<1>3. /\ c \in Calls /\ t \in Seq(Calls) /\ Range(waiters[k]) = {c} \cup Range(t) /\ NoRepeats(t)
  BY <1>2, FrontOf
<1>4. c \notin Range(t)
  <2>1. /\ DOMAIN waiters[k] = 1 .. Len(waiters[k]) /\ Len(waiters[k]) \in Nat /\ Len(waiters[k]) > 0
        /\ c = waiters[k][1] /\ DOMAIN t = 1 .. Len(waiters[k]) - 1
        /\ \A i \in 1 .. Len(waiters[k]) - 1 : t[i] = waiters[k][i + 1]
    BY <1>2
  <2> HIDE DEF c, t
  <2>2. ASSUME NEW i \in DOMAIN t PROVE t[i] # c
    <3>1. i + 1 \in DOMAIN waiters[k] /\ 1 \in DOMAIN waiters[k] /\ i + 1 # 1 /\ t[i] = waiters[k][i + 1]
      BY <2>1
    <3> QED
      BY <1>2, <2>1, <3>1 DEF NoRepeats
  <2> QED
    BY <2>2 DEF Range
<1>5. callAt[c].step = "waiting" /\ CallClass[c] = k
  BY <1>1, <1>3 DEF QueueOK
<1>6. callAt' = Step(c, "granted") /\ "granted" \in CallSteps
      /\ waiters' = [waiters EXCEPT ![k] = t] /\ UNCHANGED <<gateNow, spoolVars, serverRuns>>
  BY DEF Step, CallSteps, HandOver
<1> HIDE DEF c, t
<1>7. waiters' \in [Classes -> Seq(Calls)]
  BY <1>1, <1>3, <1>6
<1>8. ASSUME NEW n \in Classes
      PROVE  NoRepeats(waiters'[n]) /\ \A d \in Range(waiters'[n]) : d \in Range(waiters[n]) /\ d # c
  <2>1. CASE n = k
    BY <1>1, <1>3, <1>4, <1>6, <2>1
  <2>2. CASE n # k
    BY <1>1, <1>5, <1>6, <2>2 DEF QueueOK
  <2> QED
    BY <2>1, <2>2
<1> QED
  BY <1>2, <1>3, <1>5, <1>6, <1>7, <1>8, StepInv

LEMMA CallInv ==
    ASSUME GateInv, NEW c \in Calls, RefuseLate(c) \/ GiveUp(c) \/ BeginWork(c) \/ Finish(c) \/ Cancel(c)
    PROVE  GateInv'
<1>1. CASE RefuseLate(c)
  <2>1. callAt[c].step = "received" /\ AnswerCall(c) /\ UNCHANGED waiters
    BY <1>1 DEF RefuseLate
  <2> QED
    BY <2>1, NotQueued, AnsweredInv
<1>2. CASE GiveUp(c)
  <2>1. callAt[c].step = "waiting" /\ AnswerCall(c) /\ waiters' = [waiters EXCEPT ![CallClass[c]] = RemoveFirst(@, c)]
    BY <1>2 DEF GiveUp
  <2> QED
    BY <2>1, CallLeaves, AnsweredInv
<1>3. CASE BeginWork(c)
  <2>1. callAt[c].step = "granted"
    BY <1>3 DEF BeginWork
  <2>2. CASE AnswerCall(c) /\ UNCHANGED waiters
    BY <2>1, <2>2, NotQueued, AnsweredInv
  <2>3. CASE callAt' = Step(c, "working") /\ UNCHANGED <<waiters, gateNow, spoolVars, serverRuns>>
    <3>1. "working" \in CallSteps /\ HasPermit(callAt[c])
      BY <2>1 DEF CallSteps, HasPermit
    <3> QED
      BY <2>1, <2>3, <3>1, NotQueued, StepInv
  <2> QED
    BY <1>3, <2>2, <2>3 DEF BeginWork
<1>4. CASE Finish(c)
  <2>1. callAt[c].step = "working" /\ AnswerCall(c) /\ UNCHANGED waiters
    BY <1>4 DEF Finish
  <2> QED
    BY <2>1, NotQueued, AnsweredInv
<1>5. CASE Cancel(c)
  <2>1. /\ callAt[c].step \in {"waiting", "granted"} /\ callAt' = Step(c, "gone") /\ "gone" \in CallSteps
        /\ waiters' = [waiters EXCEPT ![CallClass[c]] = RemoveFirst(@, c)]
        /\ UNCHANGED <<gateNow, spoolVars, serverRuns>>
    BY <1>5 DEF Cancel, CallSteps
  <2> QED
    BY <2>1, CallLeaves, StepInv
<1> QED
  BY <1>1, <1>2, <1>3, <1>4, <1>5

(* The writer.  A record goes from the channel into the kept ones, or is   *)
(* counted; whatever files there are then.                                 *)
LEMMA WriterInv ==
    ASSUME GateInv, WriterTakes, UNCHANGED <<callVars, gateNow, emitted, serverRuns>>,
           NEW h, h = Head(channel), SpoolOK(emitted, spool', forgotten'),
           FirstGone(emitted, spool, forgotten) => FirstGone(emitted, spool', forgotten'),
           \/ dropped' = dropped /\ SpooledOrGone' = SpooledOrGone \cup {h}
           \/ dropped' = dropped + 1 /\ SpooledOrGone' = SpooledOrGone,
           spoolSeq' \in Nat, open' \in DOMAIN spool', open' <= spoolSeq', \A f \in DOMAIN spool' : f <= open'
    PROVE  GateInv'
<1>1. /\ GateTypes /\ GateRecords /\ emitted \in Seq(Calls) /\ NoRepeats(emitted) /\ dropped \in Nat
      /\ SpoolOK(emitted, spool, forgotten) /\ SentOK(emitted, channel, SpooledOrGone)
      /\ Len(emitted) = dropped + Len(channel) + Cardinality(SpooledOrGone)
  BY DEF GateInv, GateTypes, GateRecords
<1>2. channel # <<>> /\ channel' = Tail(channel)
  BY DEF WriterTakes
<1>3. /\ h \in Calls /\ h \in Range(emitted) /\ \A c \in SpooledOrGone : Place(emitted, c) < Place(emitted, h)
      /\ SentOK(emitted, channel', SpooledOrGone) /\ SentOK(emitted, channel', SpooledOrGone \cup {h})
      /\ Len(channel') = Len(channel) - 1 /\ Len(channel) \in Nat
  BY <1>1, <1>2, Taken
<1>4. h \notin SpooledOrGone
  <2>1. Place(emitted, h) \in Nat
    BY <1>1, <1>3, PlaceIs
  <2> QED
    BY <1>3, <2>1
<1>5. SpooledOrGone \in SUBSET Calls
  <2>1. Range(emitted) \subseteq Calls
    BY <1>1 DEF Range
  <2> QED
    BY <1>1, <2>1 DEF SpoolOK, SpooledOrGone
<1>6. Cardinality(SpooledOrGone) \in Nat /\ Cardinality(SpooledOrGone \cup {h}) = Cardinality(SpooledOrGone) + 1
  BY <1>3, <1>4, <1>5, KeptFinite, OneMore
<1>7. Len(emitted) = dropped' + Len(channel') + Cardinality(SpooledOrGone') /\ dropped' \in Nat
  <2>1. \/ dropped' = dropped /\ Cardinality(SpooledOrGone') = Cardinality(SpooledOrGone) + 1
        \/ dropped' = dropped + 1 /\ Cardinality(SpooledOrGone') = Cardinality(SpooledOrGone)
    BY <1>6
  <2> DEFINE k == Cardinality(SpooledOrGone)
             j == Cardinality(SpooledOrGone')
             a == Len(channel)
             b == Len(channel')
  <2>2. /\ k \in Nat /\ a \in Nat /\ dropped \in Nat /\ b = a - 1 /\ Len(emitted) = dropped + a + k
        /\ (dropped' = dropped /\ j = k + 1) \/ (dropped' = dropped + 1 /\ j = k)
    BY <1>1, <1>3, <1>6, <2>1
  <2> HIDE DEF k, j, a, b
  <2>3. Len(emitted) = dropped' + b + j /\ dropped' \in Nat
    BY <2>2
  <2> QED
    BY <2>3 DEF j, b
<1>8. SentOK(emitted, channel', SpooledOrGone')
  BY <1>3
<1>9. forgotten' \subseteq Calls
  BY <1>1 DEF SpoolOK, Range
<1>10. GateTypes'
  BY <1>1, <1>7, <1>9 DEF GateTypes, callVars
<1>11. GateQueues'
  <2>1. UNCHANGED <<callAt, waiters>>
    BY DEF callVars
  <2>2. \A k \in Classes : Holding(k)' = Holding(k) /\ Limit(k)' = Limit(k)
    BY <2>1 DEF Holding, Limit
  <2> QED
    BY <2>1, <2>2 DEF GateInv, GateQueues
<1>12. GateRecords'
  <2>1. \A c \in Range(emitted') : callAt'[c].step = "done"
    BY <1>1 DEF GateRecords, callVars
  <2>2. serverRuns' = 1 => FirstGone(emitted', spool', forgotten')
    BY <1>1 DEF GateRecords
  <2> QED
    BY <1>7, <1>8, <2>1, <2>2 DEF GateRecords
<1> QED
  BY <1>10, <1>11, <1>12 DEF GateInv

LEMMA LastFile ==
    ASSUME GateInv
    PROVE  /\ open \in DOMAIN spool /\ open \in Nat /\ spoolSeq \in Nat /\ open <= spoolSeq
           /\ \A f \in DOMAIN spool : f \in Nat /\ f <= open
           /\ spoolSeq + 1 \in Nat /\ \A f \in DOMAIN spool : f < spoolSeq + 1
<1>1. /\ open \in DOMAIN spool /\ open <= spoolSeq /\ spoolSeq \in Nat /\ DOMAIN spool \in SUBSET Nat
      /\ \A f \in DOMAIN spool : f <= open
  BY DEF GateInv, GateTypes, GateRecords, SpoolOK, SpoolTyped
<1> QED
  BY <1>1

LEMMA AppendRecordInv == ASSUME GateInv, AppendRecord PROVE GateInv'
<1> DEFINE h == Head(channel)
           n == spoolSeq + 1
           kept == Rolled(spool, n).kept
           lost == Rolled(spool, n).lost
<1>1. /\ emitted \in Seq(Calls) /\ SpoolOK(emitted, spool, forgotten) /\ SentOK(emitted, channel, SpooledOrGone)
  BY DEF GateInv, GateTypes, GateRecords
<1>2. WriterTakes /\ channel # <<>> /\ UNCHANGED <<callVars, gateNow, dropped, emitted, serverRuns>>
  BY DEF AppendRecord, WriterTakes
<1>3. h \in Calls /\ h \in Range(emitted) /\ \A c \in SpooledOrGone : Place(emitted, c) < Place(emitted, h)
  BY <1>1, <1>2, Taken
<1>4. CASE openCount >= FileRecords
  <2>1. /\ spool' = [kept EXCEPT ![n] = Append(@, h)] /\ forgotten' = forgotten \cup lost
        /\ spoolSeq' = n /\ open' = n
    BY <1>4 DEF AppendRecord
  <2>2. n \in Nat /\ \A f \in DOMAIN spool : f < n
    BY LastFile
  <2> HIDE DEF h, n
  <2>3. /\ SpoolOK(emitted, kept, forgotten \cup lost) /\ Filed(kept) \cup lost = Filed(spool)
        /\ n \in DOMAIN kept /\ \A f \in DOMAIN kept : f <= n
        /\ FirstGone(emitted, spool, forgotten) => FirstGone(emitted, kept, forgotten \cup lost)
    BY <1>1, <2>2, RollFacts
  <2> HIDE DEF kept, lost
  <2>4. \A c \in Filed(kept) \cup (forgotten \cup lost) : Place(emitted, c) < Place(emitted, h)
    BY <1>3, <2>3 DEF SpooledOrGone
  <2> DEFINE next == WithRecord(kept, n, h)
  <2>5. /\ SpoolOK(emitted, next, forgotten \cup lost) /\ DOMAIN next = DOMAIN kept
        /\ Filed(next) = Filed(kept) \cup {h}
        /\ FirstGone(emitted, kept, forgotten \cup lost) => FirstGone(emitted, next, forgotten \cup lost)
    BY <1>1, <1>3, <2>3, <2>4, FileAppended
  <2> HIDE DEF next
  <2>6. spool' = next
    BY <2>1 DEF next, WithRecord
  <2>7. SpooledOrGone' = SpooledOrGone \cup {h}
    BY <2>1, <2>3, <2>5, <2>6 DEF SpooledOrGone
  <2>8. h = Head(channel)
    BY DEF h
  <2>9. spoolSeq' \in Nat /\ open' \in DOMAIN spool' /\ open' <= spoolSeq' /\ \A f \in DOMAIN spool' : f <= open'
    BY <2>1, <2>2, <2>3, <2>5, <2>6
  <2>10. SpoolOK(emitted, spool', forgotten')
         /\ (FirstGone(emitted, spool, forgotten) => FirstGone(emitted, spool', forgotten'))
    BY <2>1, <2>3, <2>5, <2>6
  <2> QED
    BY <1>2, <2>7, <2>8, <2>9, <2>10, WriterInv
<1>5. CASE ~(openCount >= FileRecords)
  <2>1. /\ spool' = [spool EXCEPT ![open] = Append(@, h)] /\ forgotten' = forgotten
        /\ spoolSeq' = spoolSeq /\ open' = open
    BY <1>5 DEF AppendRecord
  <2>2. open \in DOMAIN spool /\ open \in Nat /\ spoolSeq \in Nat /\ open <= spoolSeq /\ \A f \in DOMAIN spool : f <= open
    BY LastFile
  <2> HIDE DEF h
  <2>3. \A c \in Filed(spool) \cup forgotten : Place(emitted, c) < Place(emitted, h)
    BY <1>3 DEF SpooledOrGone
  <2> DEFINE next == WithRecord(spool, open, h)
  <2>5. /\ SpoolOK(emitted, next, forgotten) /\ DOMAIN next = DOMAIN spool
        /\ Filed(next) = Filed(spool) \cup {h}
        /\ FirstGone(emitted, spool, forgotten) => FirstGone(emitted, next, forgotten)
    BY <1>1, <1>3, <2>2, <2>3, FileAppended
  <2> HIDE DEF next
  <2>6. spool' = next
    BY <2>1 DEF next, WithRecord
  <2>7. SpooledOrGone' = SpooledOrGone \cup {h}
    BY <2>1, <2>5, <2>6 DEF SpooledOrGone
  <2>8. h = Head(channel)
    BY DEF h
  <2>9. spoolSeq' \in Nat /\ open' \in DOMAIN spool' /\ open' <= spoolSeq' /\ \A f \in DOMAIN spool' : f <= open'
    BY <2>1, <2>2, <2>5, <2>6
  <2>10. SpoolOK(emitted, spool', forgotten')
         /\ (FirstGone(emitted, spool, forgotten) => FirstGone(emitted, spool', forgotten'))
    BY <2>1, <2>5, <2>6
  <2> QED
    BY <1>2, <2>7, <2>8, <2>9, <2>10, WriterInv
<1> QED
  BY <1>4, <1>5

LEMMA AppendFailsInv == ASSUME GateInv, AppendFails PROVE GateInv'
<1> DEFINE n == spoolSeq + 1
<1>1. emitted \in Seq(Calls) /\ SpoolOK(emitted, spool, forgotten)
  BY DEF GateInv, GateTypes, GateRecords
<1>2. WriterTakes /\ dropped' = dropped + 1 /\ UNCHANGED <<callVars, gateNow, emitted, forgotten, serverRuns>>
  BY DEF AppendFails
<1>3. /\ open \in DOMAIN spool /\ open \in Nat /\ spoolSeq \in Nat /\ open <= spoolSeq
      /\ n \in Nat /\ spoolSeq <= n /\ open <= n
      /\ \A f \in DOMAIN spool : f \in Nat /\ f <= open /\ f < n
  BY LastFile
<1>4. CASE spoolSeq' \in {spoolSeq, n} /\ UNCHANGED <<spool, open>>
  <2>1. SpooledOrGone' = SpooledOrGone
    BY <1>2, <1>4 DEF SpooledOrGone
  <2>2. spoolSeq' \in Nat /\ open' \in DOMAIN spool' /\ open' <= spoolSeq' /\ \A f \in DOMAIN spool' : f <= open'
    BY <1>3, <1>4
  <2>3. SpoolOK(emitted, spool', forgotten')
        /\ (FirstGone(emitted, spool, forgotten) => FirstGone(emitted, spool', forgotten'))
    BY <1>1, <1>2, <1>4
  <2> QED
    BY <1>2, <2>1, <2>2, <2>3, WriterInv
<1>5. CASE spoolSeq' = n /\ open' = n /\ spool' = WithFile(spool, n)
  <2>1. n \notin DOMAIN spool
    BY <1>3
  <2> HIDE DEF n
  <2>2. /\ SpoolOK(emitted, spool', forgotten) /\ Filed(spool') = Filed(spool) /\ DOMAIN spool' = DOMAIN spool \cup {n}
    BY <1>1, <1>3, <1>5, <2>1, FileOpened
  <2>3. SpooledOrGone' = SpooledOrGone
    BY <1>2, <2>2 DEF SpooledOrGone
  <2>4. spoolSeq' \in Nat /\ open' \in DOMAIN spool' /\ open' <= spoolSeq' /\ \A f \in DOMAIN spool' : f <= open'
    BY <1>3, <1>5, <2>2
  <2>5. FirstGone(emitted, spool, forgotten) => FirstGone(emitted, spool', forgotten')
    BY <1>2, <2>2 DEF FirstGone
  <2>6. SpoolOK(emitted, spool', forgotten')
    BY <1>2, <2>2
  <2> QED
    BY <1>2, <2>3, <2>4, <2>5, <2>6, WriterInv
<1> QED
  BY <1>4, <1>5 DEF AppendFails, WithFile

(* Two sets without a common element.                                      *)
LEMMA ApartCount ==
    ASSUME NEW A \in SUBSET Calls, NEW B \in SUBSET Calls, A \cap B = {}
    PROVE  Cardinality(A \cup B) = Cardinality(A) + Cardinality(B)
<1>1. IsFiniteSet(A) /\ IsFiniteSet(B) /\ Cardinality(A) \in Nat /\ Cardinality(B) \in Nat
  BY KeptFinite
<1>2. Cardinality(A \cup B) = Cardinality(A) + Cardinality(B) - Cardinality(A \cap B)
  BY <1>1, FS_Union
<1>3. Cardinality(A \cap B) = 0
  BY FS_EmptySet
<1> QED
  BY <1>1, <1>2, <1>3

LEMMA LastSequenceIs == ASSUME GateInv PROVE LastSequence = open
<1> DEFINE S == DOMAIN spool \cup {0}
<1>1. open \in S /\ \A y \in S : open >= y
  BY LastFile
<1>2. \A x \in S : (\A y \in S : x >= y) => x = open
  BY <1>1, LastFile
<1>3. LastSequence = CHOOSE x \in S : \A y \in S : x >= y
  BY DEF LastSequence, Max
<1> HIDE DEF S
<1> QED
  BY <1>1, <1>2, <1>3

LEMMA RestartServerInv == ASSUME GateInv, RestartServer PROVE GateInv'
<1> DEFINE n == open + 1
           kept == Rolled(spool, n).kept
           lost == Rolled(spool, n).lost
           gone == forgotten \cup lost
<1>1. /\ GateTypes /\ GateRecords /\ emitted \in Seq(Calls) /\ SpoolOK(emitted, spool, forgotten)
      /\ SentOK(emitted, channel, SpooledOrGone) /\ callAt \in [Calls -> GateCalls]
      /\ serverRuns \in Nat /\ serverRuns >= 1
  BY DEF GateInv, GateTypes, GateRecords, GateCalls
<1>2. /\ spool' = kept /\ forgotten' = forgotten \cup lost \cup Range(channel)
      /\ spoolSeq' = n /\ open' = n /\ channel' = <<>> /\ serverRuns' = serverRuns + 1
      /\ UNCHANGED <<gateNow, dropped, emitted>>
      /\ waiters' = [k \in Classes |-> <<>>]
      /\ callAt' = [c \in Calls |-> IF callAt[c].step \in {"idle", "done"} THEN callAt[c]
                                    ELSE [callAt[c] EXCEPT !.step = "gone"]]
  <2>1. LastSequence + 1 = n
    BY LastSequenceIs
  <2> HIDE DEF n
  <2> QED
    BY <2>1 DEF RestartServer
<1>3. n \in Nat /\ \A f \in DOMAIN spool : f < n
  BY LastFile
<1> HIDE DEF n
<1>4. /\ SpoolOK(emitted, kept, gone) /\ Filed(kept) \cup lost = Filed(spool)
      /\ n \in DOMAIN kept /\ \A f \in DOMAIN kept : f <= n
  BY <1>1, <1>3, RollFacts
<1> HIDE DEF kept, lost, gone
<1>5. gone = forgotten \cup lost /\ forgotten' = gone \cup Range(channel)
  BY <1>2 DEF gone
<1>6. Range(channel) \subseteq Range(emitted) /\ Range(emitted) \subseteq Calls /\ channel \in Seq(Calls)
  <2>1. Range(emitted) \subseteq Calls
    BY <1>1 DEF Range
  <2> QED
    BY <1>1, <2>1 DEF SentOK
<1>7. SpooledOrGone \cap Range(channel) = {}
  <2>1. ASSUME NEW c \in SpooledOrGone, c \in Range(channel) PROVE FALSE
    <3>1. Place(emitted, c) < Place(emitted, c)
      BY <1>1, <2>1 DEF SentOK
    <3>2. Place(emitted, c) \in Nat
      BY <1>1, <1>6, <2>1, PlaceIs
    <3> QED
      BY <3>1, <3>2
  <2> QED
    BY <2>1
<1>8. SpooledOrGone' = SpooledOrGone \cup Range(channel)
  BY <1>2, <1>4, <1>5 DEF SpooledOrGone
<1>9. SpoolOK(emitted, spool', forgotten')
  <2>1. Filed(kept) \cap Range(channel) = {}
    BY <1>4, <1>7 DEF SpooledOrGone
  <2> QED
    BY <1>2, <1>4, <1>5, <1>6, <2>1 DEF SpoolOK
<1>10. SentOK(emitted, channel', SpooledOrGone')
  <2>1. <<>> \in Seq(Calls) /\ DOMAIN <<>> = {}
    OBVIOUS
  <2>2. Range(<<>>) = {}
    BY <2>1 DEF Range
  <2> QED
    BY <1>2, <2>1, <2>2 DEF SentOK
<1>11. Len(emitted) = dropped' + Len(channel') + Cardinality(SpooledOrGone')
  <2>1. SpooledOrGone \in SUBSET Calls
    BY <1>1, <1>6 DEF SpoolOK, SpooledOrGone
  <2>2. Cardinality(SpooledOrGone') = Cardinality(SpooledOrGone) + Cardinality(Range(channel))
    BY <1>6, <1>7, <1>8, <2>1, ApartCount
  <2>3. Cardinality(Range(channel)) = Len(channel)
    BY <1>1, <1>6, SentOnce, RangeCount
  <2>4. Len(channel') = 0 /\ Len(channel) \in Nat /\ Cardinality(SpooledOrGone) \in Nat
    BY <1>2, <1>6, <2>1, KeptFinite
  <2>5. dropped \in Nat /\ Len(emitted) = dropped + Len(channel) + Cardinality(SpooledOrGone)
    BY <1>1 DEF GateTypes, GateRecords
  <2> DEFINE k == Cardinality(SpooledOrGone)
             a == Len(channel)
  <2>6. k \in Nat /\ a \in Nat /\ Cardinality(SpooledOrGone') = k + a /\ Len(emitted) = dropped + a + k
    BY <2>2, <2>3, <2>4, <2>5
  <2> HIDE DEF k, a
  <2> QED
    BY <1>2, <2>4, <2>5, <2>6
<1>12. callAt' \in [Calls -> GateCalls]
  <2>1. ASSUME NEW c \in Calls PROVE callAt'[c] \in GateCalls
    <3>1. callAt[c] \in GateCalls
      BY <1>1
    <3>2. [callAt[c] EXCEPT !.step = "gone"] \in GateCalls
      BY <3>1 DEF GateCalls, CallSteps
    <3> QED
      BY <1>2, <3>1, <3>2
  <2> QED
    BY <1>2, <2>1
<1>13. \A c \in Calls : callAt[c].step = "done" => callAt'[c].step = "done"
  BY <1>2
<1>14. \A c \in Calls : ~HasPermit(callAt'[c])
  <2>1. ASSUME NEW c \in Calls PROVE callAt'[c].step \in {"idle", "done", "gone"}
    <3>1. callAt[c] \in GateCalls
      BY <1>1
    <3>2. [callAt[c] EXCEPT !.step = "gone"].step = "gone"
      BY <3>1 DEF GateCalls
    <3> QED
      BY <1>2, <3>2
  <2> QED
    BY <2>1 DEF HasPermit
<1>15. GateTypes'
  <2>1. forgotten' \subseteq Calls
    BY <1>6, <1>9 DEF SpoolOK
  <2>2. serverRuns' \in Nat /\ serverRuns' >= 1
    BY <1>1, <1>2
  <2>3. spoolSeq' \in Nat /\ open' \in DOMAIN spool' /\ open' <= spoolSeq' /\ \A f \in DOMAIN spool' : f <= open'
    BY <1>2, <1>3, <1>4
  <2> QED
    BY <1>1, <1>2, <1>12, <2>1, <2>2, <2>3 DEF GateTypes, GateCalls
<1>16. GateQueues'
  <2>1. ASSUME NEW k \in Classes PROVE QueueOK(waiters'[k], callAt', k) /\ waiters'[k] \in Seq(Calls)
    <3>1. waiters'[k] = <<>> /\ <<>> \in Seq(Calls) /\ DOMAIN <<>> = {}
      BY <1>2
    <3> QED
      BY <3>1 DEF QueueOK, NoRepeats, Range
  <2>2. ASSUME NEW k \in Classes PROVE Cardinality(Holding(k)') <= Limit(k)'
    <3>1. Holding(k)' = {}
      BY <1>14 DEF Holding, HasPermit
    <3>2. Limit(k)' = Limit(k)
      BY DEF Limit
    <3> QED
      BY <3>1, <3>2, FS_EmptySet, LimitIs
  <2> QED
    BY <1>2, <2>1, <2>2 DEF GateQueues
<1>17. GateRecords'
  <2>1. \A c \in Range(emitted') : callAt'[c].step = "done"
    BY <1>1, <1>2, <1>6, <1>13 DEF GateRecords
  <2>2. serverRuns' # 1
    BY <1>1, <1>2
  <2> QED
    BY <1>2, <1>9, <1>10, <1>11, <2>1, <2>2 DEF GateRecords
<1> QED
  BY <1>15, <1>16, <1>17 DEF GateInv

LEMMA GateTickInv == ASSUME GateInv, GateTick \/ UNCHANGED gateVars PROVE GateInv'
<1>1. /\ UNCHANGED <<callAt, waiters, dropped, spoolSeq, serverRuns, emitted, forgotten, open, spool, channel>>
      /\ gateNow' \in Nat
  BY DEF GateTick, gateVars, callVars, spoolVars, GateInv, GateTypes
<1>2. GateTypes'
  BY <1>1 DEF GateInv, GateTypes
<1>3. \A k \in Classes : Holding(k)' = Holding(k) /\ Limit(k)' = Limit(k)
  BY <1>1 DEF Holding, Limit
<1>4. GateQueues'
  BY <1>1, <1>3 DEF GateInv, GateQueues
<1>5. SpooledOrGone' = SpooledOrGone
  BY <1>1 DEF SpooledOrGone
<1>6. GateRecords'
  BY <1>1, <1>5 DEF GateInv, GateRecords
<1> QED
  BY <1>2, <1>4, <1>6 DEF GateInv

LEMMA GateStart == GateInit => GateInv
<1> SUFFICES ASSUME GateInit PROVE GateInv
  OBVIOUS
<1>1. <<>> \in Seq(Calls) /\ DOMAIN <<>> = {} /\ Len(<<>>) = 0
  OBVIOUS
<1>2. Range(<<>>) = {} /\ NoRepeats(<<>>)
  BY <1>1 DEF Range, NoRepeats
<1>3. spool = [f \in {1} |-> <<>>] /\ DOMAIN spool = {1} /\ spool[1] = <<>>
  BY DEF GateInit
<1>4. SpoolTyped(spool)
  <2>1. IsFiniteSet({1})
    BY FS_Singleton
  <2> QED
    BY <1>1, <1>3, <2>1 DEF SpoolTyped
<1>5. Filed(spool) = {}
  BY <1>2, <1>3 DEF Filed
<1>6. FilesOrdered(emitted, spool)
  BY <1>1, <1>3 DEF FilesOrdered
<1>7. SpooledOrGone = {} /\ forgotten = {} /\ emitted = <<>> /\ channel = <<>>
  BY <1>5 DEF SpooledOrGone, GateInit
<1>8. GateRecords
  <2>1. SpoolOK(emitted, spool, forgotten)
    BY <1>4, <1>5, <1>6, <1>7 DEF SpoolOK
  <2>2. SentOK(emitted, channel, SpooledOrGone) /\ FirstGone(emitted, spool, forgotten)
    BY <1>1, <1>2, <1>7 DEF SentOK, FirstGone
  <2>3. Len(emitted) = dropped + Len(channel) + Cardinality(SpooledOrGone)
    BY <1>1, <1>7, FS_EmptySet DEF GateInit
  <2> QED
    BY <1>2, <1>7, <2>1, <2>2, <2>3 DEF GateRecords
<1>9. GateTypes
  BY <1>1, <1>2, <1>3, <1>7 DEF GateTypes, GateInit, CallSteps
<1>10. ASSUME NEW k \in Classes
       PROVE  QueueOK(waiters[k], callAt, k) /\ waiters[k] \in Seq(Calls) /\ Cardinality(Holding(k)) <= Limit(k)
  <2>1. waiters[k] = <<>>
    BY DEF GateInit
  <2>2. Holding(k) = {}
    BY DEF Holding, GateInit
  <2>3. Cardinality(Holding(k)) = 0
    BY <2>2, FS_EmptySet
  <2> QED
    BY <1>1, <1>2, <2>1, <2>3, LimitIs DEF QueueOK
<1>11. GateQueues
  BY <1>10 DEF GateQueues, GateInit
<1> QED
  BY <1>8, <1>9, <1>11 DEF GateInv

LEMMA GateInvAccounts == GateInv => GateAccounts
<1> SUFFICES ASSUME GateInv PROVE GateAccounts
  OBVIOUS
<1>1. /\ emitted \in Seq(Calls) /\ SpoolOK(emitted, spool, forgotten)
      /\ Len(emitted) = dropped + Len(channel) + Cardinality(SpooledOrGone) /\ dropped \in Nat /\ channel \in Seq(Calls)
  BY DEF GateInv, GateTypes, GateRecords, SentOK
<1>2. Filed(spool) = InFiles /\ \A c : Emission(c) = Place(emitted, c)
  BY DEF Filed, InFiles, Emission, Place
<1>3. QueueIsLive
  <2>1. ASSUME NEW k \in Classes, NEW n \in DOMAIN waiters[k] PROVE callAt[waiters[k][n]].step = "waiting"
    <3>1. waiters[k][n] \in Range(waiters[k])
      BY DEF Range
    <3> QED
      BY <3>1 DEF GateInv, GateQueues, QueueOK
  <2> QED
    BY <2>1 DEF QueueIsLive, GateInv, GateQueues
<1>4. RecordsAccounted
  <2>1. InFiles \in SUBSET Calls /\ forgotten \in SUBSET Calls /\ InFiles \cap forgotten = {} /\ SpooledOrGone = InFiles \cup forgotten
    <3>1. Range(emitted) \subseteq Calls
      BY <1>1 DEF Range
    <3> QED
      BY <1>1, <1>2, <3>1 DEF SpoolOK, SpooledOrGone
  <2>2. Cardinality(SpooledOrGone) = Cardinality(InFiles) + Cardinality(forgotten)
    BY <2>1, ApartCount
  <2>3. Cardinality(InFiles) \in Nat /\ Cardinality(forgotten) \in Nat /\ Len(channel) \in Nat
    BY <1>1, <2>1, KeptFinite
  <2> DEFINE a == Cardinality(InFiles)
             b == Cardinality(forgotten)
             l == Len(channel)
  <2>4. a \in Nat /\ b \in Nat /\ l \in Nat /\ Len(emitted) = dropped + l + (a + b)
    BY <1>1, <2>2, <2>3
  <2> HIDE DEF a, b, l
  <2>5. Len(emitted) = dropped + l + a + b
    BY <1>1, <2>4
  <2> QED
    BY <2>5 DEF RecordsAccounted, a, b, l
<1>5. SpoolInOrder
  <2>1. FilesOrdered(emitted, spool) /\ (serverRuns = 1 => FirstGone(emitted, spool, forgotten))
    BY DEF GateInv, GateRecords, SpoolOK
  <2> QED
    BY <1>2, <2>1 DEF SpoolInOrder, FilesOrdered, FirstGone
<1> QED
  BY <1>3, <1>4, <1>5 DEF GateAccounts

(* A shard's gate queues only calls that still want a permit, never lets   *)
(* more work at once than a class has permits, and each finished call      *)
(* leaves one record, spooled in order, deleted in order or counted.  For  *)
(* any calls, permits, timeouts, capacities and retention, any number of   *)
(* failures of the file system and of restarts.                            *)
THEOREM GateAlwaysAccounts == GateSpec => []GateAccounts
<1>1. GateInv /\ [GateNext]_gateVars => GateInv'
  <2> SUFFICES ASSUME GateInv, [GateNext]_gateVars PROVE GateInv'
    OBVIOUS
  <2>1. ASSUME NEW c \in Calls, \/ Receive(c) \/ RefuseLate(c) \/ AcquirePermit(c) \/ GiveUp(c)
                                \/ BeginWork(c) \/ Finish(c) \/ Cancel(c)
        PROVE  GateInv'
    BY <2>1, ReceiveInv, AcquirePermitInv, CallInv
  <2>2. ASSUME NEW k \in Classes, HandOver(k) PROVE GateInv'
    BY <2>2, HandOverInv
  <2>3. CASE AppendRecord \/ AppendFails \/ RestartServer
    BY <2>3, AppendRecordInv, AppendFailsInv, RestartServerInv
  <2>4. CASE GateTick \/ UNCHANGED gateVars
    BY <2>4, GateTickInv
  <2> QED
    BY <2>1, <2>2, <2>3, <2>4 DEF GateNext
<1> QED
  BY <1>1, GateStart, GateInvAccounts, PTL DEF GateSpec

=============================================================================
