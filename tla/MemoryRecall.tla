---------------------------- MODULE MemoryRecall ----------------------------
(***************************************************************************)
(* The memory service over the ledger: the preview projections, their      *)
(* replay, and recall (MemoryServiceImpl in grpc-server/src/memory.rs).    *)
(*                                                                         *)
(* A handler commits to the ledger and then brings the projections up to   *)
(* the sequence it sees, holding projection_replay_lock.  The ledger goes  *)
(* on meanwhile: it is locked only for each read and for each batch.  A    *)
(* recall catches up, reads the lexical projection and the ledger, and     *)
(* stores what it returned as a snapshot.                                  *)
(***************************************************************************)
EXTENDS MemoryLedger, SequencesExt

CONSTANTS
    Clients,       \* callers of recall
    ReplayBatch,   \* PROJECTION_REPLAY_BATCH
    MinBlock,      \* the least room pack_context starts a block in
    Overhead,      \* the header and the footer of a block
    MaxSnapshots,  \* bound: recalls retained at a time
    MaxCrashes     \* bound: restarts of the service

ASSUME RecallAssumption == ReplayBatch \in Nat \ {0} /\ {MinBlock, Overhead, MaxSnapshots, MaxCrashes} \subseteq Nat

VARIABLES
    applied,    \* applied_sequence of the checkpoint of each projection
    ready,      \* projections whose checkpoint says Ready
    docs,       \* the documents of each projection
    count,      \* document_count of the lexical corpus statistics
    replay,     \* the catch-up that holds projection_replay_lock
    recall,     \* the recall of each client
    crashes

projVars == <<applied, ready, docs, count>>
vars == <<ledgerVars, projVars, replay, recall, crashes>>

Order == <<"canonical", "structured", "lexical">>
Projections == {Order[i] : i \in DOMAIN Order}

NoReplay == [pc |-> "free", for |-> None, target |-> 0, next |-> 0, upto |-> 0, proj |-> 1,
             put |-> {}, del |-> {}]
NoRecall == [pc |-> "idle", proof |-> {}, at |-> 0, results |-> {}]

-----------------------------------------------------------------------------
(* Replay.                                                                 *)

(* A plausible bug: the furthest checkpoint.                               *)
Furthest == CHOOSE n \in {applied[p] : p \in Projections} : \A p \in Projections : n >= applied[p]

(* The checkpoint all mandatory projections have reached.                  *)
Reached == CHOOSE n \in {applied[p] : p \in Projections} : \A p \in Projections : n <= applied[p]

(* catch_up_preview_projections takes the lock and reads its target: for a *)
(* client's recall, or for a writer (None) after its commit.               *)
StartReplay(c) ==
    /\ replay.pc = "free"
    /\ c # None => recall[c].pc = "waiting"
    /\ seq > 0
    /\ replay' = [NoReplay EXCEPT !.pc = "batch", !.for = c, !.target = seq, !.next = Reached + 1]
    /\ UNCHANGED <<ledgerVars, projVars, recall, crashes>>

(* On an empty ledger there is nothing to wait for.                        *)
ZeroVisibility(c) ==
    /\ replay.pc = "free" /\ seq = 0
    /\ recall[c].pc = "waiting"
    /\ recall' = [recall EXCEPT ![c].pc = "visible", ![c].at = 0]
    /\ UNCHANGED <<ledgerVars, projVars, replay, crashes>>

(* outbox_entries returns what is there, which may be beyond the target.   *)
ReadBatch ==
    /\ replay.pc = "batch" /\ replay.next <= replay.target
    /\ replay' = [replay EXCEPT !.pc = "compute",
           !.upto = IF seq < replay.next + ReplayBatch - 1 THEN seq ELSE replay.next + ReplayBatch - 1]
    /\ UNCHANGED <<ledgerVars, projVars, recall, crashes>>

(* The versions of a mutation that are active now, not when it committed.  *)
ActiveOutputs(m) == {v \in m.out \cap Existing : Current(v) = "Active"}

(* preview_projection_operations and its lexical variant, for entry n and  *)
(* a mutation's versions: a projection puts documents or takes them out.   *)
Puts(p, n) == IF p = "canonical" THEN {n}
              ELSE IF log[n].op \in {"Observe", "Reinforce", "RetentionDelete"} THEN {}
              ELSE ActiveOutputs(log[n])
Deletes(p, n) == IF p # "canonical" /\ log[n].op = "RetentionDelete" THEN log[n].in ELSE {}

(* The lexical projection counts, so it looks before it writes.            *)
Operation(p, n) ==
    [put |-> IF p = "lexical" THEN Puts(p, n) \ docs[p] ELSE Puts(p, n),
     del |-> IF p = "lexical" THEN Deletes(p, n) \cap docs[p] ELSE Deletes(p, n)]

(* The operations are computed from the ledger and from the projection ... *)
ComputeOperations ==
    /\ replay.pc = "compute"
    /\ LET o == Operation(Order[replay.proj], replay.next)
       IN  replay' = [replay EXCEPT !.pc = "apply", !.put = o.put, !.del = o.del]
    /\ UNCHANGED <<ledgerVars, projVars, recall, crashes>>

(* ... and applied in one batch with the checkpoint, in a later step.      *)
(* A projection that is ahead answers Duplicate.                           *)
ApplyOperations ==
    /\ replay.pc = "apply"
    /\ LET p == Order[replay.proj]
           fresh == replay.next = applied[p] + 1
       IN  /\ replay.next <= applied[p] + 1
           /\ applied' = [applied EXCEPT ![p] = IF fresh THEN replay.next ELSE @]
           /\ ready' = IF fresh THEN ready \ {p} ELSE ready
           /\ docs' = [docs EXCEPT ![p] = IF fresh THEN (@ \cup replay.put) \ replay.del ELSE @]
           /\ count' = IF fresh /\ p = "lexical"
                       THEN count + Cardinality(replay.put) - Cardinality(replay.del) ELSE count
    /\ replay' =
           [replay EXCEPT
               !.put = {}, !.del = {},
               !.proj = IF @ < Len(Order) THEN @ + 1 ELSE 1,
               !.next = IF replay.proj < Len(Order) THEN @ ELSE @ + 1,
               !.pc = IF replay.proj = Len(Order) /\ replay.next = replay.upto
                      THEN "batch" ELSE "compute"]
    /\ UNCHANGED <<ledgerVars, recall, crashes>>

(* try_mark_projection_ready_at: only if nothing was committed meanwhile.  *)
MarkReady ==
    /\ replay.pc = "batch" /\ replay.next > replay.target
    /\ ready' = IF seq = replay.target
                THEN ready \cup {p \in Projections : applied[p] = seq} ELSE ready
    /\ replay' = [replay EXCEPT !.pc = "receipt"]
    /\ UNCHANGED <<ledgerVars, applied, docs, count, recall, crashes>>

(* visibility_receipt: every projection has reached the target.            *)
Visible(n) == \A p \in Projections : applied[p] >= n

Receipt ==
    /\ replay.pc = "receipt" /\ Visible(replay.target)
    /\ replay' = NoReplay
    /\ recall' = IF replay.for = None THEN recall
                 ELSE [recall EXCEPT ![replay.for].pc = "visible", ![replay.for].at = replay.target]
    /\ UNCHANGED <<ledgerVars, projVars, crashes>>

-----------------------------------------------------------------------------
(* Recall.                                                                 *)

AskRecall(c, p) ==
    /\ recall[c].pc = "idle"
    /\ Cardinality(snapshots) < MaxSnapshots
    /\ recall' = [recall EXCEPT ![c] = [NoRecall EXCEPT !.pc = "waiting", !.proof = p]]
    /\ UNCHANGED <<ledgerVars, projVars, replay, crashes>>

(* A plausible bug: candidates as they are now.                            *)
CandidatesNow(p, n) == docs["lexical"] \cap ActiveNow(p)

(* get_projection_value, scan_projection_values and their like read the    *)
(* documents of one projection without the ledger's lock.                  *)
Documents(p) == docs[p]

(* projected_candidates under a temporal query as known at n: documents of *)
(* the lexical projection that the ledger confirms.                        *)
Candidates(p, n) == Documents("lexical") \cap AsOf(p, n)

(* rank_candidates_explained: those of the pool that match the query or    *)
(* the filters, by score and then by identifier ...                        *)
Ranked(matched, score) ==
    SetToSortSeq(matched, LAMBDA v, w : score[v] > score[w] \/ (score[v] = score[w] /\ v < w))

(* ... with a decision for each of the pool, those without a rank last.    *)
Decisions(pool, ranked) ==
    LET rankOf == [v \in pool |-> IF Contains(ranked, v) THEN CHOOSE i \in DOMAIN ranked : ranked[i] = v
                                  ELSE Cardinality(pool) + 1]
        decided == {[version |-> v, rank |-> rankOf[v]] : v \in pool}
    IN  SetToSortSeq(decided, LAMBDA d, e : d.rank < e.rank \/ (d.rank = e.rank /\ d.version < e.version))

Room(budget, used) == IF used < budget THEN budget - used ELSE 0

(* context_block: the content is cut to the room that is left.             *)
Block(content, room) == Overhead + (IF content < room - Overhead THEN content ELSE room - Overhead)

(* pack_context: the first of the ranked, while there is room.  A new line *)
(* goes before every block but the first.                                  *)
Pack(ranked, size, maximum, budget) ==
    LET used[i \in 0..Len(ranked)] ==
            IF i = 0 THEN 0
            ELSE used[i - 1] + (IF i = 1 THEN 0 ELSE 1) + Block(size[ranked[i]], Room(budget, used[i - 1]))
        Fits(i) == Room(budget, used[i - 1]) >= MinBlock /\ Room(budget, used[i - 1]) > Overhead
        packs == {n \in 0..Len(ranked) : n <= maximum /\ \A i \in 1..n : Fits(i)}
        n == CHOOSE k \in packs : \A i \in packs : i <= k
    IN  [items |-> SubSeq(ranked, 1, n), length |-> used[n]]

(* enforce_barrier and resolve_temporal_query admit no later sequence.     *)
ExecuteRecall(c, n) ==
    /\ recall[c].pc = "visible" /\ n <= recall[c].at
    /\ recall' = [recall EXCEPT ![c].pc = "store", ![c].at = n,
                                ![c].results = Candidates(recall[c].proof, n)]
    /\ UNCHANGED <<ledgerVars, projVars, replay, crashes>>

(* store_recall_snapshot takes no lock and moves no sequence.              *)
StoreSnapshot(c) ==
    /\ recall[c].pc = "store"
    /\ LET used == {s.id : s \in snapshots}
           id == CHOOSE i \in 0..MaxSnapshots : i \notin used /\ \A j \in 0..(i - 1) : j \in used
       IN  snapshots' = snapshots \cup {[id |-> id, results |-> recall[c].results,
                                         at |-> recall[c].at, proof |-> recall[c].proof]}
    /\ recall' = [recall EXCEPT ![c] = NoRecall]
    /\ UNCHANGED <<seq, log, rows, life, plans, deletions, projVars, replay, crashes>>

-----------------------------------------------------------------------------
(* Behaviours.                                                             *)

RecallInit ==
    /\ LedgerInit
    /\ applied = [p \in Projections |-> 0] /\ ready = {}
    /\ docs = [p \in Projections |-> {}] /\ count = 0
    /\ replay = NoReplay /\ recall = [c \in Clients |-> NoRecall]
    /\ crashes = 0

(* The service stops at any point: what is in the store survives.          *)
Crash ==
    /\ crashes < MaxCrashes /\ crashes' = crashes + 1
    /\ replay # NoReplay \/ \E c \in Clients : recall[c].pc # "idle"
    /\ replay' = NoReplay /\ recall' = [c \in Clients |-> NoRecall]
    /\ UNCHANGED <<ledgerVars, projVars>>

Mutate == LedgerNext /\ UNCHANGED <<projVars, replay, recall, crashes>>

ReplayStep == ReadBatch \/ ComputeOperations \/ ApplyOperations \/ MarkReady \/ Receipt
RecallStep(c) ==
    \/ StartReplay(c) \/ ZeroVisibility(c)
    \/ (\E n \in 0..seq : ExecuteRecall(c, n))
    \/ StoreSnapshot(c)

RecallNext ==
    \/ Mutate
    \/ StartReplay(None)
    \/ ReplayStep
    \/ \E c \in Clients : RecallStep(c) \/ \E p \in Proofs : AskRecall(c, p)
    \/ Crash

(* Handlers run to their end, and the locks are fair.                      *)
RecallSpec ==
    RecallInit /\ [][RecallNext]_vars
        /\ WF_vars(ReplayStep) /\ \A c \in Clients : SF_vars(RecallStep(c))

-----------------------------------------------------------------------------
(* Properties.                                                             *)

RecallTypeOK ==
    /\ applied \in [Projections -> 0..MaxSeq] /\ ready \subseteq Projections
    /\ docs \in [Projections -> SUBSET Ids] /\ count \in Nat
    /\ snapshots \subseteq Snapshots
    /\ \A c \in Clients : recall[c].pc \in {"idle", "waiting", "visible", "store"}

(* The mutation that made a version active.                                *)
ActivatedAt(v) == (CHOOSE i \in DOMAIN life[v] : life[v][i].state = "Active")
ActivationOf(v) == life[v][ActivatedAt(v)].at

(* A projection that has applied a sequence has a document for every       *)
(* version that was activated by then and is still active, and none for a  *)
(* version whose deletion it has applied, although its operations are      *)
(* computed from a ledger that has moved on.                               *)
ProjectionsFollow ==
    \A p \in {"structured", "lexical"} :
        /\ \A v \in Existing :
               Current(v) = "Active" /\ ActivationOf(v) <= applied[p] => v \in docs[p]
        /\ \A v \in docs[p] : \A d \in deletions : v \in d.versions => d.at > applied[p]

(* The corpus statistics are kept by increments across replays, crashes    *)
(* and duplicates, and count the documents there are.                      *)
CorpusCounted == count = Cardinality(docs["lexical"])

(* Read your writes: a recall returns every version that was active at its *)
(* sequence and still is.                                                  *)
RecallSeesActive ==
    \A s \in snapshots : \A v \in AsOf(s.proof, s.at) : Current(v) = "Active" => v \in s.results

(* A retained recall that is executed again returns what it returned, but  *)
(* for what was deleted since.                                             *)
ReplayReproduces ==
    \A s \in snapshots : Candidates(s.proof, s.at) = s.results \cap Existing

(* An explanation has one decision for each candidate; those that are      *)
(* ranked come first, in the order of the answer, each with the number of  *)
(* candidates that beat it.                                                *)
RankingExplained ==
    \A matched \in SUBSET Ids : \A score \in [matched -> 0..2] :
        LET ranked == Ranked(matched, score)
            decisions == Decisions(Ids, ranked)
        IN  /\ {d.version : d \in Range(decisions)} = Ids /\ Len(decisions) = Cardinality(Ids)
            /\ \A i \in DOMAIN ranked :
                   /\ decisions[i] = [version |-> ranked[i], rank |-> i]
                   /\ i = 1 + Cardinality({v \in matched : score[v] > score[ranked[i]]
                                                         \/ (score[v] = score[ranked[i]] /\ v < ranked[i])})

(* A packed context keeps to its budget, but for the new line before the   *)
(* block that fills it.                                                    *)
PackedWithin ==
    \A size \in [Ids -> {0, MinBlock, 2 * MinBlock}], maximum \in 0..Cardinality(Ids), budget \in 0..(4 * MinBlock) :
        LET p == Pack(SetToSortSeq(Ids, <), size, maximum, budget)
        IN  /\ Len(p.items) <= maximum
            /\ p.length <= budget + (IF Len(p.items) > 1 THEN 1 ELSE 0)

(* Every recall is answered, unless the service stops.                     *)
RecallAnswered ==
    \A c \in Clients : recall[c].pc = "waiting" ~> recall[c].pc = "idle"

(* The execution of a deletion removes the targeted content from the       *)
(* retained snapshots too: none holds a version that was deleted.          *)
DeletionReachesSnapshots == \A s \in snapshots : s.results \subseteq Existing

(* The recall projection is the fold of the outbox up to its checkpoint,   *)
(* across crashes and rebuilds; a recall sees the versions active at its   *)
(* sequence, its replay reproduces the receipt, its explanation accounts   *)
(* for every candidate and its context keeps to the budget.                *)
RecallFollows ==
    /\ RecallTypeOK
    /\ ProjectionsFollow
    /\ CorpusCounted
    /\ RecallSeesActive
    /\ ReplayReproduces
    /\ RankingExplained
    /\ PackedWithin
=============================================================================
