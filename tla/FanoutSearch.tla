---------------------------- MODULE FanoutSearch ----------------------------
(***************************************************************************)
(* Searches of the coordinator: the fan-out to the shards and the merge of *)
(* their answers.                                                          *)
(***************************************************************************)
EXTENDS Naturals, FiniteSets, FiniteSetsExt, Sequences, SequencesExt

(***************************************************************************)
(* Fan-out searches of the coordinator and the health of its shards:       *)
(* FanoutExecutor::search (coordinator/src/fanout.rs) over ShardRouter     *)
(* (router.rs), with QueryWorkflow's deadline (workflow.rs).               *)
(*                                                                         *)
(* Searches run at once and take the router's lock only to select shards,  *)
(* to report a failure and at their end.  A caller may go away at any      *)
(* await.  Ages count up to RetryAfter; a shard's call times out before a  *)
(* search is that old.  fellBack is history.                               *)
(***************************************************************************)

CONSTANTS
    Shards,        \* numbers, in the router's order
    Searches,      \* concurrent callers
    RetryAfter,    \* UNHEALTHY_RETRY_AFTER
    MinCoverage,   \* min_coverage of a workflow, in percent
    Never

ASSUME SearchAssumption ==
    /\ IsFiniteSet(Shards) /\ Shards # {} /\ Shards \subseteq Nat
    /\ RetryAfter \in Nat \ {0} /\ MinCoverage \in 0..100 /\ Never \notin Nat

VARIABLES
    poolless,      \* shards whose endpoint does not parse: get_pool fails
    healthy,       \* ShardInfo.healthy
    unhealthyFor,  \* age of unhealthy_since, Never without an entry
    claimedFor,    \* age of probes_in_flight, Never without an entry
    search,        \* the searches
    mended,        \* shards answer from here on, and callers are patient
    fellBack       \* some search went to every shard for want of a healthy one

searchVars == <<poolless, healthy, unhealthyFor, claimedFor, search, mended, fellBack>>

NoSearch == [at |-> "idle", asked |-> {}, left |-> {}, probes |-> {}, age |-> 0, late |-> FALSE,
             responding |-> {}, missing |-> {}]

Running(c) == search[c].at = "collect"

-----------------------------------------------------------------------------
SearchInit ==
    /\ poolless \in {P \in SUBSET Shards : Cardinality(P) <= 1}
    /\ healthy = [s \in Shards |-> TRUE]
    /\ unhealthyFor = [s \in Shards |-> Never]
    /\ claimedFor = [s \in Shards |-> Never]
    /\ search = [c \in Searches |-> NoSearch]
    /\ mended = FALSE /\ fellBack = FALSE

(* fanout_selection.                                                       *)
RetryDue(s) == unhealthyFor[s] = Never \/ unhealthyFor[s] = RetryAfter

(* A plausible bug: a claim outlives the search that made it.              *)
ClaimedForGood(s) == claimedFor[s] # Never

Claimed(s) == claimedFor[s] # Never /\ claimedFor[s] < RetryAfter

(* A plausible bug: nobody asks whether the shard is being probed.         *)
ProbedUnclaimed == {s \in Shards : ~healthy[s] /\ RetryDue(s)}

Probed == {s \in Shards : ~healthy[s] /\ RetryDue(s) /\ ~Claimed(s)}

Selected ==
    LET some == {s \in Shards : healthy[s]} \cup Probed IN
    IF some = {} THEN Shards ELSE some

(* What is missing before anything was sent: the shards held back, and     *)
(* those without a pool.  Connections are lazy, so that get_pool fails     *)
(* only for an address that never parses, in its back-off or out of it.    *)
Missed(sel) == (Shards \ sel) \cup (sel \cap poolless)

StartSearch(c) ==
    /\ ~Running(c)
    /\ claimedFor' = [s \in Shards |-> IF s \in Probed THEN 0 ELSE claimedFor[s]]
    /\ fellBack' = (fellBack \/ (Probed = {} /\ \A s \in Shards : ~healthy[s]))
    /\ LET asked == Selected \ poolless IN
       search' = [search EXCEPT ![c] =
           [NoSearch EXCEPT !.at = "collect", !.asked = asked, !.left = asked,
                            !.probes = Probed, !.late = ~mended, !.missing = Missed(Selected)]]
    /\ UNCHANGED <<healthy, unhealthyFor, mended>>

(* A shard answers, refuses the query, or is not reached in time, which is *)
(* also what a panic of its task amounts to: ShardSearchFailure.           *)
Outcomes == {"results", "rejected", "unreachable"}

(* indicates_unhealthy_shard.                                              *)
MarksUnhealthy(what) == what = "unreachable"

(* update_health(s, false).                                                *)
Ailing(s) ==
    /\ healthy' = [healthy EXCEPT ![s] = FALSE]
    /\ unhealthyFor' = [unhealthyFor EXCEPT ![s] = 0]
    /\ claimedFor' = [claimedFor EXCEPT ![s] = Never]

(* The handles are awaited in the order they were spawned, whatever order  *)
(* the answers come in.                                                    *)
CollectNext(c, what) ==
    /\ Running(c) /\ search[c].left # {}
    /\ what # "results" => search[c].late
    /\ LET s == Min(search[c].left) IN
       /\ search' = IF what = "results"
                    THEN [search EXCEPT ![c].left = @ \ {s}, ![c].responding = @ \cup {s}]
                    ELSE [search EXCEPT ![c].left = @ \ {s}, ![c].missing = @ \cup {s}]
       /\ IF MarksUnhealthy(what) THEN Ailing(s)
          ELSE UNCHANGED <<healthy, unhealthyFor, claimedFor>>
    /\ UNCHANGED <<mended, fellBack>>

(* QueryWorkflow: coverage below the threshold fails the query.            *)
Verdict(responding) ==
    IF Cardinality(responding) * 100 >= MinCoverage * Cardinality(Shards) THEN "Completed"
    ELSE "Failed"

(* The end: shards that responded are healthy, and the claims of all that  *)
(* were asked are released.                                                *)
FinishSearch(c) ==
    /\ Running(c) /\ search[c].left = {}
    /\ LET r == search[c] IN
       /\ healthy' = [s \in Shards |-> healthy[s] \/ s \in r.responding]
       /\ unhealthyFor' = [s \in Shards |-> IF s \in r.responding THEN Never ELSE unhealthyFor[s]]
       /\ claimedFor' = [s \in Shards |-> IF s \in r.asked THEN Never ELSE claimedFor[s]]
       /\ search' = [search EXCEPT ![c] = NoSearch]
    /\ UNCHANGED <<mended, fellBack>>

(* The caller goes away, or the workflow's deadline passes: the future is  *)
(* dropped where it stands, with its claims.                               *)
DropSearch(c) ==
    /\ Running(c) /\ ~mended
    /\ search' = [search EXCEPT ![c] = NoSearch]
    /\ UNCHANGED <<healthy, unhealthyFor, claimedFor, mended, fellBack>>

Older(age) == IF age = Never \/ age = RetryAfter THEN age ELSE age + 1

SearchTick ==
    /\ \A c \in Searches : Running(c) => search[c].age + 1 < RetryAfter
    /\ unhealthyFor' = [s \in Shards |-> Older(unhealthyFor[s])]
    /\ claimedFor' = [s \in Shards |-> Older(claimedFor[s])]
    /\ search' = [c \in Searches |->
                     IF Running(c) THEN [search[c] EXCEPT !.age = @ + 1] ELSE search[c]]
    /\ UNCHANGED <<healthy, mended, fellBack>>

Mend == ~mended /\ mended' = TRUE
        /\ UNCHANGED <<healthy, unhealthyFor, claimedFor, search, fellBack>>

-----------------------------------------------------------------------------
SearchNext ==
    /\ UNCHANGED poolless
    /\ \/ \E c \in Searches :
            \/ StartSearch(c) \/ FinishSearch(c) \/ DropSearch(c)
            \/ \E what \in Outcomes : CollectNext(c, what)
       \/ SearchTick \/ Mend

SearchSpec == SearchInit /\ [][SearchNext]_searchVars

-----------------------------------------------------------------------------
(* An answer accounts for every shard, as responding or as missing and     *)
(* never as both: none is silently left out, held back, unreachable or     *)
(* without a pool, and a query is completed exactly if no more shards are  *)
(* missing than its threshold tolerates.                                   *)
AnswerAccounts ==
    \A c \in Searches : Running(c) /\ search[c].left = {} =>
        LET r == search[c] IN
        /\ r.responding \cup r.missing = Shards /\ r.responding \cap r.missing = {}
        /\ (Verdict(r.responding) = "Completed")
           <=> (Cardinality(r.missing) * 100 <= (100 - MinCoverage) * Cardinality(Shards))

(* An unhealthy shard is probed by one search at a time, however searches  *)
(* overlap, fail or are dropped.  Excused is only the search that found no *)
(* shard to ask and went to all of them: it releases claims it never made. *)
ProbedAlone ==
    ~fellBack => \A c, d \in Searches :
        c # d /\ Running(c) /\ Running(d) => search[c].probes \cap search[d].probes = {}

(* Outages end, and then each shard is healthy again in the end and for    *)
(* good: no claim of a dropped search, and no late failure of an older     *)
(* one, holds a shard back for ever.                                       *)
ShardsReturn == <>[](\A s \in Shards : healthy[s])

-----------------------------------------------------------------------------
(***************************************************************************)
(* The answer of a fan-out search: ResultMerger (coordinator/src/          *)
(* merger.rs), which folds the shards' results into a heap of bounded      *)
(* size, and what search_inner (server.rs) makes of it.                    *)
(*                                                                         *)
(* Ids are numbers in the order of their strings, scores are numbers, and  *)
(* NotFinite stands for NaN and the infinities.  The heap is kept as the   *)
(* sequence of its entries, best first; its peek is the last of them.      *)
(***************************************************************************)

CONSTANTS
    ResultIds, Scores,
    GroupOf,        \* the value of the group_by field of an id
    Capacity,       \* fetch_k
    TopK,           \* top_k
    PerGroup,       \* group_size
    Threshold,      \* score_threshold
    MaxOffers       \* bound: results the shards return together

ASSUME MergeAssumption ==
    /\ ResultIds \subseteq Nat /\ Scores \subseteq Nat \ {0}
    /\ {Capacity, TopK, PerGroup} \subseteq Nat \ {0} /\ Capacity >= TopK

VARIABLES
    heap,           \* ResultMerger.heap
    best,           \* ResultMerger.best_scores, 0 without an entry
    offered,        \* the best score offered for an id, 0 if none
    repeated,       \* some id was offered twice
    offers          \* results added so far

mergeVars == <<heap, best, offered, repeated, offers>>

NotFinite == 0

-----------------------------------------------------------------------------
(* ScoredResult::cmp: the greatest entry is the worst one.                 *)
Better(a, b) == a.score > b.score \/ (a.score = b.score /\ a.id < b.id)

Pushed(h, e) ==
    LET above == SelectSeq(h, LAMBDA x : Better(x, e)) IN
    above \o <<e>> \o SubSeq(h, Len(above) + 1, Len(h))

MergeInit ==
    /\ heap = <<>> /\ best = [i \in ResultIds |-> 0]
    /\ offered = [i \in ResultIds |-> 0] /\ repeated = FALSE /\ offers = 0

(* Compaction sorts by the score alone, so that ties come in any order.    *)
Kept(h) ==
    {q \in {SetToSeq(S) : S \in SUBSET DOMAIN h} :
        /\ Len(q) = Capacity
        /\ \A i \in DOMAIN h, j \in Range(q) : i \notin Range(q) => h[j].score >= h[i].score}
Compacted(h) == {FoldSeq(LAMBDA k, acc : Pushed(acc, h[k]), <<>>, q) : q \in Kept(h)}

(* Rebuilt from the best down: of an id held twice the lower score stays.   *)
BestOf(h) ==
    [i \in ResultIds |->
        LET mine == {h[k].score : k \in {k \in DOMAIN h : h[k].id = i}} IN
        IF mine = {} THEN 0 ELSE CHOOSE s \in mine : \A x \in mine : s <= x]

(* add: a better score of an id that is held already.                      *)
AddBetter(e) ==
    /\ best[e.id] # 0 /\ best[e.id] < e.score
    /\ LET h == Pushed(heap, e) IN
       IF Len(h) > (Capacity * 3) \div 2
       THEN heap' \in Compacted(h) /\ best' = BestOf(heap')
       ELSE heap' = h /\ best' = [best EXCEPT ![e.id] = e.score]

(* add: an id that is not held, into a free slot or in place of the worst. *)
AddNew(e) ==
    /\ best[e.id] = 0
    /\ IF Len(heap) < Capacity
       THEN heap' = Pushed(heap, e) /\ best' = [best EXCEPT ![e.id] = e.score]
       ELSE LET worst == heap[Len(heap)] IN
            IF Better(e, worst)
            THEN /\ heap' = Pushed(Front(heap), e)
                 /\ best' = [best EXCEPT ![worst.id] = 0, ![e.id] = e.score]
            ELSE UNCHANGED <<heap, best>>

Ignored(e) == e.score = NotFinite \/ (best[e.id] # 0 /\ best[e.id] >= e.score)

AddResult(i, score) ==
    /\ offers < MaxOffers /\ offers' = offers + 1
    /\ LET e == [id |-> i, score |-> score] IN
       IF Ignored(e) THEN UNCHANGED <<heap, best>>
       ELSE (best[i] = 0 => AddNew(e)) /\ (best[i] # 0 => AddBetter(e))
    /\ repeated' = (repeated \/ (score # NotFinite /\ offered[i] # 0))
    /\ offered' = [offered EXCEPT ![i] = IF score > @ THEN score ELSE @]

MergeNext == \E i \in ResultIds, score \in Scores \cup {NotFinite} : AddResult(i, score)

(* finish: sorted, one entry for an id, and no more than the capacity.     *)
Finished ==
    LET first(k) == \A j \in 1..(k - 1) : heap[j].id # heap[k].id
        kept == SelectSeq([k \in DOMAIN heap |-> k], LAMBDA k : first(k))
        some == SubSeq(kept, 1, IF Len(kept) < Capacity THEN Len(kept) ELSE Capacity) IN
    [k \in DOMAIN some |-> heap[some[k]]]

RoomFor(out, e) ==
    Cardinality({k \in DOMAIN out : GroupOf[out[k].id] = GroupOf[e.id]}) < PerGroup

(* apply_score_and_group.                                                  *)
ApplyScoreAndGroup(results) ==
    FoldLeft(LAMBDA out, e :
                 IF Len(out) < TopK /\ RoomFor(out, e) THEN Append(out, e) ELSE out,
             <<>>, SelectSeq(results, LAMBDA e : e.score >= Threshold))

(* search_inner: the page, and whether a short one was cut by a shard's    *)
(* limit on candidates.                                                    *)
SearchInner(limited) ==
    LET page == ApplyScoreAndGroup(Finished)
    IN  [results |-> page, limited |-> IF Len(page) >= TopK THEN FALSE ELSE limited]

-----------------------------------------------------------------------------
(* What the shards offered, best first.                                    *)
Ranking ==
    LET all == {[id |-> i, score |-> offered[i]] : i \in {i \in ResultIds : offered[i] # 0}} IN
    SetToSortSeq(all, Better)

(* The merged answer leaves no gap: whatever order results come in and     *)
(* however often an id is repeated, it is what the shards offered from the *)
(* best down, each id once and with its best score, ties aside, and it is  *)
(* as long as it can be when no id was repeated.                           *)
MergedIsPrefix ==
    /\ Len(Finished) <= Len(Ranking)
    /\ \A k \in DOMAIN Finished :
         Finished[k].score = Ranking[k].score /\ Finished[k].score = offered[Finished[k].id]
    /\ ~repeated => Finished = SubSeq(Ranking, 1, Len(Finished))
                    /\ (Len(Finished) = Capacity \/ Len(Finished) = Len(Ranking))

(* Grouping keeps the best of each group, in order: a result of the answer *)
(* that is left out has its group full of better ones, falls short of the  *)
(* threshold or comes after the last place.                                *)
GroupsAreBest ==
    LET out == SearchInner(TRUE).results IN
    \A k \in DOMAIN Finished :
        LET e == Finished[k]
            ahead == {j \in 1..(k - 1) : Finished[j].score >= Threshold}
            inGroup == {j \in ahead : GroupOf[Finished[j].id] = GroupOf[e.id]} IN
        (\E j \in DOMAIN out : out[j] = e)
        <=> /\ e.score >= Threshold /\ Cardinality(inGroup) < PerGroup
            /\ Cardinality({j \in DOMAIN out : Better(out[j], e)}) < TopK

-----------------------------------------------------------------------------
(***************************************************************************)
(* The static membership of the coordinators, and the inventory of the     *)
(* collections (server.rs).  A coordinator is configured with its own      *)
(* address, a list of peers and a role; addresses are numbers in the order *)
(* of their strings.                                                       *)
(***************************************************************************)

Addresses == 1..3
Roles == {"auto", "primary", "secondary"}

(* canonical_leader_address.                                               *)
CanonicalLeader(local, peers) == Min(peers \cup {local})

(* resolve_leader_address and resolve_is_leader.                           *)
ReportedLeader(role, local, peers) == IF role = "primary" THEN local ELSE CanonicalLeader(local, peers)
IsLeader(role, local, peers) ==
    \/ role = "primary"
    \/ role = "auto" /\ CanonicalLeader(local, peers) = local

(* with_ha: the peers are the list without the coordinator itself.         *)
Coordinator(role, local, list) ==
    LET peers == list \ {local}
    IN  [address |-> local, peers |-> peers, leads |-> IsLeader(role, local, peers),
         leader |-> ReportedLeader(role, local, peers)]

(* get_cluster_state: the leaders among the nodes it lists.                *)
LeadersListed(k) == {n \in k.peers \cup {k.address} : IF n = k.address THEN k.leads ELSE n = k.leader}

(* aggregate_collections: each shard is compared with the first that has   *)
(* the collection; FALSE is FAILED_PRECONDITION.                           *)
Aggregated(schemas) ==
    FoldLeft(LAMBDA acc, s : [agree |-> acc.agree /\ (acc.schema = 0 \/ s = 0 \/ s = acc.schema),
                              schema |-> IF acc.schema = 0 THEN s ELSE acc.schema],
             [agree |-> TRUE, schema |-> 0], schemas)

(* Coordinators that are given the same members, however each of them is   *)
(* listed, agree: with automatic roles one of them leads and all say so;   *)
(* whatever the roles, none lists two leaders, and one that lists none is  *)
(* a secondary.                                                            *)
LeadersAgree ==
    \A members \in SUBSET Addresses \ {{}} : \A roles \in [members -> Roles] :
        LET k == [a \in members |-> Coordinator(roles[a], a, members)]
        IN  /\ (\A a \in members : roles[a] = "auto") =>
                   \E one \in members : \A a \in members :
                       (k[a].leads <=> a = one) /\ k[a].leader = one /\ LeadersListed(k[a]) = {one}
            /\ \A a \in members : Cardinality(LeadersListed(k[a])) <= 1
            /\ \A a \in members : LeadersListed(k[a]) = {} => roles[a] = "secondary"

(* An inventory is given exactly if no two shards disagree on the schema   *)
(* of a collection, whatever order they are asked in; 0 is a shard without *)
(* the collection.                                                         *)
InventoryAgrees ==
    \A schemas \in [1..3 -> 0..2] :
        Aggregated(schemas).agree
            <=> \A i, j \in 1..3 : schemas[i] # 0 /\ schemas[j] # 0 => schemas[i] = schemas[j]

(* A search accounts for every shard, one caller at a time probes an       *)
(* unhealthy one, the merged answer is the prefix of all that was offered, *)
(* and coordinators agree on their leader and their collections.           *)
SearchExact ==
    /\ AnswerAccounts
    /\ ProbedAlone
    /\ MergedIsPrefix
    /\ GroupsAreBest
    /\ LeadersAgree
    /\ InventoryAgrees
=============================================================================
