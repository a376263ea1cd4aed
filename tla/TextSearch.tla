----------------------------- MODULE TextSearch -----------------------------
(***************************************************************************)
(* A text search (text_search_inner and sql_metadata_text_search of        *)
(* grpc-server/src/service.rs): the plan (retrieval/src/planner.rs),       *)
(* candidates of the vector index and of the text index, their fusion      *)
(* (fusion.rs), the metadata filter, expansion along the relation graph,   *)
(* reranking and diversity (rerank.rs), grouping, and the context pack     *)
(* (expansion.rs, packer.rs).                                              *)
(*                                                                         *)
(* The search holds no lock from one stage to the next, and every stage    *)
(* reads the store anew; writers change what is in the scope of the        *)
(* request meanwhile.  A score is scaled to a whole number.                *)
(***************************************************************************)
EXTENDS Integers, Sequences, FiniteSets, SequencesExt, FiniteSetsExt

CONSTANTS
    Hits,          \* ids a search can find, 1..n in the order of their names
    SearchRequests, \* [mode (direct: by vector), filtered, rerank, diversity, threshold, grouped, pack]
    SearchK,       \* top_k
    RrfK,          \* DEFAULT_RRF_K
    Neighbors,     \* what the graph relates to an id, with its hop
    QuerySeeds,    \* what the graph relates to the entities the query names
    MaxExpanded,   \* graph_max_expanded_nodes
    Overlap,       \* query terms an id's text has
    Similar,       \* pairs of ids with the same embedding
    GroupKey,      \* the value of the group_by field
    ParentId,      \* the parent named by an id's metadata, or the id
    TokensOf,      \* estimate_tokens of an id's rendered text
    Budget,        \* pack_token_budget
    MaxWrites      \* bound: changes by writers

VARIABLES
    stored,     \* Hits -> "in" the scope of the request, "out" of it, or "gone"
    denseOrder, lexicalOrder,   \* how the two indexes rank the ids
    search,     \* the request and its stage
    ranked,     \* [id, score], best first
    expanded,   \* graph_expanded_ids
    answer, packed,
    wrote,
    wasIn       \* history: ids in scope at some time since the search began

textVars == <<stored, denseOrder, lexicalOrder, search, ranked, expanded, answer, packed, wrote, wasIn>>

Req == search.req
AtStage(stage) == search.stage = stage
Hit(i, s) == [id |-> i, score |-> s]
Ids(s) == [k \in DOMAIN s |-> s[k].id]
InScope(i) == IF Req.filtered THEN stored[i] = "in" ELSE stored[i] # "gone"
FirstN(s, n) == SubSeq(s, 1, IF Len(s) < n THEN Len(s) ELSE n)
BestFirst(s) == SortSeq(s, LAMBDA a, b : a.score > b.score \/ (a.score = b.score /\ a.id < b.id))

-----------------------------------------------------------------------------
(* plan_query reads the query's words: those of a relation between things  *)
(* ask for the graph, all others for both indexes.                         *)
RelationPlan == "graph_hybrid"
DefaultPlan == "hybrid"

(* requested_text_retrieval_mode.                                          *)
Plans(mode) == IF mode = "auto" THEN {RelationPlan, DefaultPlan} ELSE {mode}

(* trace_for_mode: which candidates a mode asks for.                       *)
UseDense == search.plan \in {"vector", "hybrid", "graph_hybrid"}
UseLexical == search.plan \in {"bm25", "hybrid", "graph", "graph_hybrid"}
UseGraph == search.plan \in {"graph", "graph_hybrid"}

(* A pool wider than top_k feeds the fusion, the reranking and the filter. *)
PoolSize == IF (UseDense /\ UseLexical) \/ Req.rerank \/ Req.diversity \/ Req.filtered
            THEN 4 * SearchK ELSE SearchK

ScoreOf(rank) == (RrfK + 4) - rank

TextInit ==
    /\ stored \in [Hits -> {"in", "out"}]
    /\ denseOrder \in SetToAllKPermutations(Hits)
    /\ lexicalOrder \in {s \in SetToAllKPermutations(Hits) : Len(s) < Cardinality(Hits)}
    /\ Len(denseOrder) = Cardinality(Hits)
    /\ search \in {[req |-> r, stage |-> "plan", plan |-> "none", dense |-> <<>>] : r \in SearchRequests}
    /\ ranked = <<>> /\ expanded = {} /\ answer = <<>> /\ packed = <<>> /\ wrote = 0
    /\ wasIn = {i \in Hits : IF search.req.filtered THEN stored[i] = "in" ELSE TRUE}

(* An insert, update or delete by somebody else.                           *)
WriterStep(i, to) ==
    /\ wrote < MaxWrites /\ ~AtStage("done") /\ stored[i] # to
    /\ stored' = [stored EXCEPT ![i] = to] /\ wrote' = wrote + 1
    /\ wasIn' = IF to = "in" \/ (to = "out" /\ ~Req.filtered) THEN wasIn \cup {i} ELSE wasIn
    /\ UNCHANGED <<denseOrder, lexicalOrder, search, ranked, expanded, answer, packed>>

Goto(stage) == search' = [search EXCEPT !.stage = stage]

(* The plan; a structured query goes another way.                          *)
PlanQuery ==
    /\ AtStage("plan") /\ Req.mode # "direct"
    /\ \E p \in Plans(Req.mode) :
          search' = [search EXCEPT !.plan = p, !.stage = IF p = "sql" THEN "sql" ELSE "dense"]
    /\ UNCHANGED <<stored, denseOrder, lexicalOrder, ranked, expanded, answer, packed, wrote, wasIn>>

(* search_window with the filter as a predicate (attach_metadata_predicate): *)
(* ids that are deleted or out of scope are passed over.                   *)
DenseSearch ==
    /\ AtStage("dense")
    /\ LET found == FirstN(SelectSeq(denseOrder, InScope), PoolSize) IN
       search' = [search EXCEPT !.stage = "lexical", !.dense = IF UseDense THEN found ELSE <<>>]
    /\ UNCHANGED <<stored, denseOrder, lexicalOrder, ranked, expanded, answer, packed, wrote, wasIn>>

-----------------------------------------------------------------------------
(* Rrf::fuse: the lists' contributions to an id add up.                    *)
Contribution(rank) == ((RrfK + 1) * (RrfK + 2) * (RrfK + 3)) \div (RrfK + rank)
InList(list, i) == \E k \in DOMAIN list : list[k] = i
RankIn(list, i) == CHOOSE k \in DOMAIN list : list[k] = i
Part(list, i) == IF InList(list, i) THEN Contribution(RankIn(list, i)) ELSE 0

FusedScore(dense, lexical, i) == Part(dense, i) + Part(lexical, i)

FuseLists(dense, lexical, k) ==
    LET found == SelectSeq(dense, LAMBDA i : TRUE) \o
                 SelectSeq(lexical, LAMBDA i : ~InList(dense, i)) IN
    FirstN(BestFirst([n \in DOMAIN found |-> Hit(found[n], FusedScore(dense, lexical, found[n]))]), k)

Listed(list) == [n \in DOMAIN list |-> Hit(list[n], ScoreOf(n))]

(* Bm25Index::search under the read lock of the text index (as many as it  *)
(* holds when there is a filter), and the fusion of the two lists.         *)
LexicalSearch ==
    /\ AtStage("lexical")
    /\ LET all == SelectSeq(lexicalOrder, LAMBDA i : stored[i] # "gone")
           lexical == IF ~UseLexical THEN <<>> ELSE IF Req.filtered THEN all ELSE FirstN(all, PoolSize) IN
       ranked' = IF lexical = <<>> THEN Listed(search.dense)
                 ELSE IF UseDense THEN FuseLists(search.dense, lexical, PoolSize) ELSE Listed(lexical)
    /\ Goto("filter")
    /\ UNCHANGED <<stored, denseOrder, lexicalOrder, expanded, answer, packed, wrote, wasIn>>

(* metadata_matches_filter, on what is stored now.                         *)
FilterRanked ==
    /\ AtStage("filter")
    /\ ranked' = IF Req.filtered THEN SelectSeq(ranked, LAMBDA h : stored[h.id] = "in") ELSE ranked
    /\ Goto(IF UseGraph THEN "query seeds" ELSE "rerank")
    /\ UNCHANGED <<stored, denseOrder, lexicalOrder, expanded, answer, packed, wrote, wasIn>>

-----------------------------------------------------------------------------
Decayed(score, hop) == IF hop = 1 THEN (score * 85) \div 100 ELSE (score * 72) \div 100

Allowance(taken) == MaxExpanded - Cardinality(taken)

(* A plausible bug: what the graph adds is not filtered.                   *)
AdmitsAll(i) == TRUE

Admits(i) == Req.filtered => stored[i] = "in"

(* A chunk the graph relates to a seed: counted once, filtered, then added *)
(* or, if it is ranked, raised.                                            *)
MergeChunk(acc, c, score) ==
    IF c.id \in acc.expanded THEN acc
    ELSE LET known == InList(Ids(acc.ranked), c.id) IN
         [expanded |-> acc.expanded \cup {c.id},
          ranked |-> IF ~Admits(c.id) THEN acc.ranked
                     ELSE IF known
                     THEN [n \in DOMAIN acc.ranked |->
                              IF acc.ranked[n].id = c.id /\ acc.ranked[n].score < score
                              THEN Hit(c.id, score) ELSE acc.ranked[n]]
                     ELSE Append(acc.ranked, Hit(c.id, score))]

ExpandSeed(acc, related, score) ==
    IF Allowance(acc.expanded) <= 0 THEN acc
    ELSE FoldLeft(LAMBDA a, c : MergeChunk(a, c, Decayed(score, c.hop)),
                  acc, FirstN(related, Allowance(acc.expanded)))

TopScore == IF ranked = <<>> THEN RrfK ELSE Max({ranked[n].score : n \in DOMAIN ranked})

(* Seeds the query names: their chunks come before the best candidate.     *)
ExpandQuery ==
    /\ AtStage("query seeds")
    /\ LET acc == ExpandSeed([expanded |-> expanded, ranked |-> ranked], QuerySeeds,
                         ((TopScore + 1) * 100) \div 85 + 1) IN
       /\ expanded' = acc.expanded /\ ranked' = acc.ranked
       /\ search' = [search EXCEPT !.stage = "result seeds", !.dense = ranked]
    /\ UNCHANGED <<stored, denseOrder, lexicalOrder, answer, packed, wrote, wasIn>>

(* The candidates of before as seeds, one after the other; then the order  *)
(* by score.                                                               *)
ExpandResults ==
    /\ AtStage("result seeds")
    /\ LET acc == FoldLeft(LAMBDA a, seed : ExpandSeed(a, Neighbors[seed.id], seed.score),
                           [expanded |-> expanded, ranked |-> ranked], search.dense) IN
       expanded' = acc.expanded /\ ranked' = BestFirst(acc.ranked)
    /\ Goto("rerank")
    /\ UNCHANGED <<stored, denseOrder, lexicalOrder, answer, packed, wrote, wasIn>>

-----------------------------------------------------------------------------
(* LexicalOverlapReranker: a deleted id has no text any more.              *)
OverlapNow(i) == IF stored[i] = "gone" THEN 0 ELSE Overlap[i]
RerankResults ==
    /\ AtStage("rerank")
    /\ LET order == SortSeq(ranked, LAMBDA a, b :
                        \/ OverlapNow(a.id) > OverlapNow(b.id)
                        \/ OverlapNow(a.id) = OverlapNow(b.id)
                           /\ (a.score > b.score \/ (a.score = b.score /\ a.id < b.id))) IN
       ranked' = IF Req.rerank THEN [n \in DOMAIN order |-> Hit(order[n].id, OverlapNow(order[n].id))]
                 ELSE ranked
    /\ Goto("diversity")
    /\ UNCHANGED <<stored, denseOrder, lexicalOrder, expanded, answer, packed, wrote, wasIn>>

(* mmr: the best first, then whoever is least like those chosen.           *)
Worth(h, chosen) == h.score - (IF \E n \in DOMAIN chosen : {h.id, chosen[n].id} \in Similar THEN 2 * RrfK ELSE 0)
Mmr(items) ==
    LET pick[n \in 0..Len(items)] ==
            IF n = 0 THEN [left |-> items, out |-> <<>>]
            ELSE LET s == pick[n - 1]
                     better(a, b) == \/ Worth(a, s.out) > Worth(b, s.out)
                                     \/ Worth(a, s.out) = Worth(b, s.out) /\ a.id < b.id
                     best == SortSeq(s.left, better)[1] IN
                 [left |-> SelectSeq(s.left, LAMBDA h : h.id # best.id), out |-> Append(s.out, best)]
    IN pick[Len(items)].out

(* Those without a vector fall away, unless that is everyone.              *)
Diversify ==
    /\ AtStage("diversity")
    /\ LET items == SelectSeq(ranked, LAMBDA h : stored[h.id] # "gone") IN
       ranked' = IF Req.diversity /\ items # <<>> THEN Mmr(items) ELSE ranked
    /\ Goto("group")
    /\ UNCHANGED <<stored, denseOrder, lexicalOrder, expanded, answer, packed, wrote, wasIn>>

(* apply_score_and_group: one result a group, when grouping is asked for.  *)
ScoreAndGroup(results, k) ==
    LET kept == SelectSeq(results, LAMBDA h : h.score >= Req.threshold)
        first(n) == ~\E m \in 1..(n - 1) : GroupKey[kept[m].id] = GroupKey[kept[n].id] IN
    FirstN(IF Req.grouped
         THEN FoldLeft(LAMBDA out, n : IF first(n) THEN Append(out, kept[n]) ELSE out,
                       <<>>, [n \in DOMAIN kept |-> n])
         ELSE kept, k)

PoolCap == IF UseGraph THEN Max({8 * SearchK, SearchK + MaxExpanded}) ELSE 8 * SearchK
GroupResults ==
    /\ AtStage("group")
    /\ answer' = ScoreAndGroup(FirstN(ranked, PoolCap), SearchK)
    /\ Goto(IF Req.pack THEN "pack" ELSE "done")
    /\ UNCHANGED <<stored, denseOrder, lexicalOrder, ranked, expanded, packed, wrote, wasIn>>

(* A search by vector (search_inner) has one candidate stage and no plan;  *)
(* a filter and grouping each widen what it fetches.                       *)
FetchK ==
    LET searchK == IF Req.filtered THEN 4 * SearchK ELSE SearchK
    IN  IF Req.grouped THEN 4 * searchK ELSE searchK

VectorSearch ==
    /\ AtStage("plan") /\ Req.mode = "direct"
    /\ answer' = ScoreAndGroup(Listed(FirstN(SelectSeq(denseOrder, InScope), FetchK)), SearchK)
    /\ Goto("done")
    /\ UNCHANGED <<stored, denseOrder, lexicalOrder, ranked, expanded, packed, wrote, wasIn>>

-----------------------------------------------------------------------------
HasText(i) == stored[i] # "gone"

(* expand_to_parents: a chunk stands for its parent while that has text;   *)
(* a passage is taken once.                                                *)
PassageOf(i) == IF HasText(ParentId[i]) THEN ParentId[i] ELSE i
Passages(results) ==
    FoldLeft(LAMBDA out, h : IF InList(out, PassageOf(h.id)) THEN out ELSE Append(out, PassageOf(h.id)),
             <<>>, results)

UsedTokens(list) == FoldLeft(LAMBDA n, i : n + TokensOf[i], 0, list)

FitsBudget(list, i) == UsedTokens(list) + TokensOf[i] <= Budget

(* pack: greedily, passing over what does not fit; the separator is blank  *)
(* and costs nothing.                                                      *)
PackUp(passages) ==
    FoldLeft(LAMBDA out, i : IF FitsBudget(out, i) THEN Append(out, i) ELSE out, <<>>,
             SelectSeq(passages, HasText))

(* The answer, and what the graph added to it.                             *)
PackCandidates ==
    IF search.plan = "sql" THEN answer
    ELSE ScoreAndGroup(SelectSeq(FirstN(ranked, PoolCap), LAMBDA h :
                           InList(Ids(answer), h.id) \/ h.id \in expanded), PoolCap)

(* build_context_pack.                                                     *)
PackContext ==
    /\ AtStage("pack") /\ packed' = PackUp(Passages(PackCandidates))
    /\ Goto("done")
    /\ UNCHANGED <<stored, denseOrder, lexicalOrder, ranked, expanded, answer, wrote, wasIn>>

(* sql_query_from_legacy_filter: what SQL can say of the filter, which is  *)
(* not all of it.                                                          *)
SqlIds == SetToSortSeq({i \in Hits : stored[i] # "gone"}, <)

(* sql_metadata_text_search: ids by metadata, then the whole filter.       *)
SqlSearch ==
    /\ AtStage("sql")
    /\ answer' = FirstN([n \in DOMAIN SelectSeq(SqlIds, InScope) |-> Hit(SelectSeq(SqlIds, InScope)[n], 1)], SearchK)
    /\ Goto(IF Req.pack THEN "pack" ELSE "done")
    /\ UNCHANGED <<stored, denseOrder, lexicalOrder, ranked, expanded, packed, wrote, wasIn>>

TextNext ==
    \/ \E i \in Hits, to \in {"in", "out", "gone"} : WriterStep(i, to)
    \/ VectorSearch \/ PlanQuery \/ DenseSearch \/ LexicalSearch \/ FilterRanked \/ ExpandQuery \/ ExpandResults
    \/ RerankResults \/ Diversify \/ GroupResults \/ PackContext \/ SqlSearch

-----------------------------------------------------------------------------
(* A filtered search answers with ids that were in its scope at some time  *)
(* while it ran, each once, whichever way they came in and whatever is     *)
(* written meanwhile.                                                      *)
AnswerInScope ==
    AtStage("done") =>
        /\ Req.filtered => \A n \in DOMAIN answer : answer[n].id \in wasIn
        /\ \A m, n \in DOMAIN answer : m # n => answer[m].id # answer[n].id

(* Fusion respects its lists: an id that neither list ranks below another, *)
(* and one ranks above it, does not come after it.                         *)
AtLeast(list, i, j) == Part(list, i) >= Part(list, j)
FusionRespectsLists ==
    AtStage("filter") /\ UseDense /\ UseLexical =>
        LET lexical == SelectSeq(lexicalOrder, LAMBDA i : InList(Ids(ranked), i)) IN
        wrote = 0 => \A m, n \in DOMAIN ranked : m < n =>
            ~(/\ AtLeast(search.dense, ranked[n].id, ranked[m].id)
              /\ AtLeast(lexical, ranked[n].id, ranked[m].id)
              /\ \/ ~AtLeast(search.dense, ranked[m].id, ranked[n].id)
                 \/ ~AtLeast(lexical, ranked[m].id, ranked[n].id))

(* The graph adds no more than it may, over all seeds together.            *)
ExpansionBounded == Cardinality(expanded) <= MaxExpanded

(* A pack keeps to its token budget and repeats nothing.                   *)
PackFits ==
    /\ UsedTokens(packed) <= Budget
    /\ \A m, n \in DOMAIN packed : m # n => packed[m] # packed[n]

(* An answer of any retrieval mode is in scope though rows change while it *)
(* is made, fusion respects the lists it fuses, and expansion and packing  *)
(* keep their bounds.                                                      *)
TextAnswers ==
    /\ AnswerInScope
    /\ FusionRespectsLists
    /\ ExpansionBounded
    /\ PackFits
=============================================================================
