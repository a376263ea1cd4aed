----------------------------- MODULE MCServices -----------------------------
(***************************************************************************)
(* The coordinator, ingestion, retrieval and admission components on small *)
(* instances, one at a time: focus picks the component that moves, the     *)
(* others keep an initial state.                                           *)
(***************************************************************************)
EXTENDS FanoutWrites, CoordinatorLimits, IngestionPipeline, DocumentLifecycle, TextSearch,
        RetrievalIndexes, RequestAdmission, AccessControl

VARIABLE focus

servicesVars == <<focus, writesVars, limitVars, batchVars, pipelineVars, lifecycleVars,
                  textVars, tagVars, graphVars, gateVars, authVars>>

Homes == [x |-> 1, y |-> 2]
Uploads == [m1 |-> <<"a">>, m2 |-> <<"a", "b">>, m3 |-> <<>>]

(* Text searches: one of every mode, with and without a filter.            *)
Asked(m, f, r, d, t, g) ==
    [mode |-> m, filtered |-> f, rerank |-> r, diversity |-> d, threshold |-> t, grouped |-> g,
     pack |-> ~g]
Searches ==
    {Asked("auto", TRUE, FALSE, TRUE, 0, FALSE), Asked("graph", TRUE, TRUE, FALSE, 0, FALSE),
     Asked("hybrid", FALSE, FALSE, FALSE, 0, TRUE), Asked("vector", TRUE, TRUE, TRUE, 1, FALSE),
     Asked("bm25", TRUE, FALSE, FALSE, 0, TRUE), Asked("sql", TRUE, FALSE, FALSE, 0, FALSE),
     Asked("graph_hybrid", FALSE, FALSE, FALSE, 1, FALSE), Asked("direct", TRUE, FALSE, FALSE, 0, TRUE)}
Near(i, h) == [id |-> i, hop |-> h]
RelatedTo == << <<Near(2, 1), Near(3, 1)>>, <<Near(1, 1)>>, <<Near(1, 1), Near(2, 2)>> >>
NamedInQuery == <<Near(3, 1)>>
QueryTerms == <<0, 2, 1>>
SameVector == {{1, 2}}
Sections == <<1, 1, 2>>
Parents == <<3, 2, 3>>
Lengths == <<1, 2, 2>>

(* Tags: words, numbers (4 is negative zero, 5 minus one) and lists.       *)
Tag(t, v) == [type |-> t, value |-> v]
Tags == {Tag("txt", "p"), Tag("num", 1), Tag("num", 4), Tag("num", 5), Tag("lst", {"p", "q"}), Tag("lst", {"p"})}
Cond(op, v) == [op |-> op, name |-> "k", value |-> v]
Filters ==
    {Cond("eq", Tag("txt", "p")), Cond("eq", Tag("num", 0)), Cond("lt", Tag("num", 1)),
     Cond("gte", Tag("num", 0)), Cond("gt", Tag("num", 5)), Cond("contains", Tag("txt", "p")),
     [op |-> "not", of |-> <<Cond("exists", Tag("txt", "p"))>>], [op |-> "and", of |-> <<>>],
     [op |-> "or", of |-> <<Cond("eq", Tag("txt", "p")),
                           [op |-> "and", of |-> <<Cond("exists", Tag("txt", "p")),
                                                  Cond("lte", Tag("num", 1))>>]>>]}
SomeTexts == {<<>>, <<"p", "q", "p">>, <<"q">>}

(* Chunks that refer to each other, and a file.                            *)
Rel(r, t) == [rel |-> r, target |-> t]
MetaSets == {{}, {Rel("related", "b")}, {Rel("related", "a"), Rel("calls", "c")},
             {Rel("parent", "b"), Rel("contains", "f")}}
Ranks == [a |-> 1, b |-> 2, c |-> 3, f |-> 4]

(* Calls of a shard: two readers with one permit, and a writer.            *)
Header(d, v, u) == [digits |-> d, value |-> v, unit |-> u]
Headers == [g1 |-> Header(1, 2, "m"), g2 |-> Header(9, 1, "m"), g3 |-> Header(2, 1, "S")]
Called == [g1 |-> "Search", g2 |-> "Get", g3 |-> "Update"]
PermitsOf == [search |-> 1, mutation |-> 0]

(* Who may read memory: principals, configurations, calls and records.     *)
Key(i, t, f, u, a) == [id |-> i, token |-> t, from |-> f, until |-> u, active |-> a, sources |-> 1]
NsGrant(k, p) == [kind |-> k, path |-> p]
ScopeOf(e, s) == [entity |-> e, subject |-> s, session |-> <<>>, task |-> <<Wild>>]
ReaderOf == [id |-> "reader", version |-> 1, workspaces |-> <<"w2", "w1">>, namespaces |-> <<NsGrant("below", <<"a">>)>>,
   agents |-> <<"bot">>, shared |-> FALSE, scope |-> ScopeOf(<<"e1">>, <<"s1">>), sensitivities |-> <<"internal", "public">>,
   purposes |-> <<"support">>, capabilities |-> <<"memory.read">>, active |-> TRUE,
   credentials |-> <<Key("k1", "t1", 0, 1, TRUE), Key("k2", "t2", 1, 3, TRUE), Key("k3", "t3", 0, 3, FALSE)>>]
AuditorOf == [ReaderOf EXCEPT !.id = "auditor", !.namespaces = <<NsGrant("exact", <<"a">>), NsGrant("exact", <<"b">>)>>,
   !.scope = ScopeOf(<<Wild>>, <<Wild>>), !.purposes = <<Wild>>, !.sensitivities = <<"public", "restricted">>,
   !.agents = <<Wild>>, !.shared = TRUE, !.capabilities = <<"memory.read", "memory.admin">>,
   !.credentials = <<Key("k4", "t4", 0, 3, TRUE)>>]
Setup(mode, loop, tok, legacy, opn, ps) ==
  [mode |-> mode, loopback |-> loop, token |-> tok, epoch |-> 1, defaultWs |-> "w1", memoryWs |-> Absent,
   allowLegacy |-> legacy, allowOpen |-> opn, principals |-> ps]
Configs == {Setup("required", FALSE, "t0", TRUE, FALSE, <<ReaderOf, AuditorOf>>),
   Setup("loopback_optional", TRUE, Absent, FALSE, TRUE, <<ReaderOf>>),
   Setup("disabled", FALSE, Absent, FALSE, FALSE, <<ReaderOf>>),
   Setup("disabled", TRUE, Absent, FALSE, TRUE, <<>>),
   Setup("required", FALSE, "t4", FALSE, FALSE, <<AuditorOf>>)}
AskFor(tok, wh, ns, ag, ent, sub, max, cap) ==
  [token |-> tok, workspaceHeader |-> wh, agentHeader |-> ag, workspace |-> "w1", namespace |-> ns, purpose |-> "support",
   agent |-> ag, capability |-> cap, maximum |-> max,
   scope |-> [entity |-> ent, subject |-> sub, session |-> <<>>, task |-> <<>>]]
Asks == {AskFor(t, Absent, <<"a", "x">>, ag, <<>>, s, m, "memory.read") :
           t \in {"t1", "t2", "t3", "t4", "t0", Absent}, ag \in {Absent, "bot"}, s \in {<<>>, <<"s1">>}, m \in {Absent, "internal"}}
        \cup {AskFor(t, wh, <<"a">>, Absent, <<"e1">>, <<>>, Absent, "memory.admin") : t \in {"t1", "t4"}, wh \in {Absent, "w2", "w3"}}
        \cup {AskFor("t1", "w1", <<"ab">>, "bot", <<>>, <<>>, Absent, "memory.read"), AskFor("t2", "w1", <<"a">>, "cat", <<>>, <<>>, Absent, "memory.read"),
              AskFor("t2", "w1", <<"a">>, "bot", <<"e1", "e1">>, <<>>, Absent, "memory.read"), AskFor("t4", "w1", <<"b">>, "bot", <<Wild>>, <<>>, Absent, "memory.read"),
              AskFor("t4", "w1", <<"b">>, "bot", <<>>, <<>>, "internal", "memory.read"),
              AskFor("t0", "bad", <<"b">>, "bot", <<>>, <<"s2">>, "public", "memory.read")}
RowOf(ns, o, e, s, x) == [workspace |-> "w1", namespace |-> ns, purposes |-> {"support"}, owner |-> o, sensitivity |-> x,
   scope |-> [entity |-> e, subject |-> s, session |-> Absent, task |-> Absent]]
Rows == {RowOf(ns, o, e, s, x) : ns \in {<<"a">>, <<"a", "x">>, <<"b">>}, o \in {Absent, "bot"}, e \in {"e1", "e2"}, s \in {Absent, "s1", "s2"},
           x \in {"public", "internal", "restricted"}}

MCInit ==
    /\ focus \in {"writes", "limits", "batch", "pipeline", "lifecycle",
                 "text", "tags", "graph", "gate", "auth"}
    /\ WritesInit /\ LimitsInit /\ BatchInit /\ PipelineInit /\ LifecycleInit
    /\ TextInit /\ TagInit /\ GraphInit /\ GateInit
    /\ AuthInit
    /\ focus # "writes" => rows = [s \in WShards |-> [id \in WIds |-> Row("none", 0)]]
    /\ focus # "limits" => shedding
    /\ focus # "text" =>
          /\ stored = [i \in Hits |-> "in"] /\ denseOrder = <<1, 2, 3>> /\ lexicalOrder = <<>>
          /\ search.req = Asked("bm25", TRUE, FALSE, FALSE, 0, TRUE)

(* A behaviour delivers the malformed message or the repeated one.         *)
OneKind == \A m \in Messages : DocsOf[m] = <<>> /\ queue'[m].deliveries > 0 =>
              \A n \in Repeats : queue'[n].at = "pending" /\ queue'[n].deliveries = 0

(* The lifecycle is not followed past a lost update of the manifest: its   *)
(* properties say nothing of the keys concerned.                           *)
MCNext ==
    /\ UNCHANGED focus
    /\ focus # "writes" => UNCHANGED writesVars
    /\ focus # "limits" => UNCHANGED limitVars
    /\ focus # "batch" => UNCHANGED batchVars
    /\ focus # "pipeline" => UNCHANGED pipelineVars
    /\ focus # "lifecycle" => UNCHANGED lifecycleVars
    /\ focus # "text" => UNCHANGED textVars
    /\ focus # "tags" => UNCHANGED tagVars
    /\ focus # "graph" => UNCHANGED graphVars
    /\ focus # "gate" => UNCHANGED gateVars
    /\ focus # "auth" => UNCHANGED authVars
    /\ \/ focus = "writes" /\ WritesNext
       \/ focus = "limits" /\ LimitsNext
       \/ focus = "batch" /\ BatchNext
       \/ focus = "pipeline" /\ PipelineNext /\ OneKind
       \/ focus = "lifecycle" /\ stale = {} /\ LifecycleNext
       \/ focus = "text" /\ TextNext
       \/ focus = "tags" /\ TagNext
       \/ focus = "graph" /\ GraphNext
       \/ focus = "gate" /\ GateNext
       \/ focus = "auth" /\ AuthNext

MCSpec == MCInit /\ [][MCNext]_servicesVars

(* One message whose parser keeps failing, for what is said of the circuit *)
(* breaker.                                                                *)
OneUpload == [m1 |-> <<"b">>]
BreakerSpec ==
    /\ MCInit /\ focus = "pipeline" /\ [][MCNext]_servicesVars
    /\ PipelineFairness
=============================================================================
