--------------------------- MODULE MCMemoryLedger ---------------------------
(***************************************************************************)
(* The memory ledger with its reads, and one at a time the planners that   *)
(* work on what it holds: consolidation, the evidence walk, the two        *)
(* compilers, and the exchange records.                                    *)
(***************************************************************************)
EXTENDS MemoryGateway, MemoryContracts

VARIABLE focus
Vars == <<focus, reader, ledgerVars, gatewayVars, conVars, walkVars, compileVars, procedureVars, exchangeVars>>

(* A small workspace: one assertion with two scopes, one of which has a    *)
(* data subject, a caller that covers both and one that covers one.        *)
Draft(a, s, e, r, f) == [assertion |-> a, scope |-> s, sources |-> e, rank |-> r, flagged |-> f]
MCSubjectOf == [s \in Scopes |-> IF s = "own" THEN "subject" ELSE None]
MCProofs == {{"own", "shared"}, {"own"}}
MCDrafts == {Draft("a", "own", {"e"}, 1, FALSE), Draft("a", "shared", {}, 2, FALSE),
             Draft("b", "shared", {"e"}, 0, TRUE)}

(* A behaviour of the ledger uses the operations of one menu; deletion is  *)
(* on every menu.  Proposals and readers have shorter behaviours.          *)
Menus == [remember |-> {"Commit", "Observe", "Reinforce"}, propose |-> {"Commit", "Propose"},
          forget |-> {"Commit", "Forget"}, correct |-> {"Correct", "Retract"}]
ReadMenu ==
    /\ ReadsNext /\ seq' <= 3
    /\ log' # log => log'[Len(log')].op \notin {"Correct", "Retract"}
LedgerMenu ==
    /\ LedgerNext
    /\ focus = "propose" => seq' <= 3
    /\ log' # log => log'[Len(log')].op \in Menus[focus] \cup {"RetentionDelete"}

(* Versions of two groups and two texts; one without evidence, one with    *)
(* repeated evidence, one of the wrong kind.                               *)
Ver(i, g, t, e, a) == [vid |-> i, group |-> g, kindFits |-> TRUE, text |-> t, evid |-> e, at |-> a]
SomeVersions ==
    {Ver(i, "g", "x", <<i>>, a) : i \in 1..3, a \in 1..2} \cup {Ver(i, "g", "y", <<i>>, 1) : i \in 1..3} \cup
    {Ver(2, "h", "x", <<2, 1>>, 1), Ver(3, "g", "x", <<>>, 1), Ver(3, "g", "x", <<1, 1>>, 1),
     Ver(1, "g", "x", <<1>>, 0), [Ver(3, "g", "x", <<3>>, 1) EXCEPT !.kindFits = FALSE]}
Dup(r, others, evid) == [kind |-> "duplicate", retained |-> r, others |-> others, evid |-> evid]
Clash(l, r) == [kind |-> "conflict", left |-> l, right |-> r]
SomeActions ==
    {Dup(r, <<o>>, e) : r \in 1..3, o \in 1..3, e \in {<<1>>, <<1, 2>>, <<1, 3>>, <<2, 3>>}} \cup
    {Clash(1, 2), Clash(2, 3), Dup(1, <<2, 3>>, <<1, 2, 3>>)}
(* Plans of one action or two, and the reference plan with its first       *)
(* action dropped after the digest was taken.                              *)
SomeProposals(in) ==
    LET body(s) == [artifact |-> in.artifact, ids |-> SortedIds(InputIds(in)), actions |-> Numbered(s)]
        ref == ReferencePlan(in)
        fits == {a \in SomeActions : IF a.kind = "duplicate" THEN {a.retained} \cup ToSet(a.others) \subseteq InputIds(in)
                                                             ELSE {a.left, a.right} \subseteq InputIds(in)}
        likely == {a \in fits : a.kind = "duplicate" => \A k \in DOMAIN a.others : a.others[k] # a.retained}
    IN {Sealed(body(<<a>>)) : a \in SomeActions} \cup {Sealed(body(<<a, b>>)) : a \in likely, b \in likely}
       \cup {[ref EXCEPT !.body.actions = <<>>]}

(* Every subset of six edges over four nodes, from one root or two, and    *)
(* inputs that are refused.                                                *)
Link(i, k, f, t) == [eid |-> i, kind |-> k, from |-> f, to |-> t, at |-> 1]
GraphNodes == [n \in 1..4 |-> [kind |-> IF n <= 2 THEN "version" ELSE "evidence", at |-> 1]]
EdgePool == {Link(1, 1, 1, 3), Link(2, 2, 1, 2), Link(3, 1, 2, 3), Link(4, 1, 3, 4), Link(5, 3, 4, 1), Link(6, 2, 1, 4)}
GoodInputs == {[roots |-> r, nodes |-> GraphNodes, edges |-> E, visible |-> 1] :
                  r \in {<<1>>, <<2>>, <<1, 2>>}, E \in SUBSET EdgePool}
SomeInput == [roots |-> <<1>>, nodes |-> GraphNodes, edges |-> {}, visible |-> 1]
BadInputs ==
    {[SomeInput EXCEPT !.roots = r] : r \in {<<>>, <<2, 1>>, <<3>>}} \cup
    {[SomeInput EXCEPT !.edges = {e}] : e \in {Link(1, 1, 1, 1), Link(1, 1, 1, 9)}} \cup
    {[SomeInput EXCEPT !.edges = {Link(1, 1, 1, 3), Link(2, 1, 1, 3)}], [SomeInput EXCEPT !.visible = 0],
     [SomeInput EXCEPT !.nodes[3].at = 2]}
SomeGraphInputs == GoodInputs \cup BadInputs
SomeWalkBounds == {[depth |-> d, nodes |-> n] : d \in 0..3, n \in 1..4}

(* Observations of one thing by two viewers, of another, a repeated        *)
(* evidence, and windows that end before they begin.                       *)
Saw(i, e, p, v, t) == [obs |-> i, evid |-> e, place |-> p, viewer |-> v, hint |-> "likes", text |-> t, from |-> 0, to |-> 0]
SomeObservations ==
    {Saw(i, i, "p", v, t) : i \in 1..3, v \in {"u", "w"}, t \in {"x", "y"}} \cup
    {Saw(2, 1, "p", "u", "x"), Saw(3, 3, "q", "u", "x"), [Saw(1, 1, "p", "u", "x") EXCEPT !.from = 2, !.to = 2],
     [Saw(1, 1, "p", "u", "x") EXCEPT !.from = 2, !.to = 3], [Saw(2, 2, "p", "u", "x") EXCEPT !.hint = "has"]}
SomeHeads == {[vid |-> 1, place |-> "p", hint |-> "likes", kind |-> "text"],
              [vid |-> 2, place |-> "p", hint |-> "likes", kind |-> "procedure"],
              [vid |-> 1, place |-> "q", hint |-> "likes", kind |-> "text"]}

(* Events in and out of place, with and without a recovery.               *)
Did(i, n, ok) == [eid |-> i, evid |-> 4 - i, where |-> "here", nth |-> n, action |-> <<"a", "b", "c">>[i], ok |-> ok,
                  recovery |-> IF ok THEN "" ELSE <<"r", "s", "t">>[i]]
SomeEvents == {Did(i, n, ok) : i \in 1..3, n \in 0..3, ok \in BOOLEAN} \cup
    {[Did(1, 1, TRUE) EXCEPT !.where = "there"], [Did(1, 1, TRUE) EXCEPT !.recovery = "r"], [Did(2, 2, TRUE) EXCEPT !.evid = 3],
     [Did(2, 2, FALSE) EXCEPT !.recovery = ""]}

(* Two principals: one may do everything but look at the past, one may not *)
(* forget.  They send requests that are in order, stale or malformed, name *)
(* heads or leave them out, and send them again.                           *)
MCProofOf == [c \in Callers |-> {"own", "shared"}]
AllCapabilities == {CapabilityOf[op] : op \in DOMAIN CapabilityOf}
MCGranted == [c \in Callers |-> IF c = 1 THEN AllCapabilities \ {"memory.history", "memory.replay"}
                                 ELSE AllCapabilities \ {"memory.forget"}]
Writing(op, hs, form) ==
    [op |-> op, form |-> form, draft |-> Draft("a", "own", {"e"}, 1, FALSE), deriv |-> <<{}, {}>>, heads |-> hs]
Withdrawing(op, v, hs) == [op |-> op, form |-> "good", assertion |-> "a", version |-> v, heads |-> hs]
BySource == [kind |-> "Source", id |-> "e"]
MCRequestPool ==
    {Writing("Commit", {}, "good"), Writing("Commit", {}, "keyless"), Writing("Correct", {1}, "good"),
     Writing("Correct", {}, "malformed"), Writing("Propose", {}, "good"), Writing("Correct", {}, "foreign"), Writing("Correct", {}, "rejected"),
     [Writing("Correct", {1}, "good") EXCEPT !.deriv = <<{1}, {}>>]}
    \cup {Withdrawing("Forget", 0, {}), Withdrawing("Forget", 0, {1}), Withdrawing("Retract", 1, {})}
    \cup {[op |-> "CommitProposal", form |-> "good", version |-> 1, heads |-> {}],
          [op |-> "Observe", form |-> "good", scope |-> "own", source |-> "e"],
          [op |-> "Reinforce", form |-> "good", version |-> 1, source |-> "e"],
          [op |-> "PlanDeletion", form |-> "good", selector |-> BySource, at |-> 0],
          [op |-> "RetentionDelete", form |-> "good", selector |-> BySource, at |-> 1],
          [op |-> "Get", form |-> "good", assertion |-> "a", barrier |-> 1],
          [op |-> "History", form |-> "good", assertion |-> "a"],
          [op |-> "Export", form |-> "good", assertion |-> "a"],
          [op |-> "Explain", form |-> "good", snapshot |-> 0, mode |-> "retained"],
          [op |-> "Recall", form |-> "good", at |-> 1],
          [op |-> "Replay", form |-> "good", snapshot |-> 0, mode |-> "retained"],
          [op |-> "Replay", form |-> "good", snapshot |-> 0, mode |-> "again"]}

(* A build, its successor under the same projection set, and under another.*)
MCBuilds == {[set |-> 1, build |-> 1], [set |-> 1, build |-> 2], [set |-> 2, build |-> 2]}

(* What each of the two sends in a behaviour of the service.               *)
ServeMenus ==
    [withdraw |-> <<{"Commit", "Forget", "Retract", "Get"}, {"Commit", "Correct", "Retract", "History", "Export"}>>,
     promote |-> <<{"Propose", "CommitProposal", "Commit"}, {"CommitProposal", "Observe", "Reinforce", "Correct"}>>,
     replay |-> <<{"Commit", "PlanDeletion", "RetentionDelete"}, {"Recall", "Explain", "Replay"}>>]
ServeMenu ==
    /\ GatewayNext
    /\ \A c \in Callers : call'[c].pc = "received" =>
           call'[c].req.op \in ServeMenus[focus][c] /\ (focus # "replay" => call'[c].sends <= 2)
    /\ focus # "replay" /\ running' # None => running'.build = 1

MCInit ==
    /\ focus \in DOMAIN Menus \cup DOMAIN ServeMenus
                  \cup {"consolidate", "walk", "compile", "procedure", "timeline", "read"}
    /\ ReadsInit /\ GatewayInit /\ ConInit /\ WalkInit /\ CompileInit /\ ProcedureInit /\ ExchangeInit
    /\ focus # "consolidate" => asked.artifact = "reference"

MCNext ==
    /\ UNCHANGED focus
    /\ focus \notin DOMAIN Menus \cup DOMAIN ServeMenus \cup {"read"} => UNCHANGED ledgerVars
    /\ focus # "read" => UNCHANGED reader
    /\ focus \notin DOMAIN ServeMenus => UNCHANGED gatewayVars
    /\ focus # "consolidate" => UNCHANGED conVars
    /\ focus # "walk" => UNCHANGED walkVars
    /\ focus # "compile" => UNCHANGED compileVars
    /\ focus # "procedure" => UNCHANGED procedureVars
    /\ focus # "timeline" => UNCHANGED exchangeVars
    /\ \/ focus \in DOMAIN Menus /\ LedgerMenu
       \/ focus = "read" /\ ReadMenu
       \/ focus \in DOMAIN ServeMenus /\ ServeMenu
       \/ focus = "consolidate" /\ ConNext
       \/ focus = "walk" /\ WalkNext
       \/ focus = "compile" /\ CompileNext
       \/ focus = "procedure" /\ ProcedureNext
       \/ focus = "timeline" /\ ExchangeNext

MCSpec == MCInit /\ [][MCNext]_Vars

(* Longer behaviours of one assertion under one proof, for what is said of *)
(* a deletion that is asked again.                                         *)
BothScopes == {{"own", "shared"}}
TwoDrafts == {Draft("a", "own", {"e"}, 1, FALSE), Draft("a", "shared", {}, 2, FALSE)}
RetriedNext ==
    /\ ReadsNext
    /\ UNCHANGED <<focus, gatewayVars, conVars, walkVars, compileVars, procedureVars, exchangeVars>>
RetriedSpec == MCInit /\ focus = "read" /\ [][RetriedNext]_Vars
=============================================================================
