------------------------ MODULE MCGenerationControl ------------------------
(***************************************************************************)
(* Small instances of what stands behind a generation.  The controller:    *)
(* three generations so that one is evicted and collected, one of them     *)
(* presented with two contents, one that materialisation rejects (target   *)
(* after base), and one that takes revisions from a ledger of two          *)
(* mutations.  Beside it, and independent of it, the build of a bundle,    *)
(* its fetch and the data plane; a behaviour runs one of the four.         *)
(***************************************************************************)
EXTENDS GenerationControl, GenerationBundle, DataPlane

CONSTANTS gA, gB, gC, x, y, s1, s2, e1, eBad

VARIABLE focus
Vars == <<focus, gcvars, buildVars, planeVars, fetchVars>>

Man(g, sha, base, target) == [id |-> g, sha |-> sha, base |-> base, target |-> target]
LedgerMut(g, id, n) == [gen |-> g, id |-> id, seq |-> n, sha |-> s1]

MCManifests == {Man(gA, s1, 0, 0), Man(gA, s2, 0, 0), Man(gB, s1, 1, 1), Man(gB, s2, 0, 1), Man(gC, s1, 1, 1)}
MCMutations == {LedgerMut(gA, x, 1), LedgerMut(gA, y, 2)}
MCCommits ==
    {[gen |-> gA, sha |-> s1, target |-> 1, tail |-> <<LedgerMut(gA, x, 1)>>],
     [gen |-> gA, sha |-> s1, target |-> 2, tail |-> <<LedgerMut(gA, x, 1), LedgerMut(gA, y, 2)>>]}

(* Bundles: a good one, an empty one, and one defect at a time.            *)
Hdr(r, n, e) == [is |-> "header", fault |-> "none", records |-> r, nodes |-> n, edges |-> e]
Rec(id, body) == [is |-> "record", id |-> id, body |-> body, fault |-> "none"]
Nd(id, kind) == [is |-> "node", id |-> id, kind |-> kind, body |-> "b", fault |-> "none"]
Ed(id, from, to, ev) ==
    [is |-> "edge", id |-> id, from |-> from, to |-> to, evidence |-> ev, body |-> "b", fault |-> "none"]
Bundle(r, e, lines) == [records |-> r, edges |-> e, lines |-> lines]
GoodLines ==
    <<Hdr(2, 3, 3), Rec(1, "b"), Rec(2, "b"), Nd(1, "chunk"), Nd(2, "chunk"), Nd(7, "entity"),
      Ed(1, 1, 7, <<1>>), Ed(2, 1, 7, <<1, 2>>), Ed(3, 1, 2, <<1>>)>>
Flawed(n, fault) == Bundle(2, 3, [GoodLines EXCEPT ![n].fault = fault])
Swapped(n) == Bundle(2, 3, [GoodLines EXCEPT ![n] = GoodLines[n + 1], ![n + 1] = GoodLines[n]])
SomeBundles ==
    {Bundle(2, 3, GoodLines), Bundle(0, 0, <<Hdr(0, 0, 0)>>), Bundle(0, 0, <<>>),
     Bundle(2, 3, Front(GoodLines)), Bundle(2, 3, GoodLines \o <<[is |-> "junk"]>>),
     Bundle(3, 3, GoodLines), Bundle(2, 3, GoodLines \o <<Ed(4, 1, 2, <<1>>)>>),
     Bundle(1, 1, <<Hdr(1, 1, 1), Rec(1, "b"), Nd(7, "entity"), Ed(1, 7, 8, <<1>>)>>),
     Bundle(1, 1, <<Hdr(1, 1, 1), Rec(1, "b"), Nd(7, "entity"), Ed(1, 7, 7, <<2>>)>>),
     Bundle(1, 0, <<Hdr(1, 1, 0), Rec(1, "b"), Nd(2, "chunk")>>),
     Bundle(0, 0, <<Hdr(0, 0, 0), Hdr(0, 0, 0)>>), Bundle(1, 0, <<Hdr(1, 4, 0), Rec(1, "b")>>)}
    \cup {Flawed(n, fault) : n \in {2, 4, 7}, fault \in {"identifier", "identity"}}
    \cup {Swapped(n) : n \in {1, 2, 3, 4, 6, 7}}

UpsertOf(c, body, nodes, edges) ==
    [op |-> "upsert", chunk |-> c, record |-> Rec(c, body), nodes |-> nodes, edges |-> edges]
DeleteOf(c) == [op |-> "delete", chunk |-> c]
Own(c) == <<Nd(c, "chunk")>>
SomeMutations ==
    {DeleteOf(c) : c \in {1, 2, 3}} \cup
    {UpsertOf(c, "n", Own(c), <<>>) : c \in {1, 2, 3}} \cup
    {UpsertOf(2, "n", Own(2), <<Ed(2, 2, 7, <<2>>), Ed(4, 2, 1, <<1, 2>>)>>),
     UpsertOf(3, "n", Own(3), <<Ed(5, 3, 2, <<3>>)>>),
     UpsertOf(3, "n", <<Nd(2, "entity"), Nd(3, "chunk")>>, <<>>),
     UpsertOf(3, "n", <<Nd(3, "chunk"), Nd(9, "entity")>>, <<Ed(6, 3, 9, <<3>>)>>),
     UpsertOf(3, "n", <<Nd(9, "entity")>>, <<>>), UpsertOf(1, "n", Own(1), <<Ed(6, 1, 7, <<2>>)>>)}
SomeTails == {<<m>> : m \in SomeMutations} \cup
    {<<DeleteOf(c), m>> : c \in {1, 2}, m \in SomeMutations}

(* A fresh replica, and one that restored an activation.                   *)
SomeSlots ==
    {[ws \in PlaneSpaces |-> EmptySlots],
     [ws \in PlaneSpaces |-> IF ws = "w"
         THEN [active |-> Runtime("g", 1), previous |-> Runtime("h", 0), staged |-> NoGen] ELSE EmptySlots]}

(* References to one key: unversioned with the digest in the key, pinned   *)
(* to a version, without either, too large, and in a foreign bucket.       *)
Ref(bucket, key, version, sha) ==
    [bucket |-> bucket, key |-> key, version |-> version, size |-> Len(sha), sha |-> sha]
SomeReferences ==
    {Ref("b", "digest", "none", <<1, 2>>), Ref("b", "plain", "v1", <<1, 2>>),
     Ref("b", "plain", "none", <<1, 2>>), Ref("b", "digest", "none", <<1, 1, 1, 1>>),
     Ref("x", "digest", "none", <<1, 2>>), Ref("b", "digest", "none", <<>>)}
SomeContents == {<<1, 2>>, <<2, 1>>, <<1, 2, 2>>, <<1>>}
PinnedVersions == [v1 |-> <<1, 2>>]

MCInit ==
    /\ focus \in {"control", "build", "plane", "fetch"}
    /\ GCInit /\ BuildInit /\ PlaneInit /\ FetchInit
    /\ focus # "build" => bundle.lines = <<>>
    /\ focus # "plane" => slots = [ws \in PlaneSpaces |-> EmptySlots]
    /\ focus # "fetch" => remote = <<1>> /\ mirror = <<>>

MCNext ==
    /\ UNCHANGED focus
    /\ focus # "control" => UNCHANGED gcvars
    /\ focus # "build" => UNCHANGED buildVars
    /\ focus # "plane" => UNCHANGED planeVars
    /\ focus # "fetch" => UNCHANGED fetchVars
    /\ \/ focus = "control" /\ GCNext
       \/ focus = "build" /\ BuildNext
       \/ focus = "plane" /\ PlaneNext
       \/ focus = "fetch" /\ FetchNext

MCSpec == MCInit /\ [][MCNext]_Vars
=============================================================================
