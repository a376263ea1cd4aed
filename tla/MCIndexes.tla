------------------------------ MODULE MCIndexes ------------------------------
(***************************************************************************)
(* What a replica keeps, one part at a time: the shard over its index, the *)
(* index's snapshots and searches, the serving state and the directories   *)
(* of a generation.                                                        *)
(***************************************************************************)
EXTENDS VectorShard, HnswIndex, ServingState, GenerationFiles

CONSTANTS gA, gB, gC, m1, m2, s1, s2, e1, eBad

VARIABLE focus
Vars == <<focus, shardVars, snapVars, searchVars, vars, fileVars>>

(* Two ids, one written by two workspaces, the other with two vectors.     *)
Write(id, v, ws, text) == [id |-> id, val |-> v, ws |-> ws, text |-> text]
MCWrites == {Write(1, "v", "w", "v"), Write(1, "x", "w", NoValue),
             Write(2, "v", "w", NoValue), Write(2, "v", "u", NoValue)}

Query(k, l, f, c, e) == [topK |-> k, limit |-> l, filtered |-> f, caching |-> c, quantised |-> e]
SomeQueries ==
    {Query(k, l, f, f /\ c, FALSE) : k \in {1, 2}, l \in {1, 3, 9}, f \in BOOLEAN, c \in BOOLEAN}
        \cup {Query(2, 9, f, FALSE, TRUE) : f \in BOOLEAN}
ExactOrder == <<3, 1, 2, 5, 4>>

(* Three generations, so that activation evicts one; one of them has a    *)
(* bundle tail to replay (base < target) and is also presented with        *)
(* different content; mutations conflict in identity, in sequence and in   *)
(* content.                                                                *)
MCManifests ==
    {[id |-> gA, sha |-> s1, base |-> 0, target |-> 1],
     [id |-> gA, sha |-> s2, base |-> 0, target |-> 1],
     [id |-> gB, sha |-> s1, base |-> 1, target |-> 1],
     [id |-> gC, sha |-> s1, base |-> 2, target |-> 2]}

MCMutations ==
    {[gen |-> gA, id |-> m1, seq |-> 1, sha |-> s1],
     [gen |-> gA, id |-> m1, seq |-> 1, sha |-> s2],
     [gen |-> gA, id |-> m2, seq |-> 1, sha |-> s1],
     [gen |-> gA, id |-> m1, seq |-> 2, sha |-> s1],
     [gen |-> gA, id |-> m2, seq |-> 2, sha |-> s1],
     [gen |-> gB, id |-> m1, seq |-> 2, sha |-> s1],
     [gen |-> gB, id |-> m2, seq |-> 2, sha |-> s1],
     [gen |-> gB, id |-> m1, seq |-> 3, sha |-> s1],
     [gen |-> gB, id |-> m2, seq |-> 3, sha |-> s2]}

Mut(g, id, n, sha) == [gen |-> g, id |-> id, seq |-> n, sha |-> sha]
Commit(g, sha, n, t) == [gen |-> g, sha |-> sha, target |-> n, tail |-> t]

(* Commits whose tails repeat no identity: two conflicting histories for   *)
(* gA and for gB, a wrong digest, a wrong length, a gap, a tail that mixes *)
(* generations, a generation without mutations, an unsafe integer.         *)
MCDistinctCommits ==
    {Commit(gA, s1, 2, <<Mut(gA, m2, 2, s1)>>),
     Commit(gA, s1, 2, <<Mut(gA, m1, 2, s1)>>),
     Commit(gA, s2, 2, <<Mut(gA, m2, 2, s1)>>),
     Commit(gB, s1, 2, <<Mut(gB, m1, 2, s1)>>),
     Commit(gB, s1, 2, <<Mut(gB, m2, 2, s1)>>),
     Commit(gB, s1, 3, <<Mut(gB, m1, 2, s1), Mut(gB, m2, 3, s2)>>),
     Commit(gB, s1, 3, <<Mut(gB, m2, 2, s1), Mut(gB, m1, 3, s1)>>),
     Commit(gB, s1, 3, <<Mut(gB, m1, 2, s1)>>),
     Commit(gB, s1, 2, <<Mut(gB, m2, 3, s2)>>),
     Commit(gB, s1, 3, <<Mut(gB, m1, 2, s1), Mut(gA, m2, 2, s1)>>),
     Commit(gC, s1, 2, <<>>),
     Commit(gC, s1, MaxSeq + 1, <<>>)}

(* Two contents of one generation that name the same bundle.               *)
TwoContents == {[name |-> "m1", bundle |-> "b1"], [name |-> "m2", bundle |-> "b1"]}

MCInit ==
    /\ focus \in {"shard", "snapshot", "search", "serving", "files"}
    /\ ShardInit /\ SnapInit /\ SearchInit /\ Init /\ FilesInit
    /\ focus # "snapshot" => conf = ExactConf
    /\ focus # "search" => dead = {} /\ allowed = {}

(* A behaviour of the shard has a failure or a crash, not both.            *)
OneFault == failures' + crashes' <= 1

MCNext ==
    /\ UNCHANGED focus
    /\ focus # "shard" => UNCHANGED shardVars
    /\ focus # "snapshot" => UNCHANGED snapVars
    /\ focus # "search" => UNCHANGED searchVars
    /\ focus # "serving" => UNCHANGED vars
    /\ focus # "files" => UNCHANGED fileVars
    /\ \/ focus = "shard" /\ ShardNext /\ OneFault
       \/ focus = "snapshot" /\ SnapNext
       \/ focus = "search" /\ SearchNext
       \/ focus = "serving" /\ Next
       \/ focus = "files" /\ FilesNext

MCSpec == MCInit /\ [][MCNext]_Vars
=============================================================================
