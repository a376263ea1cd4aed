----------------------------- MODULE VectorMap -----------------------------
(***************************************************************************)
(* What a vector shard promises its clients: a map from ids to a vector    *)
(* with its owner, in which a deleted id is never used again and an id     *)
(* belongs to one workspace for good.  VectorShard implements it through   *)
(* its index, its rows, its crashes and its restarts.                      *)
(***************************************************************************)
CONSTANTS Ids, Vals, Workspaces, NoValue

VARIABLE content   \* the vector of each id, NoValue when it never had one

NoVector == NoValue
Vector(v, ws) == [val |-> v, ws |-> ws, live |-> TRUE]

MapInit == content = [id \in Ids |-> NoVector]

(* A new id, or a live one of the same workspace.                          *)
PutVector(id, v, ws) ==
    /\ content[id] # NoVector => content[id].live /\ content[id].ws = ws
    /\ content' = [content EXCEPT ![id] = Vector(v, ws)]

RemoveVector(id) ==
    /\ content[id] # NoVector /\ content[id].live
    /\ content' = [content EXCEPT ![id].live = FALSE]

MapNext ==
    \E id \in Ids : RemoveVector(id) \/ \E v \in Vals, ws \in Workspaces : PutVector(id, v, ws)

MapSpec == MapInit /\ [][MapNext]_content
=============================================================================
