------------------------------- MODULE MCCell -------------------------------
(***************************************************************************)
(* A cell of replicas, and what the administration of a server keeps:      *)
(* webhooks, the task governor, executions and their lists.  One of them   *)
(* moves at a time, chosen by focus.                                       *)
(*                                                                         *)
(* The cell: two replicas, two generations, one appended mutation, one     *)
(* fault.  A behaviour is on one of two menus, chosen at the start:        *)
(* "handover" publishes both generations, "append" publishes one and       *)
(* appends to it, so that a run reaches what either does to the replicas   *)
(* without the product of the two.                                         *)
(***************************************************************************)
EXTENDS ReplicaCell, WebhookDelivery, BackgroundTasks

CONSTANTS r1, r2, gA, gB, gC

VARIABLES
    focus,  \* what moves
    menu    \* what the cell may do
mcVars == <<vars, menu>>

MCInit == Init /\ menu \in {"handover", "append"}

(* Safety: the handover has readable replicas and nothing is appended.     *)
Zeroed == \E r \in Replicas, g \in Gens :
              ckpt[r][g] # None /\ ckpt[r][g].digest # None /\ ckpt[r][g].digest.content = "zero"
MCNext ==
    /\ Next
    /\ menu = "handover" => required' = required /\ ~Zeroed'
    /\ menu = "append" => pub' # gB
    /\ UNCHANGED menu

cellVars == <<focus, mcVars, hookVars, governorVars, tasksVars>>

(* Background tasks: small ones and a large one, two slots.                *)
Needs(c, n) == [cpu |-> c, memory |-> n]
AllNeeds == {Needs(20, 1), Needs(50, 3)}
SmallNeeds == Needs(20, 1)
GovernorLimits == [tasks |-> 2, cpu |-> 60, memory |-> 4, cooldown |-> 1]

(* Events are alike: they are sent in order.                               *)
SentInOrder == \A d, e \in Events : d < e /\ fate'[e] # "new" => fate'[d] # "new"

CellInit ==
    /\ focus \in {"cell", "hooks", "governor", "operations", "audits", "staging"}
    /\ MCInit /\ WebhookInit /\ GovernorInit /\ TasksInit
    /\ focus # "cell" => menu = "append"
    /\ focus # "hooks" => hookEnabled

CellNext ==
    /\ UNCHANGED focus
    /\ focus # "cell" => UNCHANGED mcVars
    /\ focus # "hooks" => UNCHANGED hookVars
    /\ focus # "governor" => UNCHANGED governorVars
    /\ focus \notin {"operations", "audits", "staging"} => UNCHANGED tasksVars
    /\ \/ focus = "cell" /\ MCNext
       \/ focus = "hooks" /\ WebhookNext /\ SentInOrder
       \/ focus = "governor" /\ GovernorNext
       \/ focus = "operations" /\ TasksNext /\ UNCHANGED <<audits, staged>>
       \/ focus = "audits" /\ TasksNext /\ UNCHANGED <<current, pager, staged>>
       \/ focus = "staging" /\ TasksNext /\ UNCHANGED <<current, pager, audits>>

CellSpec == CellInit /\ [][CellNext]_cellVars

(* Liveness: the handover may append to the generation that takes over,    *)
(* and has no fault and no drain.                                          *)
LiveNext ==
    /\ Next
    /\ menu = "handover" => faults' = faults /\ drained' = drained /\ required'[gA] = 0
    /\ menu = "append" => pub' # gB
    /\ UNCHANGED <<focus, menu, hookVars, governorVars, tasksVars>>
LiveInit == CellInit /\ focus = "cell"
LiveSpec ==
    /\ LiveInit /\ [][LiveNext]_cellVars
    /\ \A r \in Replicas : WF_vars(Reconcile(r))
=============================================================================
