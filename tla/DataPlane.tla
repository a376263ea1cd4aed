------------------------------ MODULE DataPlane ------------------------------
(***************************************************************************)
(* Serving from immutable generations                                      *)
(* (grpc-server/src/generation_data_plane.rs) while the management API     *)
(* (generation_management.rs) stages, activates, rolls back and revises    *)
(* them.  The controller of GenerationControl is one atomic step here; the *)
(* service cache in front of it is not covered by the controller's lock.   *)
(***************************************************************************)
EXTENDS Naturals, FiniteSets, Sequences

CONSTANTS
    PlaneSpaces,       \* workspaces; each has the default collection
    Generations,
    Clients,      \* concurrent calls, each authenticated for some workspace
    NoGen,        \* model value: an empty slot
    RestoredSlots,\* what the controller may restore at start
    MaxSequence,  \* bound: revisions of a generation
    MaxManaged    \* bound: management calls

VARIABLES
    slots,     \* workspace -> the controller's active, previous and staged runtimes
    services,  \* the cache: key -> the runtime its service was built on
    call,      \* client -> the call it makes
    everActive,\* client -> the runtimes active since its call started
    managed,
    changed    \* the workspace the last transition changed and whose call it was

planeVars == <<slots, services, call, everActive, managed, changed>>

-----------------------------------------------------------------------------
Runtime(g, seq) == [gen |-> g, seq |-> seq]
EmptySlots == [active |-> NoGen, previous |-> NoGen, staged |-> NoGen]

PlaneRuntimes == [gen : Generations, seq : Nat]
SlotRecords ==
    [active : PlaneRuntimes \cup {NoGen}, previous : PlaneRuntimes \cup {NoGen}, staged : PlaneRuntimes \cup {NoGen}]

ASSUME PlaneAssumption == RestoredSlots \subseteq [PlaneSpaces -> SlotRecords]

InSlots(s) == {s.active, s.previous, s.staged} \ {NoGen}

(* A plausible bug: the key does not tell revisions apart.                 *)
GenerationKey(ws, r) == <<ws, r.gen>>
RuntimeCacheKey(ws, r) == <<ws, r.gen, r.seq>>

(* service_for_runtime: the cached service, or a new one.                  *)
ServiceFor(ws, r) ==
    LET k == RuntimeCacheKey(ws, r) IN IF k \in DOMAIN services THEN services[k] ELSE r
CachedWith(ws, r) ==
    LET k == RuntimeCacheKey(ws, r)
    IN [x \in DOMAIN services \cup {k} |-> IF x = k THEN ServiceFor(ws, r) ELSE services[x]]

(* prune_scope, with the record the transition returned.                   *)
Pruned(cache, ws, record) ==
    LET keep == {RuntimeCacheKey(ws, r) : r \in InSlots(record)}
    IN [k \in {x \in DOMAIN cache : x[1] # ws \/ x \in keep} |-> cache[k]]

NoPlaneCall == [op |-> "none"]
PlaneInit ==
    /\ slots \in RestoredSlots /\ services = <<>>
    /\ call = [c \in Clients |-> NoPlaneCall] /\ everActive = [c \in Clients |-> {}]
    /\ managed = 0 /\ changed = <<>>

-----------------------------------------------------------------------------
(* The scope of a read is the caller's workspace.                          *)
ScopeFor(ctx) == ctx
StartRead(c, ctx) ==
    /\ call[c] = NoPlaneCall
    /\ call' = [call EXCEPT ![c] =
          [op |-> "read", pc |-> "runtime", ctx |-> ctx, ws |-> ScopeFor(ctx),
           evidence |-> NoGen, from |-> NoGen]]
    /\ everActive' = [everActive EXCEPT ![c] = {slots[ScopeFor(ctx)].active}]
    /\ UNCHANGED <<slots, services, managed, changed>>

ActiveRuntime(ws) == slots[ws].active

(* active_service: one runtime gives both the evidence and the service.    *)
ActiveService(c) ==
    /\ call[c].op = "read" /\ call[c].pc = "runtime"
    /\ LET r == ActiveRuntime(call[c].ws)
       IN call' = [call EXCEPT ![c] =
             IF r = NoGen THEN NoPlaneCall
             ELSE [@ EXCEPT !.pc = "service", !.evidence = r]]
    /\ UNCHANGED <<slots, services, everActive, managed, changed>>

UseService(c) ==
    /\ call[c].op = "read" /\ call[c].pc = "service"
    /\ LET r == call[c].evidence IN
       /\ call' = [call EXCEPT ![c].pc = "answered", ![c].from = ServiceFor(call[c].ws, r)]
       /\ services' = CachedWith(call[c].ws, r)
    /\ UNCHANGED <<slots, everActive, managed, changed>>

Answered(c) ==
    /\ call[c].op = "read" /\ call[c].pc = "answered"
    /\ call' = [call EXCEPT ![c] = NoPlaneCall]
    /\ everActive' = [everActive EXCEPT ![c] = {}]
    /\ UNCHANGED <<slots, services, managed, changed>>

-----------------------------------------------------------------------------

(* require_authenticated and authorize_scope.                              *)
AuthorizeScope(ctx, ws) == ctx = ws

Manage(c, op, ctx, ws, g, expected) ==
    /\ call[c] = NoPlaneCall /\ managed < MaxManaged
    /\ AuthorizeScope(ctx, ws)
    /\ managed' = managed + 1
    /\ call' = [call EXCEPT ![c] =
          [op |-> op, pc |-> "prepare", ctx |-> ctx, ws |-> ws, gen |-> g,
           expected |-> expected, record |-> EmptySlots]]
    /\ UNCHANGED <<slots, services, everActive, changed>>

(* prepare_generation: the runtime must be retained.                       *)
RetainedAs(s, g) == {r \in InSlots(s) : r.gen = g}
Prepare(c) ==
    /\ call[c].op \in {"activate", "rollback"} /\ call[c].pc = "prepare"
    /\ LET found == RetainedAs(slots[call[c].ws], call[c].gen)
       IN IF found = {} THEN call' = [call EXCEPT ![c] = NoPlaneCall] /\ UNCHANGED services
          ELSE /\ call' = [call EXCEPT ![c].pc = "transition"]
               /\ services' = CachedWith(call[c].ws, CHOOSE r \in found : TRUE)
    /\ UNCHANGED <<slots, everActive, managed, changed>>

(* The controller's transitions: compare and swap on the active one; a     *)
(* repeated activation or rollback returns the record as it is.            *)
IsActive(s, g) == s.active # NoGen /\ s.active.gen = g
Transitioned(c, s) ==
    LET g == call[c].gen IN
    IF call[c].op \in {"activate", "rollback"} /\ IsActive(s, g) THEN s ELSE
    CASE call[c].op = "stage" -> [s EXCEPT !.staged = Runtime(g, 0)]
      [] call[c].op = "activate" -> [active |-> s.staged, previous |-> s.active, staged |-> NoGen]
      [] call[c].op = "rollback" -> [s EXCEPT !.active = s.previous, !.previous = s.active]
      [] call[c].op = "revise" -> [s EXCEPT !.active.seq = @ + 1]
IsExpected(s, e) == IF s.active = NoGen THEN e = NoGen ELSE s.active.gen = e
MayTransition(c, s) ==
    LET g == call[c].gen IN
    IF call[c].op \in {"activate", "rollback"} /\ IsActive(s, g) THEN TRUE ELSE
    CASE call[c].op = "stage" -> RetainedAs(s, g) = {}
      [] call[c].op = "activate" -> IsExpected(s, call[c].expected) /\ s.staged # NoGen /\ s.staged.gen = g
      [] call[c].op = "rollback" -> IsExpected(s, call[c].expected) /\ s.previous # NoGen /\ s.previous.gen = g
      [] call[c].op = "revise" -> IsActive(s, g) /\ s.active.seq < MaxSequence

RunTransition(c) ==
    /\ call[c].op \in {"stage", "activate", "rollback", "revise"}
    /\ call[c].pc = IF call[c].op \in {"stage", "revise"} THEN "prepare" ELSE "transition"
    /\ LET ws == call[c].ws
           s  == Transitioned(c, slots[ws])
       IN IF ~MayTransition(c, slots[ws])
          THEN call' = [call EXCEPT ![c] = NoPlaneCall] /\ UNCHANGED <<slots, everActive, changed>>
          ELSE /\ slots' = [slots EXCEPT ![ws] = s]
               /\ everActive' = [x \in Clients |->
                     IF call[x].op = "read" /\ call[x].ws = ws THEN everActive[x] \cup {s.active}
                     ELSE everActive[x]]
               /\ changed' = <<ws, call[c].ctx>>
               /\ call' = [call EXCEPT ![c].pc = "prune", ![c].record = s]
    /\ UNCHANGED <<services, managed>>

(* The end of a transition: a stage or a revision prepares its service,    *)
(* and all but a stage prune.                                              *)
PrepareNew(c) ==
    LET found == RetainedAs(slots[call[c].ws], call[c].gen)
    IN IF call[c].op \in {"stage", "revise"} /\ found # {}
       THEN CachedWith(call[c].ws, CHOOSE r \in found : TRUE) ELSE services
Prune(c) ==
    /\ call[c].op # "none" /\ call[c].pc = "prune"
    /\ services' = IF call[c].op = "stage" THEN PrepareNew(c)
                   ELSE Pruned(PrepareNew(c), call[c].ws, call[c].record)
    /\ call' = [call EXCEPT ![c] = NoPlaneCall]
    /\ UNCHANGED <<slots, everActive, managed, changed>>

PlaneNext ==
    \E c \in Clients :
        \/ \E ctx \in PlaneSpaces :
              \/ StartRead(c, ctx)
              \/ \E ws \in PlaneSpaces, g \in Generations :
                    \/ \E op \in {"stage", "revise"} : Manage(c, op, ctx, ws, g, NoGen)
                    \/ \E op \in {"activate", "rollback"}, x \in Generations \cup {NoGen} : Manage(c, op, ctx, ws, g, x)
        \/ ActiveService(c) \/ UseService(c) \/ Answered(c)
        \/ Prepare(c) \/ RunTransition(c) \/ Prune(c)

PlaneSpec == PlaneInit /\ [][PlaneNext]_planeVars

-----------------------------------------------------------------------------
(* service_for_runtime (generation_data_plane.rs:214), serving_evidence:   *)
(* the generation and checkpoint an answer names are those of the service  *)
(* that computed it, whatever was activated, revised or evicted meanwhile. *)
EvidenceExact ==
    \A c \in Clients :
        call[c].op = "read" /\ call[c].pc = "answered" => call[c].from = call[c].evidence

(* active_service (generation_data_plane.rs:192): an answer comes from a   *)
(* runtime that was active in the caller's own workspace at some time      *)
(* while the call ran.                                                     *)
AnswersWereActive ==
    \A c \in Clients :
        call[c].op = "read" /\ call[c].pc = "answered" =>
            call[c].evidence \in everActive[c] /\ call[c].ws = call[c].ctx

(* authorize_scope (generation_management.rs:200): no call changes what    *)
(* serves in another workspace.                                            *)
OwnWorkspaceOnly == changed # <<>> => changed[1] = changed[2]

(* A search of the generation data plane is answered from one runtime of a *)
(* generation that was active during the call, with evidence of that       *)
(* generation, and only for the caller's own workspace.                    *)
AnswersExact ==
    /\ EvidenceExact
    /\ AnswersWereActive
    /\ OwnWorkspaceOnly
=============================================================================
