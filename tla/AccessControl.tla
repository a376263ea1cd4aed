---------------------------- MODULE AccessControl ----------------------------
(***************************************************************************)
(* How a call gets to see memory records: AuthRuntime (grpc-server/src/    *)
(* auth.rs) turns headers into a context and a context into a signed       *)
(* access proof, and the ledger (storage/src/memory.rs) checks the proof   *)
(* and then every record against it.                                       *)
(*                                                                         *)
(* A list of names is a sequence, a namespace the sequence of its          *)
(* segments, a namespace grant [kind, path] with kind any, below or exact. *)
(* The three optional parts of a record's scope are treated alike by the   *)
(* code and here, and so is its entity, which every record has.            *)
(***************************************************************************)
EXTENDS Naturals, Sequences, FiniteSets, SequencesExt, Functions

CONSTANTS
    AuthConfigs,   \* the configurations a process may be started with
    MemoryCalls,   \* the calls that may be made
    MemoryRows,    \* the scopes of the records in the ledger
    BadNames,     \* names that are empty, untrimmed, too long or with controls
    ShortTokens,   \* tokens too short for a principal
    LastMs, MaxStarts,  \* bounds: the clock, starts
    Absent         \* a header or an optional value that is not there

VARIABLES
    authConfig,  \* the configuration of the running process, or Absent
    starts,      \* starts so far; the signing key of a process is its number
    authNow,
    tokenFile,   \* "none", "loose" (written, not yet private), "private"
    access,      \* the call in progress
    seen         \* history: the rows the call was given

authVars == <<authConfig, starts, authNow, tokenFile, access, seen>>

Wild == "**"
Dims == {"entity", "subject", "session", "task"}
Sensitivities == <<"public", "internal", "confidential", "restricted">>
Capabilities == <<"memory.observe", "memory.propose", "memory.remember", "memory.read", "memory.recall",
                 "memory.correct", "memory.retract", "memory.forget", "memory.history", "memory.export",
                 "memory.replay", "memory.delete.plan", "memory.delete.execute", "memory.admin">>
Readers == {"memory.read", "memory.admin"}
NoAccess == [step |-> "none"]
FileToken == "file-token"

GrantedIn(list, v) == \E n \in DOMAIN list : list[n] \in {Wild, v}
Named(list, v) == v \in Range(list)

-----------------------------------------------------------------------------
(* validate_config_value and validate_unique_config_values.                *)
WellFormed(v) == v \notin BadNames
ValidNames(list) == IsInjective(list) /\ \A n \in DOMAIN list : WellFormed(list[n])

(* validate_auth_config.                                                   *)
ValidAuthConfig(c) ==
    c.epoch > 0 /\ WellFormed(c.defaultWs) /\ (c.memoryWs # Absent => WellFormed(c.memoryWs))

(* The part of resolve_principal_bindings about one principal.             *)
ValidPrincipal(p) ==
    /\ WellFormed(p.id) /\ p.version > 0
    /\ ValidNames(p.workspaces) /\ ValidNames(p.agents) /\ ValidNames(p.purposes)
    /\ IsInjective(p.namespaces)
    /\ \A d \in Dims : ValidNames(p.scope[d])
    /\ p.scope["entity"] # <<>>
    /\ p.sensitivities # <<>> /\ IsInjective(p.sensitivities)
    /\ Range(p.sensitivities) \subseteq Range(Sensitivities)
    /\ IsInjective(p.capabilities) /\ Range(p.capabilities) \subseteq Range(Capabilities)
    /\ p.credentials # <<>>

(* resolve_principal_token takes exactly one source; a window must be open *)
(* for some time.                                                          *)
ValidCredential(k) ==
    /\ WellFormed(k.id) /\ k.sources = 1
    /\ k.token \notin ShortTokens /\ WellFormed(k.token)
    /\ k.until > k.from

Binding(p, k) ==
    [token |-> k.token, principal |-> p, credential |-> k.id, active |-> p.active /\ k.active,
     from |-> k.from, until |-> k.until]
Bindings(c) ==
    FlattenSeq([n \in DOMAIN c.principals |->
        [i \in DOMAIN c.principals[n].credentials |->
            Binding(c.principals[n], c.principals[n].credentials[i])]])
Field(s, f(_)) == [n \in DOMAIN s |-> f(s[n])]

ValidBindings(c) ==
    /\ \A n \in DOMAIN c.principals :
          /\ ValidPrincipal(c.principals[n])
          /\ \A i \in DOMAIN c.principals[n].credentials :
                ValidCredential(c.principals[n].credentials[i])
    /\ IsInjective(Field(c.principals, LAMBDA p : p.id))
    /\ IsInjective(Field(Bindings(c), LAMBDA b : b.credential))
    /\ IsInjective(Field(Bindings(c), LAMBDA b : b.token))

(* resolve_or_create_token: the configured token, or the one of the file,  *)
(* which must be private.                                                  *)
LegacyToken(c) ==
    IF c.mode = "disabled" THEN Absent ELSE IF c.token # Absent THEN c.token ELSE FileToken

(* reject_duplicate_token_bindings.                                        *)
DistinctTokens(c) ==
    \A n \in DOMAIN Bindings(c) : Bindings(c)[n].token # LegacyToken(c)

TokenRequired(c) == c.mode = "required" \/ (c.mode = "loopback_optional" /\ ~c.loopback)

(* bootstrap_with_source.                                                  *)
Startable(c) ==
    /\ ValidAuthConfig(c) /\ ValidBindings(c) /\ DistinctTokens(c)
    /\ (c.mode # "disabled" /\ c.token = Absent) => tokenFile # "loose"
    /\ ~c.loopback => ~c.allowOpen

AuthInit ==
    /\ authConfig = Absent /\ starts = 0 /\ authNow = 0 /\ tokenFile = "none"
    /\ access = NoAccess /\ seen = {}

(* write_token_file writes the file and then makes it private.             *)
StartAuth(c) ==
    /\ starts < MaxStarts /\ starts' = starts + 1
    /\ Startable(c)
    /\ authConfig' = c
    /\ tokenFile' = IF c.mode # "disabled" /\ c.token = Absent THEN "private" ELSE tokenFile
    /\ access' = NoAccess /\ seen' = {}
    /\ UNCHANGED authNow

(* The process dies between the two.                                       *)
DieWritingToken(c) ==
    /\ starts < MaxStarts /\ starts' = starts + 1
    /\ Startable(c) /\ c.mode # "disabled" /\ c.token = Absent /\ tokenFile = "none"
    /\ tokenFile' = "loose"
    /\ authConfig' = Absent /\ access' = NoAccess /\ seen' = {}
    /\ UNCHANGED authNow

-----------------------------------------------------------------------------
(* is_time_active.                                                         *)
TimeActive(b) == b.active /\ authNow >= b.from /\ authNow < b.until

Who(kind, b) == [kind |-> kind, binding |-> b]
NoBinding == Absent
NotLetIn == Who("refused", NoBinding)

(* authenticate: the bindings of the token first, then the global token.   *)
Authenticate(c, r) ==
    LET of == {n \in DOMAIN Bindings(c) : Bindings(c)[n].token = r.token}
        active == {n \in of : TimeActive(Bindings(c)[n])}
    IN IF c.mode = "disabled" THEN Who("disabled", NoBinding)
       ELSE IF r.token = Absent
            THEN IF TokenRequired(c) THEN NotLetIn ELSE Who("open", NoBinding)
       ELSE IF active # {} THEN Who("principal", Bindings(c)[CHOOSE n \in active : TRUE])
       ELSE IF of = {} /\ r.token = LegacyToken(c) THEN Who("legacy", NoBinding)
       ELSE NotLetIn

(* authorize_all: the selectors in the headers must be granted.            *)
Selected(c, b, r) ==
    IF r.workspaceHeader # Absent THEN r.workspaceHeader
    ELSE IF Named(b.principal.workspaces, c.defaultWs) THEN c.defaultWs
    ELSE Head(b.principal.workspaces)
SelectorsGranted(c, b, r) ==
    /\ r.workspaceHeader = Absent => b.principal.workspaces # <<>>
    /\ Named(b.principal.workspaces, Selected(c, b, r))
    /\ r.agentHeader # Absent => GrantedIn(b.principal.agents, r.agentHeader)

DataContext(c, who, r) ==
    [workspace |-> IF who.kind = "principal" THEN Selected(c, who.binding, r)
                   ELSE IF r.workspaceHeader # Absent THEN r.workspaceHeader ELSE c.defaultWs,
     authenticated |-> who.kind # "open"]

(* memory_workspace.                                                       *)
MemoryWs(c) == IF c.memoryWs = Absent THEN c.defaultWs ELSE c.memoryWs

(* legacy_memory_context.                                                  *)
FullGrant(c, id) ==
    [id |-> id, version |-> 1, workspaces |-> <<MemoryWs(c)>>,
     namespaces |-> <<[kind |-> "any", path |-> <<>>]>>, agents |-> <<Wild>>, shared |-> TRUE,
     scope |-> [d \in Dims |-> <<Wild>>], sensitivities |-> Sensitivities,
     purposes |-> <<Wild>>, capabilities |-> Capabilities]

(* memory_context and denied: what the caller may do with memory at all.   *)
Context(eligible, grant) == [eligible |-> eligible, grant |-> grant]
MemoryContext(c, who) ==
    CASE who.kind = "principal" ->
            Context(Named(who.binding.principal.workspaces, MemoryWs(c)), who.binding.principal)
      [] who.kind = "legacy" -> Context(c.allowLegacy, FullGrant(c, "legacy-service"))
      [] who.kind = "open" -> Context(c.loopback /\ c.allowOpen, FullGrant(c, "insecure-local"))
      [] who.kind = "disabled" -> Context(c.allowOpen, FullGrant(c, "insecure-development"))

(* The interceptor: both contexts travel with the call.                    *)
Intercept(r) ==
    LET who == Authenticate(authConfig, r)
    IN /\ authConfig # Absent /\ access = NoAccess
       /\ who.kind # "refused"
       /\ who.kind = "principal" => SelectorsGranted(authConfig, who.binding, r)
       /\ access' = [step |-> "authenticated", req |-> r, at |-> authNow,
                     data |-> DataContext(authConfig, who, r),
                     memory |-> MemoryContext(authConfig, who)]
       /\ UNCHANGED <<authConfig, starts, authNow, tokenFile, seen>>

-----------------------------------------------------------------------------
(* namespace_matches: a grant that ends in a wildcard covers its own path  *)
(* and everything below it.                                                *)
NamespaceMatches(g, ns) ==
    CASE g.kind = "any" -> TRUE
      [] g.kind = "below" -> IsPrefix(g.path, ns)
      [] g.kind = "exact" -> g.path = ns

(* effective_scope_values.                                                 *)
ScopeGranted(list, asked) ==
    /\ IsInjective(asked)
    /\ \A n \in DOMAIN asked : WellFormed(asked[n]) /\ asked[n] # Wild /\ GrantedIn(list, asked[n])
EffectiveScope(list, asked) == IF asked = <<>> THEN list ELSE asked

Rank(s) == CHOOSE n \in DOMAIN Sensitivities : Sensitivities[n] = s

(* A plausible bug: the maximum asked for is taken for what may be seen.   *)
UpToMaximum(list, max) ==
    IF max = Absent THEN list ELSE SelectSeq(Sensitivities, LAMBDA s : Rank(s) <= Rank(max))

(* effective_sensitivities.                                                *)
EffectiveSensitivities(list, max) ==
    IF max = Absent THEN list ELSE SelectSeq(list, LAMBDA s : Rank(s) <= Rank(max))

(* The refusals of authorize_scoped.                                       *)
MayAuthorize(ctx, r) ==
    LET g == ctx.grant
    IN /\ ctx.eligible
       /\ WellFormed(r.workspace) /\ WellFormed(r.purpose) /\ WellFormed(r.capability)
       /\ r.agent # Absent => WellFormed(r.agent)
       /\ r.workspace = MemoryWs(authConfig) /\ Named(g.workspaces, r.workspace)
       /\ \E n \in DOMAIN g.namespaces : NamespaceMatches(g.namespaces[n], r.namespace)
       /\ GrantedIn(g.purposes, r.purpose)
       /\ Named(g.capabilities, r.capability)
       /\ r.agent # Absent => GrantedIn(g.agents, r.agent)
       /\ \A d \in Dims : ScopeGranted(g.scope[d], r.scope[d])
       /\ EffectiveSensitivities(g.sensitivities, r.maximum) # <<>>

(* The grant that is signed; whatever the caller named is required.        *)
Grant(ctx, r) ==
    [principal |-> ctx.grant.id, workspace |-> r.workspace, namespace |-> r.namespace,
     purpose |-> r.purpose, agent |-> r.agent, shared |-> ctx.grant.shared,
     scope |-> [d \in Dims |-> EffectiveScope(ctx.grant.scope[d], r.scope[d])],
     required |-> {d \in Dims \ {"entity"} : r.scope[d] # <<>>},
     sensitivities |-> EffectiveSensitivities(ctx.grant.sensitivities, r.maximum),
     capability |-> r.capability, epoch |-> authConfig.epoch, version |-> ctx.grant.version,
     system |-> FALSE]

(* validate_access_grant.                                                  *)
ValidGrant(g) ==
    /\ WellFormed(g.principal) /\ WellFormed(g.workspace) /\ WellFormed(g.purpose)
    /\ \A d \in Dims : ValidNames(g.scope[d])
    /\ g.scope["entity"] # <<>> /\ \A d \in g.required : g.scope[d] # <<>>
    /\ g.sensitivities # <<>> /\ IsInjective(g.sensitivities)
    /\ g.epoch > 0 /\ g.version > 0 /\ g.capability \in Range(Capabilities)
    /\ g.system => g.principal = "system:memory-runtime" /\ g.capability = "memory.admin"

(* encode_access_grant: every field, in a fixed order, each delimited.     *)
Encoded(g) ==
    <<g.principal, g.workspace, g.namespace, g.purpose, g.agent, g.shared, g.scope, g.required,
      g.sensitivities, g.capability, g.epoch, g.version, g.system>>

(* sign_access_grant: nobody makes the signature of another key or grant.  *)
Signature(key, g) == <<key, Encoded(g)>>

(* issue signs with the key of the process.                                *)
Issue(g) == [grant |-> g, signature |-> Signature(starts, g)]

AuthorizeScoped ==
    LET g == Grant(access.memory, access.req)
    IN /\ access.step = "authenticated"
       /\ MayAuthorize(access.memory, access.req) /\ ValidGrant(g)
       /\ access' = [step |-> "authorized", req |-> access.req, at |-> access.at,
                     data |-> access.data, proof |-> Issue(g)]
       /\ UNCHANGED <<authConfig, starts, authNow, tokenFile, seen>>

(* memory_system_access_proof: the proof of the maintenance jobs.          *)
SystemGrant(c) ==
    [principal |-> "system:memory-runtime", workspace |-> MemoryWs(c), namespace |-> <<Wild>>,
     purpose |-> "memory-maintenance", agent |-> Absent, shared |-> TRUE,
     scope |-> [d \in Dims |-> <<Wild>>], required |-> {}, sensitivities |-> Sensitivities,
     capability |-> "memory.admin", epoch |-> c.epoch, version |-> 1, system |-> TRUE]

StartJob ==
    /\ authConfig # Absent /\ access = NoAccess
    /\ ValidGrant(SystemGrant(authConfig))
    /\ access' = [step |-> "authorized", req |-> [workspace |-> MemoryWs(authConfig)], at |-> authNow,
                  data |-> [workspace |-> authConfig.defaultWs, authenticated |-> TRUE],
                  proof |-> Issue(SystemGrant(authConfig))]
    /\ UNCHANGED <<authConfig, starts, authNow, tokenFile, seen>>

-----------------------------------------------------------------------------
(* verify.                                                                 *)
Verified(proof) == ValidGrant(proof.grant) /\ proof.signature = Signature(starts, proof.grant)

(* authorize_capability and authorize_workspace_capability.                *)
MayUse(proof, ws, allowed) ==
    /\ Verified(proof)
    /\ proof.grant.system \/ proof.grant.capability \in allowed
    /\ proof.grant.workspace = ws

(* authorize_namespace.                                                    *)
InNamespace(proof, ns) == proof.grant.system \/ proof.grant.namespace = ns

(* scope_value_matches.                                                    *)
ValueMatches(list, v, required) == IF v = Absent THEN ~required ELSE GrantedIn(list, v)

(* authorize_record_scope.                                                 *)
RecordInScope(proof, row) ==
    LET g == proof.grant
    IN /\ InNamespace(proof, row.namespace)
       /\ \/ g.system
          \/ /\ g.purpose \in row.purposes
             /\ IF row.owner # Absent THEN g.agent = row.owner ELSE g.agent = Absent \/ g.shared
             /\ \A d \in Dims : ValueMatches(g.scope[d], row.scope[d], d \in g.required)
             /\ row.sensitivity \in Range(g.sensitivities)

(* A read of the ledger with the proof: the rows it lists.                 *)
ReadRows ==
    /\ access.step = "authorized"
    /\ MayUse(access.proof, access.req.workspace, Readers)
    /\ seen' = {row \in MemoryRows : row.workspace = access.req.workspace /\ RecordInScope(access.proof, row)}
    /\ access' = [access EXCEPT !.step = "read"]
    /\ UNCHANGED <<authConfig, starts, authNow, tokenFile>>

EndAccess ==
    /\ access # NoAccess /\ access' = NoAccess /\ seen' = {}
    /\ UNCHANGED <<authConfig, starts, authNow, tokenFile>>

AuthTick ==
    /\ authNow < LastMs /\ authNow' = authNow + 1
    /\ UNCHANGED <<authConfig, starts, tokenFile, access, seen>>

AuthNext ==
    \/ \E c \in AuthConfigs : StartAuth(c) \/ DieWritingToken(c)
    \/ \E r \in MemoryCalls : Intercept(r)
    \/ AuthorizeScoped \/ StartJob \/ ReadRows \/ EndAccess \/ AuthTick

-----------------------------------------------------------------------------
(* What the configuration entitles the holder of the call's token to, said *)
(* of the configuration alone.                                             *)
Holder(p, r, t) ==
    \E i \in DOMAIN p.credentials :
        LET k == p.credentials[i]
        IN k.token = r.token /\ p.active /\ k.active /\ k.from <= t /\ t < k.until
Covers(p, r, row) ==
    /\ Named(p.workspaces, row.workspace) /\ Named(p.capabilities, r.capability)
    /\ \E n \in DOMAIN p.namespaces : NamespaceMatches(p.namespaces[n], row.namespace)
    /\ GrantedIn(p.purposes, r.purpose)
    /\ \A d \in Dims : row.scope[d] # Absent => GrantedIn(p.scope[d], row.scope[d])
    /\ row.sensitivity \in Range(p.sensitivities)
    /\ row.owner = Absent => r.agent = Absent \/ p.shared
Entitled(r, t, row) ==
    \/ \E n \in DOMAIN authConfig.principals :
          Holder(authConfig.principals[n], r, t) /\ Covers(authConfig.principals[n], r, row)
    \/ authConfig.mode # "disabled" /\ r.token = LegacyToken(authConfig) /\ authConfig.allowLegacy
    \/ authConfig.allowOpen /\ (authConfig.mode = "disabled" \/ (r.token = Absent /\ authConfig.loopback))

(* What the call itself asked to see.                                      *)
AskedFor(r, row) ==
    /\ row.workspace = r.workspace /\ row.namespace = r.namespace /\ r.purpose \in row.purposes
    /\ \A d \in Dims : r.scope[d] # <<>> => row.scope[d] \in Range(r.scope[d])
    /\ r.maximum # Absent => Rank(row.sensitivity) <= Rank(r.maximum)
    /\ row.owner # Absent => row.owner = r.agent

(* From header to record: a read returns exactly the records that the      *)
(* configuration entitles the holder of the token to, as of the moment the *)
(* call arrived, and that the call's own selectors ask for; the two        *)
(* narrowings on the way (the proof, the record check) lose and add        *)
(* nothing.                                                                *)
ServedExactly ==
    (access.step = "read" /\ ~access.proof.grant.system) =>
        seen = {row \in MemoryRows : Entitled(access.req, access.at, row) /\ AskedFor(access.req, row)}

(* A running process knows every token under one identity only: no two     *)
(* credentials, and no credential and the global token, are the same.      *)
TokenNamesOne ==
    authConfig # Absent =>
        LET all == Bindings(authConfig)
        IN /\ \A m, n \in DOMAIN all : all[m].token = all[n].token => m = n
           /\ \A n \in DOMAIN all : all[n].token # LegacyToken(authConfig)

(* The workspace the data plane works in for a principal is one of the     *)
(* principal's, whatever the header says.                                  *)
ContextWithinGrant ==
    (access.step = "authenticated" /\ \E n \in DOMAIN authConfig.principals :
                                          Holder(authConfig.principals[n], access.req, access.at)
        /\ authConfig.mode # "disabled") =>
        Named(access.memory.grant.workspaces, access.data.workspace)

(* A memory call is served exactly when the credential, the grants and the *)
(* configuration allow it, a token names one principal, and the context    *)
(* never exceeds the grant.                                                *)
AccessExact ==
    /\ ServedExactly
    /\ TokenNamesOne
    /\ ContextWithinGrant
=============================================================================
