------------------------- MODULE MemoryLedgerProofs -------------------------
(***************************************************************************)
(* The memory ledger is consistent after every sequence of operations, for *)
(* every workspace: any assertions, sources, scopes, proofs and drafts.    *)
(*                                                                         *)
(* LedgerConsistent is not inductive.  What it lacks is that the lifecycle *)
(* of a version that exists is never empty, that an identity names a row   *)
(* of one kind only, that evidence belongs to a row that was written, that *)
(* a plan made at this sequence still names exactly what it would find     *)
(* now, and that what was deleted has not come back.                       *)
(***************************************************************************)
EXTENDS MemoryLedger, CompilerJobs, TLAPS, WellFoundedInduction, FiniteSetTheorems

LivesKept ==
    /\ Existing \subseteq DOMAIN life
    /\ \A v \in DOMAIN life : Len(life[v]) > 0

RowsApart ==
    /\ Existing \cap DOMAIN observations = {}
    /\ Existing \cap DOMAIN reinforcements = {}
    /\ DOMAIN observations \cap DOMAIN reinforcements = {}

OwnersKnown == \A e \in evidence : e.owner \in 1..seq

(* Between a plan and its execution nothing else may have been written.    *)
PlanExact(plan) ==
    LET selector == plan.selector
        p == plan.proof
    IN  /\ plan.versions = AffectedVersions(selector, p)
        /\ plan.observations = AffectedObservations(selector, p)
        /\ plan.reinforcements = UNION {ReinforcedBy(v) : v \in plan.versions}
        /\ \A e \in plan.evidence : e.owner \in plan.versions \cup plan.observations \cup plan.reinforcements
PlansCurrent == \A plan \in plans : plan.at <= seq /\ (plan.at = seq => PlanExact(plan))

DeletedGone ==
    \A d \in deletions :
        /\ d.selector \in Selectors /\ d.proof \subseteq Scopes
        /\ d.versions \subseteq 1..seq /\ d.versions \cap Existing = {}

LedgerInv ==
    /\ LedgerConsistent
    /\ LivesKept /\ RowsApart /\ OwnersKnown /\ PlansCurrent /\ DeletedGone

-----------------------------------------------------------------------------
(* The log.                                                                *)

LEMMA KeysAreIds ==
    ASSUME LedgerTypeOK, seq < MaxSeq, NEW op, NEW k \in Keys(op)
    PROVE  k \in Ids
<1>1. CASE k = seq + 1
  BY <1>1, LedgerAssumption DEF LedgerTypeOK, Ids
<1>2. CASE \E n \in {seq} \cap DOMAIN log : k = log[n].key
  <2>1. PICK n \in DOMAIN log : k = log[n].key
    BY <1>2
  <2>2. log[n] \in Mutations
    BY DEF LedgerTypeOK
  <2> QED
    BY <2>1, <2>2 DEF Mutations
<1> QED
  BY <1>1, <1>2 DEF Keys

(* What one mutation does to the log.                                      *)
Logged(op, in, out, key) ==
    /\ seq \in Nat /\ seq' = seq + 1 /\ seq' \in 0..MaxSeq /\ seq + 1 \in Ids /\ MaxSeq \in Nat
    /\ DOMAIN log = 1..seq /\ DOMAIN log' = 1..(seq + 1)
    /\ log' \in Seq(Mutations) /\ Len(log') = seq'
    /\ \A n \in 1..seq : log'[n] = log[n]
    /\ log'[seq + 1].op = op /\ log'[seq + 1].key = key
    /\ log'[seq + 1].in = in /\ log'[seq + 1].out = out

LEMMA LogGrows ==
    ASSUME LedgerTypeOK, seq < MaxSeq, NEW op \in Operations, NEW a \in Assertions \cup {None},
           NEW in \in SUBSET Ids, NEW out \in SUBSET Ids, NEW key \in Ids,
           AppendMutation(op, a, in, out, key)
    PROVE  Logged(op, in, out, key)
<1> DEFINE m == [op |-> op, assertion |-> a, in |-> in, out |-> out, key |-> key]
<1>1. m \in Mutations
  BY DEF Mutations
<1>2. m.op = op /\ m.key = key /\ m.in = in /\ m.out = out
  OBVIOUS
<1>3. log' = Append(log, m) /\ seq' = seq + 1
  BY DEF AppendMutation
<1> HIDE DEF m
<1>4. seq \in Nat /\ MaxSeq \in Nat /\ seq <= MaxSeq /\ log \in Seq(Mutations) /\ Len(log) = seq
  BY LedgerAssumption DEF LedgerTypeOK
<1>5. /\ DOMAIN log = 1..seq /\ log' \in Seq(Mutations) /\ Len(log') = seq + 1
      /\ DOMAIN log' = 1..(seq + 1) /\ log'[seq + 1] = m
      /\ \A n \in 1..seq : log'[n] = log[n]
  BY <1>1, <1>3, <1>4
<1> QED
  BY <1>2, <1>3, <1>4, <1>5 DEF Ids, Logged

LEMMA OnePerKeyKept ==
    ASSUME OneMutationPerKey, NEW op, NEW in, NEW out, NEW key,
           ~Recorded(op, key), Logged(op, in, out, key)
    PROVE  OneMutationPerKey'
<1>1. /\ DOMAIN log = 1..seq /\ DOMAIN log' = 1..(seq + 1) /\ seq \in Nat
      /\ \A n \in 1..seq : log'[n] = log[n]
      /\ log'[seq + 1].op = op /\ log'[seq + 1].key = key
  BY DEF Logged
<1>2. \A n \in 1..seq : ~ (log'[n].op = op /\ log'[n].key = key)
  BY <1>1 DEF Recorded
<1>3. \A m, n \in 1..seq : log'[m].op = log'[n].op /\ log'[m].key = log'[n].key => m = n
  BY <1>1 DEF OneMutationPerKey
<1>4. SUFFICES ASSUME NEW m \in 1..(seq + 1), NEW n \in 1..(seq + 1),
                      log'[m].op = log'[n].op /\ log'[m].key = log'[n].key
               PROVE  m = n
  BY <1>1 DEF OneMutationPerKey
<1>5. CASE m = seq + 1 /\ n # seq + 1
  BY <1>1, <1>2, <1>4, <1>5
<1>6. CASE n = seq + 1 /\ m # seq + 1
  BY <1>1, <1>2, <1>4, <1>6
<1>7. CASE m # seq + 1 /\ n # seq + 1
  BY <1>1, <1>3, <1>4, <1>7
<1> QED
  BY <1>5, <1>6, <1>7

-----------------------------------------------------------------------------
(* Lifecycles.                                                             *)

LastState(h, v) == h[v][Len(h[v])].state

Lives(h, n) == \A v \in DOMAIN h : v \in 1..n /\ h[v] \in Seq(Transitions) /\ Len(h[v]) > 0

(* Histories grow at their end only, at the new sequence.                  *)
Extends(g, h) ==
    /\ DOMAIN h \subseteq DOMAIN g
    /\ \A v \in DOMAIN h :
           /\ Len(g[v]) >= Len(h[v])
           /\ \A i \in 1..Len(h[v]) : g[v][i] = h[v][i]
           /\ \A i \in (Len(h[v]) + 1)..Len(g[v]) : g[v][i].at = seq + 1

(* What a move does to the histories of vs.                                *)
IsMoved(g, h, vs, state) ==
    /\ DOMAIN g = DOMAIN h \cup vs
    /\ Lives(g, seq + 1)
    /\ \A v \in vs : LastState(g, v) = state
    /\ \A v \in DOMAIN h \ vs : g[v] = h[v]
    /\ \A v \in vs \ DOMAIN h : Len(g[v]) = 1 /\ g[v][1].state = state
    /\ \A v \in vs \cap DOMAIN h :
           /\ Len(g[v]) = Len(h[v]) + 1
           /\ \A i \in 1..Len(h[v]) : g[v][i] = h[v][i]
           /\ g[v][Len(h[v]) + 1].state = state
    /\ Extends(g, h)

LEMMA MovedFacts ==
    ASSUME seq \in Nat, seq + 1 \in Ids, NEW h, Lives(h, seq + 1), NEW vs, vs \subseteq 1..(seq + 1),
           NEW state \in States
    PROVE  IsMoved(Moved(h, vs, state), h, vs, state)
<1> DEFINE e == [at |-> seq + 1, state |-> state]
           g == Moved(h, vs, state)
<1>1. e \in Transitions /\ e.state = state /\ e.at = seq + 1
  BY DEF Transitions
<1>2. /\ DOMAIN g = DOMAIN h \cup vs
      /\ \A v \in DOMAIN h \ vs : g[v] = h[v]
      /\ \A v \in vs \cap DOMAIN h : g[v] = Append(h[v], e)
      /\ \A v \in vs \ DOMAIN h : g[v] = <<e>>
  BY DEF Moved
<1> HIDE DEF g, e
<1>3. \A v \in vs \cap DOMAIN h :
         /\ g[v] \in Seq(Transitions) /\ Len(g[v]) = Len(h[v]) + 1 /\ Len(h[v]) \in Nat
         /\ g[v][Len(h[v]) + 1] = e
         /\ \A i \in 1..Len(h[v]) : g[v][i] = h[v][i]
  <2>1. SUFFICES ASSUME NEW v \in vs \cap DOMAIN h
                 PROVE  /\ g[v] \in Seq(Transitions) /\ Len(g[v]) = Len(h[v]) + 1 /\ Len(h[v]) \in Nat
                        /\ g[v][Len(h[v]) + 1] = e
                        /\ \A i \in 1..Len(h[v]) : g[v][i] = h[v][i]
    OBVIOUS
  <2>2. g[v] = Append(h[v], e) /\ h[v] \in Seq(Transitions)
    BY <1>2 DEF Lives
  <2> QED
    BY <2>2, <1>1
<1>4. \A v \in vs \ DOMAIN h : g[v] \in Seq(Transitions) /\ Len(g[v]) = 1 /\ g[v][1] = e
  <2>1. Len(<<e>>) = 1 /\ <<e>>[1] = e
    OBVIOUS
  <2>2. <<e>> \in Seq(Transitions)
    BY <1>1
  <2> QED
    BY <2>1, <2>2, <1>2
<1>5. \A v \in DOMAIN h : h[v] \in Seq(Transitions) /\ Len(h[v]) > 0 /\ Len(h[v]) \in Nat
  BY DEF Lives
<1>6. Lives(g, seq + 1)
  <2>1. SUFFICES ASSUME NEW v \in DOMAIN h \cup vs
                 PROVE  v \in 1..(seq + 1) /\ g[v] \in Seq(Transitions) /\ Len(g[v]) > 0
    BY <1>2 DEF Lives
  <2>2. v \in 1..(seq + 1)
    BY DEF Lives
  <2>3. CASE v \in DOMAIN h \ vs
    BY <2>2, <2>3, <1>2, <1>5
  <2>4. CASE v \in DOMAIN h \cap vs
    BY <2>2, <2>4, <1>3, <1>5
  <2>5. CASE v \in vs \ DOMAIN h
    BY <2>2, <2>5, <1>4
  <2> QED
    BY <2>3, <2>4, <2>5
<1>7. \A v \in vs : LastState(g, v) = state
  <2>1. SUFFICES ASSUME NEW v \in vs PROVE g[v][Len(g[v])].state = state
    BY DEF LastState
  <2>2. CASE v \in DOMAIN h
    BY <2>2, <1>1, <1>3
  <2>3. CASE v \notin DOMAIN h
    BY <2>3, <1>1, <1>4
  <2> QED
    BY <2>2, <2>3
<1>8. Extends(g, h)
  <2>1. SUFFICES ASSUME NEW v \in DOMAIN h
                 PROVE  /\ Len(g[v]) >= Len(h[v])
                        /\ \A i \in 1..Len(h[v]) : g[v][i] = h[v][i]
                        /\ \A i \in (Len(h[v]) + 1)..Len(g[v]) : g[v][i].at = seq + 1
    BY <1>2 DEF Extends
  <2>2. CASE v \in vs
    BY <2>2, <1>1, <1>3
  <2>3. CASE v \notin vs
    BY <2>3, <1>2, <1>5
  <2> QED
    BY <2>2, <2>3
<1>9. IsMoved(g, h, vs, state)
  BY <1>1, <1>2, <1>3, <1>4, <1>6, <1>7, <1>8 DEF IsMoved
<1> QED
  BY <1>9 DEF g

(* A history that never was active.                                        *)
Never(h, v) == \A i \in DOMAIN h[v] : h[v][i].state # "Active"

LEMMA NeverKept ==
    ASSUME NEW g, NEW h, NEW vs, NEW state \in States, NEW n \in Nat, Lives(h, n), IsMoved(g, h, vs, state),
           NEW v \in DOMAIN h \cup vs,
           v \in DOMAIN h => Never(h, v),
           v \in vs => state # "Active"
    PROVE  Never(g, v)
<1>1. /\ v \in DOMAIN h \ vs => g[v] = h[v]
      /\ v \in vs \ DOMAIN h => Len(g[v]) = 1 /\ g[v][1].state = state
      /\ v \in vs \cap DOMAIN h =>
            /\ Len(g[v]) = Len(h[v]) + 1
            /\ \A i \in 1..Len(h[v]) : g[v][i] = h[v][i]
            /\ g[v][Len(h[v]) + 1].state = state
      /\ Lives(g, seq + 1) /\ DOMAIN g = DOMAIN h \cup vs
  BY DEF IsMoved
<1>2. g[v] \in Seq(Transitions) /\ (v \in DOMAIN h => h[v] \in Seq(Transitions))
  BY <1>1 DEF Lives
<1>3. DOMAIN g[v] = 1..Len(g[v]) /\ (v \in DOMAIN h => DOMAIN h[v] = 1..Len(h[v]) /\ Len(h[v]) \in Nat)
  BY <1>2
<1>4. SUFFICES ASSUME NEW i \in 1..Len(g[v]) PROVE g[v][i].state # "Active"
  BY <1>3 DEF Never
<1>5. CASE v \in DOMAIN h \ vs
  BY <1>1, <1>3, <1>5 DEF Never
<1>6. CASE v \in vs \ DOMAIN h
  <2>1. Len(g[v]) = 1 /\ g[v][1].state = state /\ state # "Active"
    BY <1>1, <1>6
  <2>2. i = 1
    BY <2>1
  <2> QED
    BY <2>1, <2>2
<1>7. CASE v \in vs \cap DOMAIN h
  <2>1. CASE i = Len(h[v]) + 1
    BY <2>1, <1>1, <1>7
  <2>2. CASE i # Len(h[v]) + 1
    <3>1. i \in 1..Len(h[v])
      BY <2>2, <1>1, <1>3, <1>7
    <3>2. g[v][i] = h[v][i] /\ h[v][i].state # "Active"
      BY <3>1, <1>1, <1>3, <1>7 DEF Never
    <3> QED
      BY <3>2
  <2> QED
    BY <2>1, <2>2
<1> QED
  BY <1>5, <1>6, <1>7

(* What an activation does to the histories.                               *)
Activated(g, v, hs) ==
    /\ DOMAIN g = DOMAIN life \cup {v} /\ Lives(g, seq + 1)
    /\ LastState(g, v) = "Active"
    /\ \A w \in hs : LastState(g, w) = "Superseded"
    /\ \A w \in DOMAIN life \ (hs \cup {v}) : g[w] = life[w]
    /\ \A w \in DOMAIN life \ {v} : Never(life, w) => Never(g, w)
    /\ Extends(g, life)

LEMMA ActivateLife ==
    ASSUME seq \in Nat, seq + 1 \in Ids, Lives(life, seq), NEW v \in 1..(seq + 1), NEW a,
           HeadsOf(a) \subseteq DOMAIN life, v \notin HeadsOf(a), Activate(v, a)
    PROVE  Activated(life', v, HeadsOf(a))
<1> DEFINE hs == HeadsOf(a)
           g == Moved(life, {v}, "Active")
<1>1. Lives(life, seq + 1) /\ {v} \subseteq 1..(seq + 1) /\ "Active" \in States /\ "Superseded" \in States
  BY DEF Lives, States
<1>2. /\ DOMAIN g = DOMAIN life \cup {v} /\ Lives(g, seq + 1) /\ LastState(g, v) = "Active"
      /\ \A w \in DOMAIN life \ {v} : g[w] = life[w]
      /\ Extends(g, life)
  <2>1. IsMoved(g, life, {v}, "Active")
    BY <1>1, MovedFacts
  <2> QED
    BY <2>1 DEF IsMoved
<1>3. life' = Moved(g, hs, "Superseded")
  BY DEF Activate
<1>4. hs \subseteq 1..(seq + 1)
  BY DEF Lives
<1>5. v \notin hs /\ hs \subseteq DOMAIN life
  OBVIOUS
<1> HIDE DEF g, hs
<1>6. /\ DOMAIN life' = DOMAIN g \cup hs /\ Lives(life', seq + 1)
      /\ \A w \in hs : LastState(life', w) = "Superseded"
      /\ \A w \in DOMAIN g \ hs : life'[w] = g[w]
      /\ Extends(life', g)
  <2>1. IsMoved(life', g, hs, "Superseded")
    BY <1>1, <1>2, <1>3, <1>4, MovedFacts
  <2> QED
    BY <2>1 DEF IsMoved
<1>7. DOMAIN life' = DOMAIN life \cup {v}
  BY <1>2, <1>5, <1>6
<1>8. LastState(life', v) = "Active"
  BY <1>2, <1>5, <1>6 DEF LastState
<1>9. \A w \in DOMAIN life \ (hs \cup {v}) : life'[w] = life[w]
  BY <1>2, <1>6
<1>10. ASSUME NEW w \in DOMAIN life \ {v}, Never(life, w) PROVE Never(life', w)
  <2>1. Never(g, w)
    BY <1>2, <1>10 DEF Never
  <2>2. w \in DOMAIN g \cup hs
    BY <1>2
  <2>3. IsMoved(life', g, hs, "Superseded")
    BY <1>1, <1>2, <1>3, <1>4, MovedFacts
  <2> QED
    BY <2>1, <2>2, <2>3, <1>1, <1>2, NeverKept
<1>11. Extends(life', life)
  <2>1. SUFFICES ASSUME NEW w \in DOMAIN life
                 PROVE  /\ Len(life'[w]) >= Len(life[w])
                        /\ \A i \in 1..Len(life[w]) : life'[w][i] = life[w][i]
                        /\ \A i \in (Len(life[w]) + 1)..Len(life'[w]) : life'[w][i].at = seq + 1
    BY <1>7 DEF Extends
  <2>2. CASE w \in hs
    <3>1. w # v /\ g[w] = life[w] /\ w \in DOMAIN g
      BY <2>2, <1>2, <1>5
    <3> QED
      BY <3>1, <1>6 DEF Extends
  <2>3. CASE w \notin hs
    <3>1. w \in DOMAIN g /\ life'[w] = g[w]
      BY <2>3, <1>2, <1>6
    <3> QED
      BY <3>1, <1>2 DEF Extends
  <2> QED
    BY <2>2, <2>3
<1> QED
  BY <1>6, <1>7, <1>8, <1>9, <1>10, <1>11 DEF hs, Activated

LEMMA LivesFact ==
    ASSUME LedgerTypeOK, LivesKept
    PROVE  Lives(life, seq) /\ seq \in Nat /\ Existing \subseteq DOMAIN life /\ Existing \subseteq 1..seq
BY LedgerAssumption DEF LedgerTypeOK, LivesKept, Lives, IsRows, Existing

-----------------------------------------------------------------------------
(* Heads.                                                                  *)

AgreeHeads(hs, as, vs, h) ==
    /\ DOMAIN hs = as
    /\ \A v \in DOMAIN vs : vs[v].draft.assertion \in as
    /\ \A a \in as : \A v : v \in hs[a] <=>
           v \in DOMAIN vs /\ vs[v].draft.assertion = a /\ LastState(h, v) = "Active"

LEMMA HeadsAgreeIff == HeadsAgree <=> AgreeHeads(heads, assertions, versions, life)
BY DEF HeadsAgree, AgreeHeads, Existing, AssertionOf, Current, LastState

LEMMA HeadsAgreeIffNext == HeadsAgree' <=> AgreeHeads(heads', assertions', versions', life')
BY DEF HeadsAgree, AgreeHeads, Existing, AssertionOf, Current, LastState

LEMMA HeadsOfFacts ==
    ASSUME HeadsAgree, NEW a
    PROVE  \A v : v \in HeadsOf(a) <=>
               v \in Existing /\ AssertionOf(v) = a /\ Current(v) = "Active"
BY DEF HeadsAgree, HeadsOf

LEMMA ActivateHeads ==
    ASSUME HeadsAgree, LedgerTypeOK, LivesKept, seq + 1 \in Ids,
           NEW v \in 1..(seq + 1), NEW a, v \notin HeadsOf(a), Activate(v, a),
           DOMAIN versions' = Existing \cup {v}, \A w \in Existing : versions'[w] = versions[w],
           versions'[v].draft.assertion = a, assertions' = assertions \cup {a}
    PROVE  HeadsAgree'
<1>1. Lives(life, seq) /\ seq \in Nat /\ Existing \subseteq DOMAIN life
  BY LivesFact
<1>2. \A w : w \in HeadsOf(a) <=> w \in Existing /\ AssertionOf(w) = a /\ Current(w) = "Active"
  BY HeadsOfFacts
<1>3. /\ LastState(life', v) = "Active"
      /\ \A w \in HeadsOf(a) : LastState(life', w) = "Superseded"
      /\ \A w \in DOMAIN life \ (HeadsOf(a) \cup {v}) : life'[w] = life[w]
  <2>1. HeadsOf(a) \subseteq DOMAIN life
    BY <1>1, <1>2
  <2>2. Activated(life', v, HeadsOf(a))
    BY <1>1, <2>1, ActivateLife
  <2> QED
    BY <2>2 DEF Activated
<1>4. DOMAIN heads' = DOMAIN heads \cup {a} /\ heads'[a] = {v} /\ \A b \in DOMAIN heads \ {a} : heads'[b] = heads[b]
  BY DEF Activate, WithHead
<1>5. AgreeHeads(heads, assertions, versions, life)
  BY HeadsAgreeIff
<1>6. DOMAIN heads' = assertions'
  BY <1>4, <1>5 DEF AgreeHeads
<1>7. \A w \in DOMAIN versions' : versions'[w].draft.assertion \in assertions'
  BY <1>5 DEF AgreeHeads, Existing
<1>8. ASSUME NEW b \in assertions', NEW w
      PROVE  w \in heads'[b] <=>
                w \in DOMAIN versions' /\ versions'[w].draft.assertion = b /\ LastState(life', w) = "Active"
  <2>1. CASE b = a
    <3>1. CASE w = v
      BY <2>1, <3>1, <1>3, <1>4
    <3>2. CASE w \in Existing \ {v}
      <4>1. CASE w \in HeadsOf(a)
        <5>1. LastState(life', w) # "Active"
          BY <4>1, <1>3
        <5> QED
          BY <5>1, <2>1, <3>2, <1>4
      <4>2. CASE w \notin HeadsOf(a)
        <5>1. ~ (AssertionOf(w) = a /\ Current(w) = "Active")
          BY <4>2, <3>2, <1>2
        <5>2. life'[w] = life[w] /\ versions'[w] = versions[w]
          BY <4>2, <3>2, <1>1, <1>3
        <5>3. ~ (versions'[w].draft.assertion = a /\ LastState(life', w) = "Active")
          BY <5>1, <5>2 DEF AssertionOf, Current, LastState
        <5> QED
          BY <5>3, <2>1, <3>2, <1>4
      <4> QED
        BY <4>1, <4>2
    <3>3. CASE w \notin Existing \cup {v}
      BY <2>1, <3>3, <1>4
    <3> QED
      BY <3>1, <3>2, <3>3
  <2>2. CASE b # a
    <3>1. b \in assertions /\ heads'[b] = heads[b]
      BY <2>2, <1>4, <1>5 DEF AgreeHeads
    <3>2. w \in heads[b] <=> w \in DOMAIN versions /\ versions[w].draft.assertion = b /\ LastState(life, w) = "Active"
      BY <3>1, <1>5 DEF AgreeHeads
    <3>3. CASE w = v
      <4>1. versions'[w].draft.assertion # b
        BY <3>3, <2>2
      <4>2. w \notin heads[b]
        BY <4>1, <3>2, <3>3 DEF Existing
      <4> QED
        BY <4>1, <4>2, <3>1
    <3>4. CASE w \in Existing \ {v} /\ AssertionOf(w) = b
      <4>1. w \notin HeadsOf(a)
        BY <1>2, <2>2, <3>4
      <4>2. life'[w] = life[w] /\ versions'[w] = versions[w]
        BY <4>1, <3>4, <1>1, <1>3
      <4> QED
        BY <4>2, <3>1, <3>2, <3>4 DEF Existing, LastState
    <3>5. CASE w \in Existing \ {v} /\ AssertionOf(w) # b
      <4>1. versions'[w] = versions[w]
        BY <3>5
      <4> QED
        BY <4>1, <3>1, <3>2, <3>5 DEF AssertionOf
    <3>6. CASE w \notin Existing \cup {v}
      BY <3>1, <3>2, <3>6 DEF Existing
    <3> QED
      BY <3>3, <3>4, <3>5, <3>6
  <2> QED
    BY <2>1, <2>2
<1> QED
  BY <1>6, <1>7, <1>8, HeadsAgreeIffNext DEF AgreeHeads

(* The rows stay, no version but those of vs moves, none becomes active,   *)
(* and the head of a loses exactly those.                                  *)
HeadLoses(a, vs) ==
    /\ DOMAIN heads' = DOMAIN heads \cup {a} /\ heads'[a] = HeadsOf(a) \ vs
    /\ \A b \in DOMAIN heads \ {a} : heads'[b] = heads[b]
    /\ assertions' = assertions \cup {a}
    /\ Existing \subseteq DOMAIN versions' /\ \A w \in Existing : versions'[w] = versions[w]
    /\ \A w \in DOMAIN versions' \ Existing : w \in vs /\ versions'[w].draft.assertion = a
    /\ \A w \in vs : LastState(life', w) # "Active"
    /\ \A w \in vs \cap Existing : AssertionOf(w) = a
    /\ \A w \in Existing \ vs : life'[w] = life[w]

LEMMA DeactivateHeads ==
    ASSUME HeadsAgree, NEW a, NEW vs, HeadLoses(a, vs)
    PROVE  HeadsAgree'
<1> USE DEF HeadLoses
<1>1. \A w : w \in HeadsOf(a) <=> w \in Existing /\ AssertionOf(w) = a /\ Current(w) = "Active"
  BY HeadsOfFacts
<1>2. AgreeHeads(heads, assertions, versions, life)
  BY HeadsAgreeIff
<1>3. DOMAIN heads' = assertions'
  BY <1>2 DEF AgreeHeads
<1>4. \A w \in DOMAIN versions' : versions'[w].draft.assertion \in assertions'
  BY <1>2 DEF AgreeHeads, Existing
<1>5. ASSUME NEW b \in assertions', NEW w
      PROVE  w \in heads'[b] <=>
                w \in DOMAIN versions' /\ versions'[w].draft.assertion = b /\ LastState(life', w) = "Active"
  <2>1. w \in heads'[b] <=> w \in Existing \ vs /\ AssertionOf(w) = b /\ Current(w) = "Active"
    <3>1. CASE b = a
      BY <3>1, <1>1
    <3>2. CASE b # a
      <4>1. b \in assertions /\ heads'[b] = heads[b]
        BY <3>2, <1>2 DEF AgreeHeads
      <4>2. w \in heads[b] <=> w \in Existing /\ AssertionOf(w) = b /\ Current(w) = "Active"
        BY <4>1, <1>2 DEF AgreeHeads, Existing, AssertionOf, Current, LastState
      <4> QED
        BY <4>1, <4>2, <3>2
    <3> QED
      BY <3>1, <3>2
  <2>2. CASE w \in vs
    BY <2>1, <2>2
  <2>3. CASE w \in Existing \ vs
    <3>1. life'[w] = life[w] /\ versions'[w] = versions[w] /\ w \in DOMAIN versions'
      BY <2>3
    <3> QED
      BY <3>1, <2>1, <2>3 DEF AssertionOf, Current, LastState
  <2>4. CASE w \notin Existing \cup vs
    BY <2>1, <2>4
  <2> QED
    BY <2>2, <2>3, <2>4
<1> QED
  BY <1>3, <1>4, <1>5, HeadsAgreeIffNext DEF AgreeHeads

-----------------------------------------------------------------------------
(* A mutation that adds one row, with evidence from sources S, in a scope. *)

RowAdded(S, scope) ==
    /\ S \subseteq Sources /\ Importable(scope, S)
    /\ evidence' = evidence \cup [owner : {seq + 1}, source : S]
    /\ Existing \subseteq DOMAIN versions' /\ DOMAIN versions' \subseteq Existing \cup {seq + 1}
    /\ \A v \in Existing : versions'[v] = versions[v]
    /\ seq + 1 \in DOMAIN versions' =>
           /\ versions'[seq + 1].draft.sources = S /\ versions'[seq + 1].draft.scope = scope
           /\ versions'[seq + 1].inputs \subseteq Existing
           /\ UNCHANGED <<observations, reinforcements>>
    /\ DOMAIN observations \subseteq DOMAIN observations' /\ DOMAIN observations' \subseteq DOMAIN observations \cup {seq + 1}
    /\ \A o \in DOMAIN observations : observations'[o] = observations[o]
    /\ seq + 1 \in DOMAIN observations' =>
           /\ S = {observations'[seq + 1].source} /\ observations'[seq + 1].scope = scope
           /\ UNCHANGED <<versions, reinforcements>>
    /\ DOMAIN reinforcements \subseteq DOMAIN reinforcements'
    /\ DOMAIN reinforcements' \subseteq DOMAIN reinforcements \cup {seq + 1}
    /\ \A r \in DOMAIN reinforcements : reinforcements'[r] = reinforcements[r]
    /\ seq + 1 \in DOMAIN reinforcements' =>
           /\ S = {reinforcements'[seq + 1].source}
           /\ reinforcements'[seq + 1].version \in Existing
           /\ UNCHANGED <<versions, observations>>
    /\ UNCHANGED deletions

KnownRows ==
    /\ seq \in Nat /\ Existing \subseteq 1..seq /\ DOMAIN observations \subseteq 1..seq
    /\ DOMAIN reinforcements \subseteq 1..seq

LEMMA KnownRowsFact == LedgerTypeOK => KnownRows
BY LedgerAssumption DEF LedgerTypeOK, KnownRows, IsRows, Existing

LEMMA RowAddedApart ==
    ASSUME KnownRows, RowsApart, OwnersKnown, DeletedGone, NEW S, NEW scope, RowAdded(S, scope), seq' = seq + 1
    PROVE  RowsApart' /\ OwnersKnown' /\ DeletedGone'
<1>1. RowsApart'
  BY DEF KnownRows, RowsApart, RowAdded, Existing
<1>2. OwnersKnown'
  <2>1. SUFFICES ASSUME NEW e \in evidence' PROVE e.owner \in 1..(seq + 1)
    BY DEF OwnersKnown
  <2>2. CASE e \in evidence
    BY <2>2 DEF OwnersKnown, KnownRows
  <2>3. CASE e \in [owner : {seq + 1}, source : S]
    BY <2>3 DEF KnownRows
  <2> QED
    BY <2>2, <2>3 DEF RowAdded
<1>3. DeletedGone'
  <2>1. SUFFICES ASSUME NEW d \in deletions
                 PROVE  d.versions \subseteq 1..(seq + 1) /\ d.versions \cap DOMAIN versions' = {}
                        /\ d.selector \in Selectors /\ d.proof \subseteq Scopes
    BY DEF DeletedGone, RowAdded, Existing
  <2>2. d.versions \subseteq 1..seq /\ d.versions \cap Existing = {}
        /\ d.selector \in Selectors /\ d.proof \subseteq Scopes
    BY DEF DeletedGone
  <2>3. seq \in Nat /\ DOMAIN versions' \subseteq Existing \cup {seq + 1}
    BY DEF KnownRows, RowAdded
  <2> QED
    BY <2>2, <2>3
<1> QED
  BY <1>1, <1>2, <1>3

LEMMA RowAddedViews ==
    ASSUME KnownRows, RowsApart, OwnersKnown, ViewsComplete, evidence \subseteq EvidenceRecords,
           NEW S, NEW scope, RowAdded(S, scope)
    PROVE  ViewsComplete'
<1> DEFINE new == [owner : {seq + 1}, source : S]
           Of(E, n) == {e \in E : e.owner = n}
<1>1. \A n \in 1..seq : Of(evidence', n) = Of(evidence, n)
  <2>1. \A e \in new : e.owner = seq + 1
    OBVIOUS
  <2> QED
    BY <2>1 DEF RowAdded, KnownRows
<1>2. Of(evidence', seq + 1) = new
  <2>1. \A e \in evidence : e.owner # seq + 1
    BY DEF OwnersKnown, KnownRows
  <2>2. \A e \in new : e.owner = seq + 1
    OBVIOUS
  <2>3. evidence' = evidence \cup new
    BY DEF RowAdded
  <2> HIDE DEF new
  <2> QED
    BY <2>1, <2>2, <2>3
<1>3. /\ \A v \in Existing : Of(evidence, v) = [owner : {v}, source : versions[v].draft.sources]
      /\ \A r \in DOMAIN reinforcements :
            /\ reinforcements[r].version \in Existing
            /\ Of(evidence, r) = [owner : {r}, source : {reinforcements[r].source}]
  BY DEF ViewsComplete, EvidenceOf
<1> HIDE DEF Of
<1>4. ASSUME NEW v \in DOMAIN versions'
      PROVE  Of(evidence', v) = [owner : {v}, source : versions'[v].draft.sources]
  <2>1. CASE v \in Existing
    BY <2>1, <1>1, <1>3 DEF RowAdded, KnownRows
  <2>2. CASE v \notin Existing
    BY <2>2, <1>2 DEF RowAdded
  <2> QED
    BY <2>1, <2>2
<1>5. ASSUME NEW r \in DOMAIN reinforcements'
      PROVE  /\ reinforcements'[r].version \in DOMAIN versions'
             /\ Of(evidence', r) = [owner : {r}, source : {reinforcements'[r].source}]
  <2>1. CASE r \in DOMAIN reinforcements
    BY <2>1, <1>1, <1>3 DEF RowAdded, KnownRows
  <2>2. CASE r \notin DOMAIN reinforcements
    BY <2>2, <1>2 DEF RowAdded
  <2> QED
    BY <2>1, <2>2
<1> QED
  BY <1>4, <1>5 DEF ViewsComplete, EvidenceOf, Of, Existing

(* Tombstones keep what a deletion selected from coming back.              *)
LEMMA NotTombstoned ==
    ASSUME DeletedGone, NEW d \in deletions, NEW S, NEW scope, Importable(scope, S)
    PROVE  /\ d.selector.kind = "Source" => d.selector.id \notin S
           /\ d.selector.kind = "DataSubject" => d.selector.id # SubjectOf[scope]
           /\ ~Matches(d.selector, scope, S)
<1>1. d.selector \in Selectors
  BY DEF DeletedGone
<1>2. CASE d.selector \in [kind : {"Source"}, id : Sources]
  <2>1. d.selector = [kind |-> "Source", id |-> d.selector.id] /\ d.selector.kind = "Source"
    BY <1>2
  <2>2. d.selector.id \notin S
    BY <2>1 DEF Importable, Tombstoned
  <2> QED
    BY <2>1, <2>2 DEF Matches
<1>3. CASE d.selector \in [kind : {"DataSubject"}, id : Subjects]
  <2>1. d.selector = [kind |-> "DataSubject", id |-> d.selector.id] /\ d.selector.kind = "DataSubject"
    BY <1>3
  <2>2. d.selector.id # None
    BY <1>3 DEF Subjects
  <2>3. d.selector.id # SubjectOf[scope]
    BY <2>1, <2>2 DEF Importable, Tombstoned
  <2> QED
    BY <2>1, <2>3 DEF Matches
<1> QED
  BY <1>1, <1>2, <1>3 DEF Selectors

(* DirectlyAffected over given rows.                                       *)
Direct(sel, v, vs, ev, rs) ==
    \/ /\ sel.kind = "Source"
       /\ \E e \in ev : /\ e.source = sel.id
                        /\ e.owner = v \/ (e.owner \in DOMAIN rs /\ rs[e.owner].version = v)
    \/ sel.kind = "DataSubject" /\ sel.id = SubjectOf[vs[v].draft.scope]

LEMMA DirectIff ==
    ASSUME NEW sel, NEW v
    PROVE  /\ DirectlyAffected(sel, v) <=> Direct(sel, v, versions, evidence, reinforcements)
           /\ DirectlyAffected(sel, v)' <=> Direct(sel, v, versions', evidence', reinforcements')
BY DEF Direct, DirectlyAffected, EvidenceOf, ReinforcedBy, FromSource, Matches, ScopeOf

(* DeletionFinal for one deletion over given rows.                         *)
Final(d, vs, ev, rs, os) ==
    /\ \A v \in DOMAIN vs : vs[v].draft.scope \in d.proof =>
           ~Direct(d.selector, v, vs, ev, rs) /\ vs[v].inputs \cap d.versions = {}
    /\ \A o \in DOMAIN os : os[o].scope \in d.proof => ~Matches(d.selector, os[o].scope, {os[o].source})

LEMMA FinalIff ==
    /\ DeletionFinal <=> \A d \in deletions : Final(d, versions, evidence, reinforcements, observations)
    /\ DeletionFinal' <=> \A d \in deletions' : Final(d, versions', evidence', reinforcements', observations')
<1>1. ASSUME NEW d \in deletions
      PROVE  (/\ \A v \in Existing : ScopeOf(v) \in d.proof => ~DirectlyAffected(d.selector, v)
              /\ AffectedObservations(d.selector, d.proof) = {}
              /\ \A v \in Existing : ScopeOf(v) \in d.proof => versions[v].inputs \cap d.versions = {})
             <=> Final(d, versions, evidence, reinforcements, observations)
  <2>1. AffectedObservations(d.selector, d.proof) = {} <=>
        \A o \in DOMAIN observations : observations[o].scope \in d.proof =>
            ~Matches(d.selector, observations[o].scope, {observations[o].source})
    BY DEF AffectedObservations
  <2>2. \A v : DirectlyAffected(d.selector, v) <=> Direct(d.selector, v, versions, evidence, reinforcements)
    BY DirectIff
  <2> QED
    BY <2>1, <2>2 DEF Final, Existing, ScopeOf
<1>2. ASSUME NEW d \in deletions'
      PROVE  (/\ \A v \in Existing' : ScopeOf(v)' \in d.proof => ~DirectlyAffected(d.selector, v)'
              /\ AffectedObservations(d.selector, d.proof)' = {}
              /\ \A v \in Existing' : ScopeOf(v)' \in d.proof => versions'[v].inputs \cap d.versions = {})
             <=> Final(d, versions', evidence', reinforcements', observations')
  <2>1. AffectedObservations(d.selector, d.proof)' = {} <=>
        \A o \in DOMAIN observations' : observations'[o].scope \in d.proof =>
            ~Matches(d.selector, observations'[o].scope, {observations'[o].source})
    BY DEF AffectedObservations, Matches
  <2>2. \A v : DirectlyAffected(d.selector, v)' <=> Direct(d.selector, v, versions', evidence', reinforcements')
    BY DirectIff
  <2> QED
    BY <2>1, <2>2 DEF Final, Existing, ScopeOf
<1> QED
  BY <1>1, <1>2 DEF DeletionFinal

LEMMA RowAddedFinal ==
    ASSUME KnownRows, OwnersKnown, ViewsComplete, DeletedGone, DeletionFinal,
           NEW S, NEW scope, RowAdded(S, scope)
    PROVE  DeletionFinal'
<1>1. SUFFICES ASSUME NEW d \in deletions
               PROVE  Final(d, versions', evidence', reinforcements', observations')
  BY FinalIff DEF RowAdded
<1>2. Final(d, versions, evidence, reinforcements, observations)
  BY FinalIff
<1>3. /\ d.selector.kind = "Source" => d.selector.id \notin S
      /\ d.selector.kind = "DataSubject" => d.selector.id # SubjectOf[scope]
      /\ ~Matches(d.selector, scope, S)
  BY NotTombstoned DEF RowAdded
<1>4. ASSUME NEW v \in DOMAIN versions', versions'[v].draft.scope \in d.proof,
             Direct(d.selector, v, versions', evidence', reinforcements')
      PROVE  FALSE
  <2>1. v \in Existing => ~Direct(d.selector, v, versions, evidence, reinforcements) /\ versions'[v] = versions[v]
    <3>1. v \in Existing => versions'[v] = versions[v]
      BY DEF RowAdded
    <3> QED
      BY <3>1, <1>2, <1>4 DEF Final, Existing
  <2>2. v \notin Existing => v = seq + 1 /\ versions'[v].draft.scope = scope
    BY DEF RowAdded
  <2>3. CASE d.selector.kind = "DataSubject" /\ d.selector.id = SubjectOf[versions'[v].draft.scope]
    BY <2>1, <2>2, <2>3, <1>3 DEF Direct
  <2>4. CASE d.selector.kind = "Source" /\
             \E e \in evidence' :
                 /\ e.source = d.selector.id
                 /\ e.owner = v \/ (e.owner \in DOMAIN reinforcements' /\ reinforcements'[e.owner].version = v)
    <3>1. PICK e \in evidence' :
              /\ e.source = d.selector.id
              /\ e.owner = v \/ (e.owner \in DOMAIN reinforcements' /\ reinforcements'[e.owner].version = v)
      BY <2>4
    <3>2. e \in evidence
      <4>1. e \in [owner : {seq + 1}, source : S] => e.source \in S
        OBVIOUS
      <4> QED
        BY <4>1, <3>1, <2>4, <1>3 DEF RowAdded
    <3>3. e.owner \in 1..seq /\ seq \in Nat
      BY <3>2 DEF OwnersKnown, KnownRows
    <3>4. CASE e.owner = v
      <4>1. v \in Existing
        BY <3>3, <3>4, <2>2
      <4> QED
        BY <4>1, <3>1, <3>2, <3>4, <2>1, <2>4 DEF Direct
    <3>5. CASE e.owner \in DOMAIN reinforcements' /\ reinforcements'[e.owner].version = v
      <4>1. e.owner \in DOMAIN reinforcements /\ reinforcements'[e.owner] = reinforcements[e.owner]
        BY <3>3, <3>5 DEF RowAdded
      <4>2. v \in Existing
        BY <4>1, <3>5 DEF ViewsComplete
      <4> QED
        BY <4>1, <4>2, <3>1, <3>2, <3>5, <2>1, <2>4 DEF Direct
    <3> QED
      BY <3>1, <3>4, <3>5
  <2> QED
    BY <2>3, <2>4, <1>4 DEF Direct
<1>5. ASSUME NEW v \in DOMAIN versions', versions'[v].draft.scope \in d.proof
      PROVE  versions'[v].inputs \cap d.versions = {}
  <2>1. CASE v \in Existing
    <3>1. versions'[v] = versions[v] /\ v \in DOMAIN versions
      BY <2>1 DEF RowAdded, Existing
    <3> QED
      BY <3>1, <1>2, <1>5 DEF Final
  <2>2. CASE v \notin Existing
    <3>1. versions'[v].inputs \subseteq Existing
      BY <2>2 DEF RowAdded
    <3>2. d.versions \cap Existing = {}
      BY DEF DeletedGone
    <3> QED
      BY <3>1, <3>2
  <2> QED
    BY <2>1, <2>2
<1>6. ASSUME NEW o \in DOMAIN observations', observations'[o].scope \in d.proof
      PROVE  ~Matches(d.selector, observations'[o].scope, {observations'[o].source})
  <2>1. CASE o \in DOMAIN observations
    <3>1. observations'[o] = observations[o]
      BY <2>1 DEF RowAdded
    <3> QED
      BY <3>1, <2>1, <1>2, <1>6 DEF Final
  <2>2. CASE o \notin DOMAIN observations
    <3>1. S = {observations'[o].source} /\ observations'[o].scope = scope
      BY <2>2 DEF RowAdded
    <3> QED
      BY <3>1, <1>3
  <2> QED
    BY <2>1, <2>2
<1> QED
  BY <1>4, <1>5, <1>6 DEF Final

-----------------------------------------------------------------------------
(* Retention deletion.                                                     *)

(* What a plan names is closed under derivation.                           *)
LEMMA AffectedClosed ==
    ASSUME NEW sel, NEW p
    PROVE  /\ AffectedVersions(sel, p) \subseteq Existing
           /\ Closed(AffectedVersions(sel, p), sel, p)
<1> DEFINE A == AffectedVersions(sel, p)
<1>1. A \subseteq Existing /\ \A v \in Existing :
          v \in A <=> \A S \in SUBSET Existing : Closed(S, sel, p) => v \in S
  BY DEF AffectedVersions
<1> HIDE DEF A
<1>2. SUFFICES ASSUME NEW v \in Existing, ScopeOf(v) \in p,
                      \/ DirectlyAffected(sel, v)
                      \/ versions[v].inputs \cap A # {}
                      \/ versions[v].from \cap AffectedObservations(sel, p) # {}
               PROVE  v \in A
  BY <1>1 DEF Closed, A
<1>3. SUFFICES ASSUME NEW S \in SUBSET Existing, Closed(S, sel, p)
               PROVE  v \in S
  BY <1>1
<1>4. A \subseteq S
  BY <1>1, <1>3
<1>5. versions[v].inputs \cap A # {} => versions[v].inputs \cap S # {}
  BY <1>4
<1> QED
  BY <1>2, <1>3, <1>5 DEF Closed

(* The removal of what a plan that is still exact names.                   *)
Removal(plan) ==
    /\ PlanExact(plan)
    /\ RemoveVersions(plan.versions) /\ RemoveRecords(plan)
    /\ deletions' = deletions \cup
           {[selector |-> plan.selector, proof |-> plan.proof, at |-> seq + 1, versions |-> plan.versions]}

LEMMA RemovalRows ==
    ASSUME NEW plan, Removal(plan)
    PROVE  /\ plan.versions \subseteq Existing
           /\ DOMAIN versions' = Existing \ plan.versions
           /\ \A v \in DOMAIN versions' : versions'[v] = versions[v]
           /\ DOMAIN observations' = DOMAIN observations \ plan.observations
           /\ \A o \in DOMAIN observations' : observations'[o] = observations[o]
           /\ DOMAIN reinforcements' = DOMAIN reinforcements \ plan.reinforcements
           /\ \A r \in DOMAIN reinforcements' : reinforcements'[r] = reinforcements[r]
           /\ evidence' = evidence \ plan.evidence
<1>1. plan.versions \subseteq Existing
  BY AffectedClosed DEF Removal, PlanExact
<1>2. DOMAIN versions' = Existing \ plan.versions /\ \A v \in DOMAIN versions' : versions'[v] = versions[v]
  BY DEF Removal, RemoveVersions, Without, Existing
<1>3. /\ DOMAIN observations' = DOMAIN observations \ plan.observations
      /\ \A o \in DOMAIN observations' : observations'[o] = observations[o]
  BY DEF Removal, RemoveRecords, Without
<1>4. /\ DOMAIN reinforcements' = DOMAIN reinforcements \ plan.reinforcements
      /\ \A r \in DOMAIN reinforcements' : reinforcements'[r] = reinforcements[r]
  BY DEF Removal, RemoveRecords, Without
<1>5. evidence' = evidence \ plan.evidence
  BY DEF Removal, RemoveRecords
<1> QED
  BY <1>1, <1>2, <1>3, <1>4, <1>5

LEMMA RemovalApart ==
    ASSUME KnownRows, RowsApart, OwnersKnown, DeletedGone, NEW plan, Removal(plan), seq' = seq + 1,
           plan.selector \in Selectors, plan.proof \subseteq Scopes
    PROVE  RowsApart' /\ OwnersKnown' /\ DeletedGone'
<1>1. RowsApart'
  BY RemovalRows DEF RowsApart, Existing
<1>2. OwnersKnown'
  <2>1. evidence' \subseteq evidence /\ seq \in Nat
    BY RemovalRows DEF KnownRows
  <2>2. 1..seq \subseteq 1..(seq + 1)
    BY <2>1
  <2> QED
    BY <2>1, <2>2 DEF OwnersKnown
<1>3. DeletedGone'
  <2>1. /\ plan.versions \subseteq Existing /\ DOMAIN versions' = Existing \ plan.versions
        /\ seq \in Nat /\ Existing \subseteq 1..seq
    BY RemovalRows DEF KnownRows
  <2>2. SUFFICES ASSUME NEW d \in deletions'
                 PROVE  d.versions \subseteq 1..(seq + 1) /\ d.versions \cap DOMAIN versions' = {}
                        /\ d.selector \in Selectors /\ d.proof \subseteq Scopes
    BY DEF DeletedGone, Existing
  <2>3. CASE d \in deletions
    BY <2>1, <2>3 DEF DeletedGone
  <2>4. CASE d = [selector |-> plan.selector, proof |-> plan.proof, at |-> seq + 1, versions |-> plan.versions]
    <3>1. d.selector = plan.selector /\ d.proof = plan.proof /\ d.versions = plan.versions
      BY <2>4
    <3>2. 1..seq \subseteq 1..(seq + 1)
      BY <2>1
    <3> QED
      BY <3>1, <3>2, <2>1
  <2> QED
    BY <2>3, <2>4 DEF Removal
<1> QED
  BY <1>1, <1>2, <1>3

(* No surviving row loses evidence: a plan takes the evidence of the rows  *)
(* it takes, and an owner is one row.                                      *)
LEMMA RemovalViews ==
    ASSUME RowsApart, ViewsComplete, NEW plan, Removal(plan)
    PROVE  ViewsComplete'
<1> DEFINE Of(E, n) == {e \in E : e.owner = n}
<1>1. \A e \in plan.evidence : e.owner \in plan.versions \cup plan.observations \cup plan.reinforcements
  BY DEF Removal, PlanExact
<1>2. /\ plan.observations \subseteq DOMAIN observations
      /\ plan.reinforcements \subseteq DOMAIN reinforcements
      /\ plan.versions \subseteq Existing
      /\ \A r \in DOMAIN reinforcements : reinforcements[r].version \in plan.versions => r \in plan.reinforcements
  <2>1. plan.observations = AffectedObservations(plan.selector, plan.proof)
        /\ plan.reinforcements = UNION {ReinforcedBy(v) : v \in plan.versions}
    BY DEF Removal, PlanExact
  <2> QED
    <3>1. plan.observations \subseteq DOMAIN observations
      BY <2>1 DEF AffectedObservations
    <3>2. plan.versions \subseteq Existing
      BY RemovalRows
    <3>3. \A v : ReinforcedBy(v) \subseteq DOMAIN reinforcements
      BY DEF ReinforcedBy
    <3>4. \A r \in DOMAIN reinforcements : r \in ReinforcedBy(reinforcements[r].version)
      BY DEF ReinforcedBy
    <3> QED
      BY <2>1, <3>1, <3>2, <3>3, <3>4
<1>3. ASSUME NEW n, n \notin plan.versions \cup plan.observations \cup plan.reinforcements
      PROVE  Of(evidence', n) = Of(evidence, n)
  <2>1. evidence' = evidence \ plan.evidence
    BY RemovalRows
  <2> QED
    BY <2>1, <1>1, <1>3
<1>4. /\ \A v \in Existing : Of(evidence, v) = [owner : {v}, source : versions[v].draft.sources]
      /\ \A r \in DOMAIN reinforcements :
            /\ reinforcements[r].version \in Existing
            /\ Of(evidence, r) = [owner : {r}, source : {reinforcements[r].source}]
  BY DEF ViewsComplete, EvidenceOf
<1> HIDE DEF Of
<1>5. ASSUME NEW v \in DOMAIN versions'
      PROVE  Of(evidence', v) = [owner : {v}, source : versions'[v].draft.sources]
  <2>1. v \in Existing \ plan.versions /\ versions'[v] = versions[v]
    BY RemovalRows
  <2>2. v \notin plan.versions \cup plan.observations \cup plan.reinforcements
    BY <2>1, <1>2 DEF RowsApart
  <2> QED
    BY <2>1, <2>2, <1>3, <1>4
<1>6. ASSUME NEW r \in DOMAIN reinforcements'
      PROVE  /\ reinforcements'[r].version \in DOMAIN versions'
             /\ Of(evidence', r) = [owner : {r}, source : {reinforcements'[r].source}]
  <2>1. r \in DOMAIN reinforcements \ plan.reinforcements /\ reinforcements'[r] = reinforcements[r]
    BY RemovalRows
  <2>2. reinforcements[r].version \in Existing \ plan.versions
    BY <2>1, <1>2, <1>4
  <2>3. reinforcements'[r].version \in DOMAIN versions'
    BY <2>1, <2>2, RemovalRows
  <2>4. r \notin plan.versions \cup plan.observations \cup plan.reinforcements
    BY <2>1, <1>2 DEF RowsApart
  <2> QED
    BY <2>1, <2>3, <2>4, <1>3, <1>4
<1> QED
  BY <1>5, <1>6 DEF ViewsComplete, EvidenceOf, Of, Existing

LEMMA RemovalFinal ==
    ASSUME DeletionFinal, NEW plan, Removal(plan)
    PROVE  DeletionFinal'
<1>1. /\ DOMAIN versions' \subseteq DOMAIN versions
      /\ \A v \in DOMAIN versions' : versions'[v] = versions[v]
      /\ DOMAIN observations' \subseteq DOMAIN observations
      /\ \A o \in DOMAIN observations' : observations'[o] = observations[o]
      /\ DOMAIN reinforcements' \subseteq DOMAIN reinforcements
      /\ \A r \in DOMAIN reinforcements' : reinforcements'[r] = reinforcements[r]
      /\ evidence' \subseteq evidence
  BY RemovalRows DEF Existing
<1>2. ASSUME NEW sel, NEW v \in DOMAIN versions', Direct(sel, v, versions', evidence', reinforcements')
      PROVE  Direct(sel, v, versions, evidence, reinforcements)
  BY <1>1, <1>2 DEF Direct
<1>3. SUFFICES ASSUME NEW d \in deletions'
               PROVE  Final(d, versions', evidence', reinforcements', observations')
  BY FinalIff
<1>4. CASE d \in deletions
  <2>1. Final(d, versions, evidence, reinforcements, observations)
    BY <1>4, FinalIff
  <2> QED
    BY <2>1, <1>1, <1>2 DEF Final
<1>5. CASE d = [selector |-> plan.selector, proof |-> plan.proof, at |-> seq + 1, versions |-> plan.versions]
  <2>1. d.selector = plan.selector /\ d.proof = plan.proof /\ d.versions = plan.versions
    BY <1>5
  <2>2. /\ plan.versions = AffectedVersions(plan.selector, plan.proof)
        /\ plan.observations = AffectedObservations(plan.selector, plan.proof)
    BY DEF Removal, PlanExact
  <2>3. Closed(plan.versions, plan.selector, plan.proof)
    BY <2>2, AffectedClosed
  <2>4. ASSUME NEW v \in DOMAIN versions', versions'[v].draft.scope \in d.proof
        PROVE  /\ ~Direct(d.selector, v, versions', evidence', reinforcements')
               /\ versions'[v].inputs \cap d.versions = {}
    <3>1. v \in Existing \ plan.versions /\ versions'[v] = versions[v]
      BY RemovalRows
    <3>2. ~DirectlyAffected(plan.selector, v) /\ versions[v].inputs \cap plan.versions = {}
      BY <3>1, <2>1, <2>3, <2>4 DEF Closed, ScopeOf
    <3>3. ~Direct(plan.selector, v, versions, evidence, reinforcements)
      BY <3>2, DirectIff
    <3> QED
      BY <3>1, <3>2, <3>3, <2>1, <1>2
  <2>5. ASSUME NEW o \in DOMAIN observations', observations'[o].scope \in d.proof
        PROVE  ~Matches(d.selector, observations'[o].scope, {observations'[o].source})
    <3>1. o \in DOMAIN observations \ plan.observations /\ observations'[o] = observations[o]
      BY RemovalRows
    <3> QED
      BY <3>1, <2>1, <2>2, <2>5 DEF AffectedObservations
  <2> QED
    BY <2>4, <2>5 DEF Final
<1> QED
  BY <1>4, <1>5 DEF Removal

LEMMA RemovalHeads ==
    ASSUME HeadsAgree, LedgerTypeOK, LivesKept, seq + 1 \in Ids, NEW plan, Removal(plan)
    PROVE  HeadsAgree'
<1> DEFINE gone == plan.versions
<1>1. AgreeHeads(heads, assertions, versions, life)
  BY HeadsAgreeIff
<1>2. DOMAIN versions' = Existing \ gone /\ \A v \in DOMAIN versions' : versions'[v] = versions[v]
  BY RemovalRows
<1>3. /\ assertions' = assertions \ Emptied(gone)
      /\ DOMAIN heads' = DOMAIN heads \ Emptied(gone)
      /\ \A a \in DOMAIN heads' : heads'[a] = heads[a] \ gone
  BY DEF Removal, RemoveVersions
<1>4. \A v \in Existing \ gone : life'[v] = life[v]
  <2>1. Lives(life, seq) /\ seq \in Nat /\ Existing \subseteq DOMAIN life
    BY LivesFact
  <2>2. life' = Moved(life, gone, "Tombstoned")
    BY DEF Removal, RemoveVersions
  <2>3. \A v \in DOMAIN life \ gone : life'[v] = life[v]
    BY <2>2 DEF Moved
  <2> QED
    BY <2>1, <2>3
<1>5. \A v \in Existing \ gone : AssertionOf(v) \notin Emptied(gone)
  BY DEF Emptied
<1> HIDE DEF gone
<1>6. DOMAIN heads' = assertions'
  BY <1>1, <1>3 DEF AgreeHeads
<1>7. \A v \in DOMAIN versions' : versions'[v].draft.assertion \in assertions'
  BY <1>1, <1>2, <1>3, <1>5 DEF AgreeHeads, Existing, AssertionOf
<1>8. ASSUME NEW a \in assertions', NEW v
      PROVE  v \in heads'[a] <=>
                v \in DOMAIN versions' /\ versions'[v].draft.assertion = a /\ LastState(life', v) = "Active"
  <2>1. a \in assertions /\ heads'[a] = heads[a] \ gone
    BY <1>3, <1>6
  <2>2. v \in heads[a] <=> v \in DOMAIN versions /\ versions[v].draft.assertion = a /\ LastState(life, v) = "Active"
    BY <2>1, <1>1 DEF AgreeHeads
  <2>3. CASE v \in Existing \ gone
    <3>1. life'[v] = life[v] /\ versions'[v] = versions[v] /\ v \in DOMAIN versions'
      BY <2>3, <1>2, <1>4
    <3> QED
      BY <3>1, <2>1, <2>2, <2>3 DEF Existing, LastState
  <2>4. CASE v \notin Existing \ gone
    BY <2>1, <2>2, <2>4, <1>2 DEF Existing
  <2> QED
    BY <2>3, <2>4
<1> QED
  BY <1>6, <1>7, <1>8, HeadsAgreeIffNext DEF AgreeHeads

-----------------------------------------------------------------------------
(* What the lifecycles say of the versions that exist.                     *)

(* Each superseded version was before, or its successor is in this step.   *)
LEMMA SuccessorsKept ==
    ASSUME LedgerTypeOK, SupersededHasSuccessor, NEW op, NEW in, NEW out, NEW key, Logged(op, in, out, key),
           DOMAIN life \subseteq DOMAIN life', DOMAIN versions' \subseteq Existing \cup {seq + 1},
           \A w \in Existing \cap DOMAIN versions' : versions'[w] = versions[w],
           \A v \in DOMAIN versions' : LastState(life', v) = "Superseded" =>
               \/ v \in Existing /\ Current(v) = "Superseded"
               \/ \E w \in out : /\ v \in in /\ w \in DOMAIN life'
                                 /\ w \in DOMAIN versions' =>
                                        /\ versions'[w].draft.rank >= versions'[v].draft.rank
                                        /\ v \in versions'[w].parents
    PROVE  SupersededHasSuccessor'
<1>1. SUFFICES ASSUME NEW v \in DOMAIN versions', LastState(life', v) = "Superseded"
               PROVE  \E w \in DOMAIN life' :
                          /\ \E n \in DOMAIN log' : w \in log'[n].out /\ v \in log'[n].in
                          /\ w \in DOMAIN versions' => versions'[w].draft.rank >= versions'[v].draft.rank
                                                       /\ v \in versions'[w].parents
  BY DEF SupersededHasSuccessor, Existing, Current, LastState
<1>2. CASE v \in Existing /\ Current(v) = "Superseded"
  <2>1. PICK w \in DOMAIN life :
            /\ \E n \in DOMAIN log : w \in log[n].out /\ v \in log[n].in
            /\ w \in Existing => versions[w].draft.rank >= versions[v].draft.rank
                                 /\ v \in versions[w].parents
    BY <1>2 DEF SupersededHasSuccessor
  <2>2. PICK n \in DOMAIN log : w \in log[n].out /\ v \in log[n].in
    BY <2>1
  <2>3. n \in DOMAIN log' /\ log'[n] = log[n]
    BY DEF Logged
  <2>4. w # seq + 1 /\ w \in DOMAIN life'
    BY DEF LedgerTypeOK, Logged
  <2>5. w \in DOMAIN versions' => w \in Existing /\ versions'[w] = versions[w]
    BY <2>4
  <2>6. versions'[v] = versions[v]
    BY <1>2
  <2> QED
    BY <2>1, <2>2, <2>3, <2>4, <2>5, <2>6
<1>3. CASE \E w \in out : /\ v \in in /\ w \in DOMAIN life'
                          /\ w \in DOMAIN versions' =>
                                 /\ versions'[w].draft.rank >= versions'[v].draft.rank
                                 /\ v \in versions'[w].parents
  <2>1. PICK w \in out : /\ v \in in /\ w \in DOMAIN life'
                         /\ w \in DOMAIN versions' =>
                                /\ versions'[w].draft.rank >= versions'[v].draft.rank
                                /\ v \in versions'[w].parents
    BY <1>3
  <2>2. seq + 1 \in DOMAIN log' /\ log'[seq + 1].out = out /\ log'[seq + 1].in = in
    BY DEF Logged
  <2> QED
    BY <2>1, <2>2
<1> QED
  BY <1>1, <1>2, <1>3

LEMMA FlaggedKept ==
    ASSUME FlaggedNeverActive,
           \A v \in Existing \cap DOMAIN versions' : versions'[v] = versions[v],
           \A v \in DOMAIN versions' : versions'[v].draft.flagged =>
               \/ v \in Existing /\ (Never(life, v) => Never(life', v))
               \/ Never(life', v)
    PROVE  FlaggedNeverActive'
BY DEF FlaggedNeverActive, Never, Existing

(* Nothing planned before this mutation is at the new sequence.            *)
LEMMA PlansOvertaken ==
    ASSUME PlansCurrent, plans \subseteq Plans, plans' \subseteq plans, seq \in Nat, seq' = seq + 1
    PROVE  PlansCurrent'
<1>1. SUFFICES ASSUME NEW plan \in plans' PROVE plan.at <= seq + 1 /\ plan.at # seq + 1
  BY DEF PlansCurrent
<1>2. plan.at <= seq /\ plan.at \in Nat
  BY LedgerAssumption DEF PlansCurrent, Plans
<1> QED
  BY <1>2

(* The type of what a mutation leaves alone.                               *)
LEMMA TypeKept ==
    ASSUME LedgerTypeOK, NEW op, NEW in, NEW out, NEW key, Logged(op, in, out, key)
    PROVE  /\ seq' \in 0..MaxSeq /\ log' \in Seq(Mutations) /\ Len(log') = seq'
           /\ UNCHANGED assertions => assertions' \subseteq Assertions
           /\ UNCHANGED heads => IsRows(heads', Assertions, SUBSET Ids)
           /\ UNCHANGED versions => IsRows(versions', 1..seq', Versions)
           /\ UNCHANGED life => \A v \in DOMAIN life' : v \in 1..seq' /\ life'[v] \in Seq(Transitions)
           /\ UNCHANGED evidence => evidence' \subseteq EvidenceRecords
           /\ UNCHANGED observations => IsRows(observations', 1..seq', Observations)
           /\ UNCHANGED reinforcements => IsRows(reinforcements', 1..seq', Reinforcements)
           /\ UNCHANGED snapshots => snapshots' \subseteq Snapshots
           /\ plans' \subseteq plans => plans' \subseteq Plans
<1>1. seq \in Nat /\ seq' = seq + 1
  BY DEF Logged
<1>2. 1..seq \subseteq 1..seq'
  BY <1>1
<1>3. seq' \in 0..MaxSeq /\ log' \in Seq(Mutations) /\ Len(log') = seq'
  BY DEF Logged
<1> QED
  BY <1>2, <1>3 DEF LedgerTypeOK, IsRows

-----------------------------------------------------------------------------
(* Every operation keeps the invariant.                                    *)

(* Histories are only added to, and a version that stays is not rewritten. *)
Forward ==
    /\ Extends(life', life)
    /\ DOMAIN versions' \subseteq Existing \cup {seq + 1}
    /\ \A v \in Existing \cap DOMAIN versions' : versions'[v] = versions[v]

LEMMA StillForward ==
    ASSUME LedgerInv, UNCHANGED <<versions, life>>
    PROVE  Forward
<1>1. Lives(life, seq)
  BY LivesFact DEF LedgerInv, LedgerConsistent
<1>2. Extends(life, life)
  <2>1. \A v \in DOMAIN life : Len(life[v]) \in Nat
    BY <1>1 DEF Lives
  <2> QED
    BY <2>1 DEF Extends
<1> QED
  BY <1>2 DEF Forward, Existing

LEMMA QuietKept ==
    ASSUME LedgerInv, UNCHANGED <<assertions, heads, versions, life>>,
           NEW op, NEW in, NEW out, NEW key, Logged(op, in, out, key)
    PROVE  HeadsAgree' /\ FlaggedNeverActive' /\ SupersededHasSuccessor' /\ LivesKept'
<1> USE DEF LedgerInv, LedgerConsistent
<1>1. HeadsAgree'
  BY DEF HeadsAgree, Existing, AssertionOf, Current
<1>2. FlaggedNeverActive'
  BY DEF FlaggedNeverActive, Existing
<1>3. SupersededHasSuccessor'
  BY SuccessorsKept DEF Existing, Current, LastState
<1>4. LivesKept'
  BY DEF LivesKept, Existing
<1> QED
  BY <1>1, <1>2, <1>3, <1>4

(* The same for a step that adds a row with its evidence.                  *)
LEMMA AddedKept ==
    ASSUME LedgerInv, NEW S, NEW scope, RowAdded(S, scope),
           NEW op, NEW in, NEW out, NEW key, ~Recorded(op, key), Logged(op, in, out, key),
           UNCHANGED plans
    PROVE  /\ ViewsComplete' /\ DeletionFinal' /\ OneMutationPerKey'
           /\ RowsApart' /\ OwnersKnown' /\ PlansCurrent' /\ DeletedGone'
<1> USE DEF LedgerInv, LedgerConsistent
<1>1. KnownRows /\ evidence \subseteq EvidenceRecords /\ plans \subseteq Plans
  BY KnownRowsFact DEF LedgerTypeOK
<1>2. seq \in Nat /\ seq' = seq + 1
  BY DEF Logged
<1>3. ViewsComplete'
  BY <1>1, RowAddedViews
<1>4. DeletionFinal'
  BY <1>1, RowAddedFinal
<1>5. OneMutationPerKey'
  BY OnePerKeyKept
<1>6. RowsApart' /\ OwnersKnown' /\ DeletedGone'
  BY <1>1, <1>2, RowAddedApart
<1>7. PlansCurrent'
  BY <1>1, <1>2, PlansOvertaken
<1> QED
  BY <1>3, <1>4, <1>5, <1>6, <1>7

(* The evidence of a new row is well formed.                               *)
LEMMA AddedEvidence ==
    ASSUME evidence \subseteq EvidenceRecords, seq + 1 \in Ids, NEW S, NEW scope, RowAdded(S, scope)
    PROVE  evidence' \subseteq EvidenceRecords
BY DEF RowAdded, EvidenceRecords

LEMMA OneRecord ==
    ASSUME NEW n, NEW s
    PROVE  {[owner |-> n, source |-> s]} = [owner : {n}, source : {s}]
<1>1. [owner |-> n, source |-> s] \in [owner : {n}, source : {s}]
  OBVIOUS
<1>2. ASSUME NEW e \in [owner : {n}, source : {s}] PROVE e = [owner |-> n, source |-> s]
  <2>1. e.owner = n /\ e.source = s /\ e = [owner |-> e.owner, source |-> e.source]
    OBVIOUS
  <2> QED
    BY <2>1
<1> QED
  BY <1>1, <1>2

LEMMA ObserveKept ==
    ASSUME LedgerInv, seq < MaxSeq, NEW p \in Proofs, NEW key \in Ids, NEW scope \in Scopes, NEW source \in Sources,
           Observe(p, key, scope, source)
    PROVE  LedgerInv' /\ Forward
<1> USE DEF LedgerInv, LedgerConsistent
<1>1. /\ ~Recorded("Observe", key) /\ Importable(scope, {source})
      /\ AppendMutation("Observe", None, {}, {}, key) /\ RecordObservation(scope, source)
  BY DEF Observe
<1>2. Logged("Observe", {}, {}, key)
  BY <1>1, LogGrows DEF Operations
<1>3. seq + 1 \in Ids /\ seq \in Nat /\ seq' = seq + 1
  BY <1>2 DEF Logged
<1> DEFINE o == [scope |-> scope, source |-> source]
<1>4. o \in Observations /\ o.scope = scope /\ o.source = source
  BY DEF Observations
<1>5. /\ UNCHANGED <<assertions, heads, versions, life, reinforcements, snapshots, plans, deletions>>
      /\ DOMAIN observations' = DOMAIN observations \cup {seq + 1}
      /\ \A w \in DOMAIN observations : observations'[w] = observations[w]
      /\ seq + 1 \notin DOMAIN observations => observations'[seq + 1] = o
      /\ evidence' = evidence \cup {[owner |-> seq + 1, source |-> source]}
  BY <1>1 DEF RecordObservation
<1>6. seq + 1 \notin DOMAIN observations /\ seq + 1 \notin Existing /\ seq + 1 \notin DOMAIN reinforcements
  BY <1>3, KnownRowsFact DEF KnownRows
<1> HIDE DEF o
<1>7. RowAdded({source}, scope)
  <2>1. {[owner |-> seq + 1, source |-> source]} = [owner : {seq + 1}, source : {source}]
    BY OneRecord
  <2> QED
    BY <2>1, <1>1, <1>4, <1>5, <1>6 DEF RowAdded, Existing
<1>8. LedgerTypeOK'
  <2>1. evidence' \subseteq EvidenceRecords
    BY <1>3, <1>7, AddedEvidence DEF LedgerTypeOK
  <2>2. IsRows(observations', 1..seq', Observations)
    <3>1. IsRows(observations, 1..seq, Observations)
      BY DEF LedgerTypeOK
    <3> QED
      BY <3>1, <1>3, <1>4, <1>5, <1>6 DEF IsRows
  <2> QED
    BY <2>1, <2>2, <1>2, <1>5, TypeKept DEF LedgerTypeOK
<1>9. HeadsAgree' /\ FlaggedNeverActive' /\ SupersededHasSuccessor' /\ LivesKept'
  BY <1>2, <1>5, QuietKept
<1>10. /\ ViewsComplete' /\ DeletionFinal' /\ OneMutationPerKey'
       /\ RowsApart' /\ OwnersKnown' /\ PlansCurrent' /\ DeletedGone'
  BY <1>1, <1>2, <1>5, <1>7, AddedKept
<1>11. Forward
  BY <1>5, StillForward
<1> QED
  BY <1>11, <1>8, <1>9, <1>10

LEMMA ReinforceKept ==
    ASSUME LedgerInv, seq < MaxSeq, NEW p \in Proofs, NEW key \in Ids, NEW v, NEW source \in Sources,
           Reinforce(p, key, v, source)
    PROVE  LedgerInv' /\ Forward
<1> USE DEF LedgerInv, LedgerConsistent
<1>1. /\ v \in Existing /\ ~Recorded("Reinforce", key) /\ Importable(ScopeOf(v), {source})
      /\ AppendMutation("Reinforce", AssertionOf(v), {v}, {}, key) /\ RecordReinforcement(v, source)
  BY DEF Reinforce
<1>2. v \in Ids /\ AssertionOf(v) \in Assertions
  <2>1. versions[v] \in Versions /\ v \in 1..seq /\ seq \in Nat /\ seq <= MaxSeq /\ MaxSeq \in Nat
    BY <1>1, LedgerAssumption DEF LedgerTypeOK, IsRows, Existing
  <2>2. v \in Ids
    BY <2>1 DEF Ids
  <2>3. versions[v].draft \in DraftSet
    BY <2>1 DEF Versions
  <2> QED
    BY <2>2, <2>3 DEF AssertionOf, DraftSet
<1>3. Logged("Reinforce", {v}, {}, key)
  <2>1. "Reinforce" \in Operations
    BY DEF Operations
  <2> QED
    BY <2>1, <1>1, <1>2, LogGrows
<1>4. seq + 1 \in Ids /\ seq \in Nat /\ seq' = seq + 1
  BY <1>3 DEF Logged
<1> DEFINE r == [version |-> v, source |-> source]
<1>5. r \in Reinforcements /\ r.version = v /\ r.source = source
  BY <1>2 DEF Reinforcements
<1>6. /\ UNCHANGED <<assertions, heads, versions, life, observations, snapshots, plans, deletions>>
      /\ DOMAIN reinforcements' = DOMAIN reinforcements \cup {seq + 1}
      /\ \A w \in DOMAIN reinforcements : reinforcements'[w] = reinforcements[w]
      /\ seq + 1 \notin DOMAIN reinforcements => reinforcements'[seq + 1] = r
      /\ evidence' = evidence \cup {[owner |-> seq + 1, source |-> source]}
  BY <1>1 DEF RecordReinforcement
<1>7. seq + 1 \notin DOMAIN observations /\ seq + 1 \notin Existing /\ seq + 1 \notin DOMAIN reinforcements
  BY <1>4, KnownRowsFact DEF KnownRows
<1> HIDE DEF r
<1>8. RowAdded({source}, ScopeOf(v))
  <2>1. {[owner |-> seq + 1, source |-> source]} = [owner : {seq + 1}, source : {source}]
    BY OneRecord
  <2> QED
    BY <2>1, <1>1, <1>5, <1>6, <1>7 DEF RowAdded, Existing
<1>9. LedgerTypeOK'
  <2>1. evidence' \subseteq EvidenceRecords
    BY <1>4, <1>8, AddedEvidence DEF LedgerTypeOK
  <2>2. IsRows(reinforcements', 1..seq', Reinforcements)
    <3>1. IsRows(reinforcements, 1..seq, Reinforcements)
      BY DEF LedgerTypeOK
    <3> QED
      BY <3>1, <1>4, <1>5, <1>6, <1>7 DEF IsRows
  <2> QED
    BY <2>1, <2>2, <1>3, <1>6, TypeKept DEF LedgerTypeOK
<1>10. HeadsAgree' /\ FlaggedNeverActive' /\ SupersededHasSuccessor' /\ LivesKept'
  BY <1>3, <1>6, QuietKept
<1>11. /\ ViewsComplete' /\ DeletionFinal' /\ OneMutationPerKey'
       /\ RowsApart' /\ OwnersKnown' /\ PlansCurrent' /\ DeletedGone'
  BY <1>1, <1>3, <1>6, <1>8, AddedKept
<1>12. Forward
  BY <1>6, StillForward
<1> QED
  BY <1>12, <1>9, <1>10, <1>11

LEMMA WithHeadFacts ==
    ASSUME LedgerTypeOK, NEW a \in Assertions, NEW vs \in SUBSET Ids, heads' = WithHead(a, vs)
    PROVE  /\ DOMAIN heads' = DOMAIN heads \cup {a} /\ heads'[a] = vs
           /\ \A b \in DOMAIN heads \ {a} : heads'[b] = heads[b]
           /\ IsRows(heads', Assertions, SUBSET Ids)
<1>1. /\ DOMAIN heads' = DOMAIN heads \cup {a} /\ heads'[a] = vs
      /\ \A b \in DOMAIN heads \ {a} : heads'[b] = heads[b]
  BY DEF WithHead
<1> QED
  BY <1>1 DEF LedgerTypeOK, IsRows

LEMMA HeadsOfType ==
    ASSUME LedgerTypeOK, HeadsAgree, LivesKept, NEW a
    PROVE  /\ HeadsOf(a) \subseteq Existing /\ HeadsOf(a) \subseteq DOMAIN life
           /\ HeadsOf(a) \in SUBSET Ids /\ seq + 1 \notin HeadsOf(a)
<1>1. HeadsOf(a) \subseteq Existing
  BY HeadsOfFacts
<1>2. seq \in Nat /\ seq <= MaxSeq /\ MaxSeq \in Nat /\ Existing \subseteq 1..seq /\ Existing \subseteq DOMAIN life
  BY LivesFact, LedgerAssumption DEF LedgerTypeOK
<1>3. 1..seq \subseteq Ids /\ seq + 1 \notin 1..seq
  BY <1>2 DEF Ids
<1> QED
  BY <1>1, <1>2, <1>3

(* The rows of a new version.                                              *)
NewVersion(d, f, hs) ==
    /\ DOMAIN versions' = Existing \cup {seq + 1}
    /\ \A w \in Existing : versions'[w] = versions[w]
    /\ versions'[seq + 1].draft = d /\ versions'[seq + 1].parents = hs
    /\ versions'[seq + 1].inputs = f[1]
    /\ IsRows(versions', 1..(seq + 1), Versions)
    /\ assertions' = assertions \cup {d.assertion}
    /\ assertions' \subseteq Assertions

LEMMA RecordVersionFacts ==
    ASSUME LedgerInv, seq + 1 \in Ids, NEW d \in Drafts, NEW f \in Derivations, RecordVersion(d, f)
    PROVE  NewVersion(d, f, HeadsOf(d.assertion)) /\ f[1] \subseteq Existing
<1> USE DEF LedgerInv, LedgerConsistent
<1> DEFINE hs == HeadsOf(d.assertion)
           rec == [draft |-> d, parents |-> hs, inputs |-> f[1], from |-> f[2]]
<1>1. seq \in Nat /\ seq + 1 \notin Existing /\ Existing \subseteq 1..seq /\ DOMAIN observations \subseteq 1..seq
  BY KnownRowsFact DEF KnownRows
<1>2. 1..seq \subseteq Ids
  BY <1>1, LedgerAssumption DEF Ids, LedgerTypeOK
<1>3. f[1] \subseteq Existing /\ f[2] \subseteq DOMAIN observations
  BY DEF Derivations
<1>4. hs \in SUBSET Ids /\ d \in DraftSet /\ d.assertion \in Assertions
  BY HeadsOfType, LedgerAssumption DEF DraftSet
<1>5. rec \in Versions /\ rec.draft = d /\ rec.parents = hs /\ rec.inputs = f[1]
  <2> HIDE DEF hs
  <2> QED
    BY <1>1, <1>2, <1>3, <1>4 DEF Versions
<1>6. /\ DOMAIN versions' = Existing \cup {seq + 1}
      /\ \A w \in Existing : w # seq + 1 => versions'[w] = versions[w]
      /\ versions'[seq + 1] = rec
      /\ assertions' = assertions \cup {d.assertion}
  BY DEF RecordVersion
<1> HIDE DEF rec, hs
<1>7. \A w \in Existing : versions'[w] = versions[w]
  BY <1>1, <1>6
<1>8. IsRows(versions', 1..(seq + 1), Versions)
  <2>1. IsRows(versions, 1..seq, Versions)
    BY DEF LedgerTypeOK
  <2>2. 1..seq \subseteq 1..(seq + 1) /\ seq + 1 \in 1..(seq + 1)
    BY <1>1
  <2> QED
    BY <2>1, <2>2, <1>5, <1>6, <1>7 DEF IsRows, Existing
<1>9. assertions' \subseteq Assertions
  BY <1>4, <1>6 DEF LedgerTypeOK
<1> QED
  BY <1>3, <1>5, <1>6, <1>7, <1>8, <1>9 DEF NewVersion, hs

(* The histories and heads after a candidate is stored beside the heads.   *)
LEMMA BesideKept ==
    ASSUME LedgerInv, seq + 1 \in Ids, NEW d \in Drafts, NEW f,
           NewVersion(d, f, HeadsOf(d.assertion)),
           NEW state \in {"Proposed", "Quarantined"}, StoreBeside(seq + 1, d.assertion, state),
           NEW op, NEW in, NEW out, NEW key, Logged(op, in, out, key)
    PROVE  /\ HeadsAgree' /\ FlaggedNeverActive' /\ SupersededHasSuccessor' /\ LivesKept'
           /\ IsRows(heads', Assertions, SUBSET Ids) /\ Lives(life', seq + 1)
           /\ Extends(life', life)
<1> USE DEF LedgerInv, LedgerConsistent
<1> DEFINE a == d.assertion
<1>1. Lives(life, seq) /\ seq \in Nat /\ Existing \subseteq DOMAIN life /\ Existing \subseteq 1..seq
  BY LivesFact
<1>2. Lives(life, seq + 1) /\ {seq + 1} \subseteq 1..(seq + 1) /\ state \in States /\ seq + 1 \notin DOMAIN life
  BY <1>1 DEF Lives, States
<1>3. IsMoved(life', life, {seq + 1}, state)
  BY <1>1, <1>2, MovedFacts DEF StoreBeside
<1>4. /\ DOMAIN life' = DOMAIN life \cup {seq + 1} /\ Lives(life', seq + 1)
      /\ LastState(life', seq + 1) = state
      /\ \A w \in DOMAIN life : life'[w] = life[w]
  BY <1>2, <1>3 DEF IsMoved
<1>5. Never(life', seq + 1)
  <2>1. seq + 1 \in DOMAIN life \cup {seq + 1} /\ state # "Active"
    OBVIOUS
  <2> QED
    BY <2>1, <1>1, <1>2, <1>3, NeverKept
<1>6. a \in Assertions /\ HeadsOf(a) \in SUBSET Ids /\ seq + 1 \notin HeadsOf(a)
  BY HeadsOfType, LedgerAssumption DEF DraftSet
<1>7. /\ DOMAIN heads' = DOMAIN heads \cup {a} /\ heads'[a] = HeadsOf(a)
      /\ \A b \in DOMAIN heads \ {a} : heads'[b] = heads[b]
      /\ IsRows(heads', Assertions, SUBSET Ids)
  BY <1>6, WithHeadFacts DEF StoreBeside
<1> HIDE DEF a
<1>8. /\ DOMAIN versions' = Existing \cup {seq + 1}
      /\ \A w \in Existing : versions'[w] = versions[w]
      /\ versions'[seq + 1].draft.assertion = a /\ assertions' = assertions \cup {a}
  BY DEF NewVersion, a
<1>9. HeadsAgree'
  <2>1. heads'[a] = HeadsOf(a) \ {seq + 1}
    BY <1>6, <1>7
  <2> QED
    <3>1. Existing \subseteq DOMAIN versions' /\ seq + 1 \notin Existing
      BY <1>1, <1>8
    <3>2. \A w \in DOMAIN versions' \ Existing : w \in {seq + 1} /\ versions'[w].draft.assertion = a
      BY <1>8
    <3>3. \A w \in {seq + 1} : LastState(life', w) # "Active"
      BY <1>4
    <3>4. \A w \in {seq + 1} \cap Existing : AssertionOf(w) = a
      BY <3>1
    <3>5. \A w \in Existing \ {seq + 1} : life'[w] = life[w]
      BY <1>1, <1>4
    <3> QED
      <4>1. HeadLoses(a, {seq + 1})
        BY <3>1, <3>2, <3>3, <3>4, <3>5, <2>1, <1>7, <1>8 DEF HeadLoses
      <4> QED
        BY <4>1, DeactivateHeads
<1>10. FlaggedNeverActive'
  <2>1. \A w \in Existing : life'[w] = life[w]
    BY <1>1, <1>4
  <2> QED
    BY <2>1, <1>5, <1>8, FlaggedKept DEF Never
<1>11. SupersededHasSuccessor'
  <2>1. \A v \in DOMAIN versions' : LastState(life', v) = "Superseded" => v \in Existing /\ Current(v) = "Superseded"
    BY <1>1, <1>4, <1>8 DEF LastState, Current
  <2> QED
    BY <2>1, <1>4, <1>8, SuccessorsKept
<1>12. LivesKept'
  BY <1>1, <1>4, <1>8 DEF LivesKept, Existing, Lives
<1>13. Extends(life', life)
  BY <1>3 DEF IsMoved
<1> QED
  BY <1>13, <1>4, <1>7, <1>9, <1>10, <1>11, <1>12

(* Version v, new or proposed before, becomes the head of a.               *)
Activation(v, a) ==
    /\ a \in Assertions /\ v \in 1..(seq + 1) /\ v \in Existing \cup {seq + 1}
    /\ v \notin HeadsOf(a) /\ Activate(v, a)
    /\ DOMAIN versions' = Existing \cup {v} /\ \A w \in Existing : versions'[w] = versions[w]
    /\ versions'[v].draft.assertion = a /\ assertions' = assertions \cup {a}
    /\ ~versions'[v].draft.flagged
    /\ versions'[v].parents = HeadsOf(a)
    /\ \A w \in HeadsOf(a) : versions'[v].draft.rank >= versions[w].draft.rank

LEMMA ActivatedKept ==
    ASSUME LedgerInv, seq + 1 \in Ids, NEW a, NEW v, Activation(v, a),
           NEW op, NEW key, Logged(op, HeadsOf(a), {v}, key)
    PROVE  /\ HeadsAgree' /\ FlaggedNeverActive' /\ SupersededHasSuccessor' /\ LivesKept'
           /\ IsRows(heads', Assertions, SUBSET Ids) /\ Lives(life', seq + 1)
           /\ Extends(life', life)
<1> USE DEF LedgerInv, LedgerConsistent, Activation
<1>1. Lives(life, seq) /\ seq \in Nat /\ Existing \subseteq DOMAIN life /\ Existing \subseteq 1..seq
  BY LivesFact
<1>2. HeadsOf(a) \subseteq Existing /\ HeadsOf(a) \subseteq DOMAIN life
  BY HeadsOfType
<1>3. Activated(life', v, HeadsOf(a))
  BY <1>1, <1>2, ActivateLife
<1>4. /\ DOMAIN life' = DOMAIN life \cup {v} /\ Lives(life', seq + 1)
      /\ LastState(life', v) = "Active"
      /\ \A w \in HeadsOf(a) : LastState(life', w) = "Superseded"
      /\ \A w \in DOMAIN life \ (HeadsOf(a) \cup {v}) : life'[w] = life[w]
      /\ \A w \in DOMAIN life \ {v} : Never(life, w) => Never(life', w)
  BY <1>3 DEF Activated
<1>5. HeadsAgree'
  BY ActivateHeads
<1>6. FlaggedNeverActive'
  <2>1. \A w \in Existing \ {v} : Never(life, w) => Never(life', w)
    BY <1>1, <1>4
  <2> QED
    BY <2>1, FlaggedKept
<1>7. SupersededHasSuccessor'
  <2>1. ASSUME NEW w \in DOMAIN versions', LastState(life', w) = "Superseded"
        PROVE  \/ w \in Existing /\ Current(w) = "Superseded"
               \/ \E u \in {v} : /\ w \in HeadsOf(a) /\ u \in DOMAIN life'
                                 /\ u \in DOMAIN versions' =>
                                        /\ versions'[u].draft.rank >= versions'[w].draft.rank
                                        /\ w \in versions'[u].parents
    <3>1. w # v /\ w \in Existing
      BY <2>1, <1>4
    <3>2. CASE w \in HeadsOf(a)
      BY <3>1, <3>2, <1>4
    <3>3. CASE w \notin HeadsOf(a)
      <4>1. life'[w] = life[w]
        BY <3>1, <3>3, <1>1, <1>4
      <4> QED
        BY <4>1, <3>1, <2>1 DEF LastState, Current
    <3> QED
      BY <3>2, <3>3
  <2>2. DOMAIN versions' \subseteq Existing \cup {seq + 1}
    OBVIOUS
  <2> QED
    BY <2>1, <2>2, <1>4, SuccessorsKept
<1>8. LivesKept'
  BY <1>1, <1>4 DEF LivesKept, Existing, Lives
<1>9. IsRows(heads', Assertions, SUBSET Ids)
  <2>1. {v} \in SUBSET Ids
    BY <1>1, LedgerAssumption DEF Ids
  <2> QED
    BY <2>1, WithHeadFacts DEF Activate
<1>13. Extends(life', life)
  BY <1>3 DEF Activated
<1> QED
  BY <1>13, <1>4, <1>5, <1>6, <1>7, <1>8, <1>9

LEMMA CommitVersionKept ==
    ASSUME LedgerInv, seq < MaxSeq, NEW op \in {"Commit", "Correct", "Propose"},
           NEW state \in {"Active", "Proposed", "Quarantined"}, NEW p \in Proofs, NEW key \in Ids,
           NEW d \in Drafts, NEW f \in Derivations, CommitVersion(op, state, p, key, d, f)
    PROVE  LedgerInv' /\ Forward
<1> USE DEF LedgerInv, LedgerConsistent
<1> DEFINE a == d.assertion
           hs == HeadsOf(a)
<1>1. /\ ~Recorded(op, key) /\ Importable(d.scope, d.sources) /\ PassesFirewall(d, state)
      /\ state = "Active" => Outranks(d.rank, a)
      /\ AppendMutation(op, a, hs, {seq + 1}, key) /\ RecordVersion(d, f)
      /\ state = "Active" => Activate(seq + 1, a)
      /\ state # "Active" => StoreBeside(seq + 1, a, state)
      /\ UNCHANGED <<observations, reinforcements, snapshots, plans, deletions>>
  BY DEF CommitVersion
<1>2. d \in DraftSet /\ a \in Assertions /\ d.sources \subseteq Sources
  BY LedgerAssumption DEF DraftSet
<1>3. hs \in SUBSET Ids /\ seq + 1 \notin hs
  BY HeadsOfType
<1>4. seq + 1 \in Ids /\ seq \in Nat
  BY LedgerAssumption DEF LedgerTypeOK, Ids
<1>5. Logged(op, hs, {seq + 1}, key) /\ seq' = seq + 1
  <2>1. op \in Operations /\ {seq + 1} \in SUBSET Ids /\ a \in Assertions \cup {None}
    BY <1>2, <1>4 DEF Operations
  <2> HIDE DEF a, hs
  <2>2. Logged(op, hs, {seq + 1}, key)
    BY <2>1, <1>1, <1>3, LogGrows
  <2> QED
    BY <2>2 DEF Logged
<1>6. NewVersion(d, f, hs) /\ f[1] \subseteq Existing
  BY <1>1, <1>4, RecordVersionFacts
<1>7. seq + 1 \notin Existing /\ seq + 1 \notin DOMAIN observations /\ seq + 1 \notin DOMAIN reinforcements
  BY <1>4, KnownRowsFact DEF KnownRows
<1>8. RowAdded(d.sources, d.scope)
  <2>1. evidence' = evidence \cup [owner : {seq + 1}, source : d.sources]
    BY <1>1 DEF RecordVersion
  <2> QED
    BY <2>1, <1>1, <1>2, <1>6, <1>7 DEF RowAdded, NewVersion
<1>9. /\ HeadsAgree' /\ FlaggedNeverActive' /\ SupersededHasSuccessor' /\ LivesKept'
      /\ IsRows(heads', Assertions, SUBSET Ids) /\ Lives(life', seq + 1)
      /\ Extends(life', life)
  <2>1. CASE state # "Active"
    BY <2>1, <1>1, <1>4, <1>5, <1>6, BesideKept
  <2>2. CASE state = "Active"
    <3>1. Activate(seq + 1, a) /\ ~d.flagged
      BY <2>2, <1>1 DEF PassesFirewall
    <3>2. \A w \in hs : d.rank >= versions[w].draft.rank
      BY <2>2, <1>1 DEF Outranks
    <3>3. /\ DOMAIN versions' = Existing \cup {seq + 1} /\ \A w \in Existing : versions'[w] = versions[w]
          /\ versions'[seq + 1].draft = d /\ versions'[seq + 1].parents = hs
          /\ assertions' = assertions \cup {a}
      BY <1>6 DEF NewVersion
    <3>4. seq + 1 \in 1..(seq + 1)
      BY <1>4
    <3> HIDE DEF hs
    <3>5. hs = HeadsOf(a)
      BY DEF hs
    <3>6. versions'[seq + 1].draft.assertion = a
      BY <3>3
    <3> HIDE DEF a
    <3> QED
      <4>1. Activation(seq + 1, a)
        BY <3>1, <3>2, <3>3, <3>4, <3>5, <3>6, <1>2, <1>3, <1>4 DEF Activation
      <4> QED
        BY <4>1, <3>5, <1>4, <1>5, ActivatedKept
  <2> QED
    BY <2>1, <2>2
<1>10. LedgerTypeOK'
  <2>1. evidence' \subseteq EvidenceRecords
    BY <1>4, <1>8, AddedEvidence DEF LedgerTypeOK
  <2>2. IsRows(versions', 1..seq', Versions) /\ assertions' \subseteq Assertions
    BY <1>5, <1>6 DEF NewVersion
  <2>3. \A v \in DOMAIN life' : v \in 1..seq' /\ life'[v] \in Seq(Transitions)
    BY <1>5, <1>9 DEF Lives
  <2> QED
    BY <2>1, <2>2, <2>3, <1>1, <1>5, <1>9, TypeKept DEF LedgerTypeOK
<1>11. /\ ViewsComplete' /\ DeletionFinal' /\ OneMutationPerKey'
       /\ RowsApart' /\ OwnersKnown' /\ PlansCurrent' /\ DeletedGone'
  BY <1>1, <1>5, <1>8, AddedKept
<1>12. Forward
  BY <1>6, <1>9 DEF Forward, NewVersion
<1> QED
  BY <1>12, <1>9, <1>10, <1>11

(* A step that writes no row but the heads and the histories.              *)
LEMMA RowsKept ==
    ASSUME LedgerInv, UNCHANGED <<versions, evidence, observations, reinforcements, snapshots, plans, deletions>>,
           NEW op, NEW in, NEW out, NEW key, ~Recorded(op, key), Logged(op, in, out, key)
    PROVE  /\ ViewsComplete' /\ DeletionFinal' /\ OneMutationPerKey'
           /\ RowsApart' /\ OwnersKnown' /\ PlansCurrent' /\ DeletedGone'
<1> USE DEF LedgerInv, LedgerConsistent
<1>1. seq \in Nat /\ seq' = seq + 1 /\ plans \subseteq Plans
  BY DEF Logged, LedgerTypeOK
<1>2. 1..seq \subseteq 1..seq'
  BY <1>1
<1>3. ViewsComplete'
  BY DEF ViewsComplete, EvidenceOf, Existing
<1>4. DeletionFinal'
  BY FinalIff
<1>5. OneMutationPerKey'
  BY OnePerKeyKept
<1>6. RowsApart'
  BY DEF RowsApart, Existing
<1>7. OwnersKnown'
  BY <1>2 DEF OwnersKnown
<1>8. PlansCurrent'
  BY <1>1, PlansOvertaken
<1>9. DeletedGone'
  BY <1>2 DEF DeletedGone, Existing
<1> QED
  BY <1>3, <1>4, <1>5, <1>6, <1>7, <1>8, <1>9

LEMMA CommitProposalKept ==
    ASSUME LedgerInv, seq < MaxSeq, NEW p \in Proofs, NEW key \in Ids, NEW v, CommitProposal(p, key, v)
    PROVE  LedgerInv' /\ Forward
<1> USE DEF LedgerInv, LedgerConsistent
<1> DEFINE a == AssertionOf(v)
           hs == HeadsOf(a)
<1>1. /\ ~Recorded("Commit", key) /\ v \in Existing /\ Current(v) = "Proposed"
      /\ versions[v].parents = hs /\ ~versions[v].draft.flagged /\ Outranks(versions[v].draft.rank, a)
      /\ AppendMutation("Commit", a, hs, {v}, key) /\ Activate(v, a)
      /\ UNCHANGED <<assertions, versions, evidence, observations, reinforcements, snapshots, plans, deletions>>
  BY DEF CommitProposal, Committable, HeadsOf
<1>2. /\ versions[v] \in Versions /\ v \in 1..seq /\ seq \in Nat /\ seq <= MaxSeq /\ MaxSeq \in Nat
      /\ a \in assertions
  BY <1>1, LedgerAssumption DEF LedgerTypeOK, IsRows, Existing, HeadsAgree
<1>3. v \in Ids /\ a \in Assertions /\ seq + 1 \in Ids
  BY <1>2 DEF Ids, LedgerTypeOK
<1>4. hs \in SUBSET Ids /\ v \notin hs
  BY <1>1, HeadsOfType, HeadsOfFacts
<1>5. Logged("Commit", hs, {v}, key)
  <2>1. "Commit" \in Operations /\ {v} \in SUBSET Ids /\ a \in Assertions \cup {None}
    BY <1>3 DEF Operations
  <2> HIDE DEF a, hs
  <2> QED
    BY <2>1, <1>1, <1>4, LogGrows
<1>6. seq' = seq + 1
  BY <1>5 DEF Logged
<1>7. /\ HeadsAgree' /\ FlaggedNeverActive' /\ SupersededHasSuccessor' /\ LivesKept'
      /\ IsRows(heads', Assertions, SUBSET Ids) /\ Lives(life', seq + 1)
      /\ Extends(life', life)
  <2>1. /\ DOMAIN versions' = Existing \cup {v} /\ \A w \in Existing : versions'[w] = versions[w]
        /\ versions'[v].draft.assertion = a /\ ~versions'[v].draft.flagged /\ versions'[v].parents = hs
        /\ \A w \in hs : versions'[v].draft.rank >= versions[w].draft.rank
    BY <1>1 DEF Existing, AssertionOf, Outranks
  <2>2. assertions' = assertions \cup {a} /\ v \in 1..(seq + 1) /\ v \in Existing \cup {seq + 1}
    BY <1>1, <1>2
  <2>3. hs = HeadsOf(a)
    OBVIOUS
  <2> HIDE DEF a, hs
  <2> QED
    <3>1. Activation(v, a)
      BY <2>1, <2>2, <2>3, <1>1, <1>3, <1>4 DEF Activation
    <3> QED
      BY <3>1, <2>3, <1>3, <1>5, ActivatedKept
<1>8. LedgerTypeOK'
  <2>1. \A w \in DOMAIN life' : w \in 1..seq' /\ life'[w] \in Seq(Transitions)
    BY <1>6, <1>7 DEF Lives
  <2> QED
    BY <2>1, <1>1, <1>5, <1>7, TypeKept DEF LedgerTypeOK
<1>9. /\ ViewsComplete' /\ DeletionFinal' /\ OneMutationPerKey'
      /\ RowsApart' /\ OwnersKnown' /\ PlansCurrent' /\ DeletedGone'
  BY <1>1, <1>5, RowsKept
<1>10. Forward
  BY <1>1, <1>7 DEF Forward, Existing
<1> QED
  BY <1>10, <1>7, <1>8, <1>9

LEMMA TransitionInactiveKept ==
    ASSUME LedgerInv, seq < MaxSeq, NEW op \in {"Forget", "Retract"}, NEW state \in {"Tombstoned", "Retracted"},
           NEW p \in Proofs, NEW key \in Ids, NEW a, NEW targets,
           TransitionInactive(op, state, p, key, a, targets)
    PROVE  LedgerInv' /\ Forward
<1> USE DEF LedgerInv, LedgerConsistent
<1>1. /\ ~Recorded(op, key) /\ a \in assertions /\ a \in DOMAIN heads /\ targets \subseteq heads[a]
      /\ \A v \in targets : v \in Existing /\ AssertionOf(v) = a
      /\ AppendMutation(op, a, targets, {}, key)
      /\ heads' = WithHead(a, heads[a] \ targets) /\ life' = Moved(life, targets, state)
      /\ UNCHANGED <<assertions, versions, evidence, observations, reinforcements, snapshots, plans, deletions>>
  BY DEF TransitionInactive, Deactivatable
<1>2. /\ HeadsOf(a) = heads[a] /\ HeadsOf(a) \in SUBSET Ids /\ targets \in SUBSET Ids
      /\ HeadsOf(a) \ targets \in SUBSET Ids
      /\ targets \subseteq DOMAIN life /\ a \in Assertions
  BY <1>1, HeadsOfType DEF HeadsOf, LedgerTypeOK
<1>3. Logged(op, targets, {}, key)
  <2>1. op \in Operations /\ {} \in SUBSET Ids /\ a \in Assertions \cup {None}
    BY <1>2 DEF Operations
  <2> QED
    BY <2>1, <1>1, <1>2, LogGrows
<1>4. seq \in Nat /\ seq' = seq + 1 /\ seq + 1 \in Ids
  BY <1>3 DEF Logged
<1>5. Lives(life, seq) /\ Existing \subseteq DOMAIN life /\ Existing \subseteq 1..seq
  BY LivesFact
<1>6. Lives(life, seq + 1) /\ targets \subseteq 1..(seq + 1) /\ state \in States
  BY <1>1, <1>4, <1>5 DEF Lives, States
<1>7. IsMoved(life', life, targets, state)
  BY <1>1, <1>4, <1>6, MovedFacts
<1>8. /\ DOMAIN life' = DOMAIN life /\ Lives(life', seq + 1)
      /\ \A w \in targets : LastState(life', w) = state
      /\ \A w \in DOMAIN life \ targets : life'[w] = life[w]
  BY <1>2, <1>7 DEF IsMoved
<1>9. /\ DOMAIN heads' = DOMAIN heads \cup {a} /\ heads'[a] = HeadsOf(a) \ targets
      /\ \A b \in DOMAIN heads \ {a} : heads'[b] = heads[b]
      /\ IsRows(heads', Assertions, SUBSET Ids)
  BY <1>1, <1>2, WithHeadFacts
<1>10. HeadsAgree'
  <2>1. HeadLoses(a, targets)
    <3>1. /\ DOMAIN heads' = DOMAIN heads \cup {a} /\ heads'[a] = HeadsOf(a) \ targets
          /\ \A b \in DOMAIN heads \ {a} : heads'[b] = heads[b]
      BY <1>9
    <3>2. assertions' = assertions \cup {a}
      BY <1>1
    <3>3. /\ Existing \subseteq DOMAIN versions' /\ \A w \in Existing : versions'[w] = versions[w]
          /\ \A w \in DOMAIN versions' \ Existing : w \in targets /\ versions'[w].draft.assertion = a
      BY <1>1 DEF Existing
    <3>4. \A w \in targets : LastState(life', w) # "Active"
      BY <1>8
    <3>5. \A w \in targets \cap Existing : AssertionOf(w) = a
      BY <1>1
    <3>6. \A w \in Existing \ targets : life'[w] = life[w]
      BY <1>5, <1>8
    <3> QED
      BY <3>1, <3>2, <3>3, <3>4, <3>5, <3>6 DEF HeadLoses
  <2> QED
    BY <2>1, DeactivateHeads
<1>11. FlaggedNeverActive'
  <2>1. ASSUME NEW w \in Existing, Never(life, w) PROVE Never(life', w)
    <3>1. w \in DOMAIN life \cup targets /\ (w \in targets => state # "Active")
      BY <1>5
    <3> QED
      BY <2>1, <3>1, <1>4, <1>6, <1>7, NeverKept
  <2> QED
    BY <2>1, <1>1, FlaggedKept DEF Existing
<1>12. SupersededHasSuccessor'
  <2>1. \A w \in DOMAIN versions' : LastState(life', w) = "Superseded" => w \in Existing /\ Current(w) = "Superseded"
    <3>1. SUFFICES ASSUME NEW w \in Existing, LastState(life', w) = "Superseded" PROVE Current(w) = "Superseded"
      BY <1>1 DEF Existing
    <3>2. w \notin targets
      BY <3>1, <1>8
    <3>3. life'[w] = life[w]
      BY <3>2, <1>5, <1>8
    <3> QED
      BY <3>1, <3>3 DEF LastState, Current
  <2>2. DOMAIN life \subseteq DOMAIN life' /\ DOMAIN versions' \subseteq Existing \cup {seq + 1}
        /\ \A w \in Existing \cap DOMAIN versions' : versions'[w] = versions[w]
    BY <1>1, <1>8 DEF Existing
  <2> QED
    BY <2>1, <2>2, <1>3, SuccessorsKept
<1>13. LivesKept'
  BY <1>1, <1>5, <1>8 DEF LivesKept, Existing, Lives
<1>14. LedgerTypeOK'
  <2>1. \A w \in DOMAIN life' : w \in 1..seq' /\ life'[w] \in Seq(Transitions)
    BY <1>4, <1>8 DEF Lives
  <2> QED
    BY <2>1, <1>1, <1>3, <1>9, TypeKept DEF LedgerTypeOK
<1>15. /\ ViewsComplete' /\ DeletionFinal' /\ OneMutationPerKey'
       /\ RowsApart' /\ OwnersKnown' /\ PlansCurrent' /\ DeletedGone'
  BY <1>1, <1>3, RowsKept
<1>16. Forward
  BY <1>1, <1>7 DEF Forward, Existing, IsMoved
<1> QED
  BY <1>16, <1>10, <1>11, <1>12, <1>13, <1>14, <1>15

LEMMA PlanExactNow ==
    ASSUME NEW sel, NEW p
    PROVE  PlanExact(PlanFor(sel, p)) /\ PlanFor(sel, p).at = seq
<1> DEFINE plan == PlanFor(sel, p)
<1>1. /\ plan.selector = sel /\ plan.proof = p /\ plan.at = seq
      /\ plan.versions = AffectedVersions(sel, p)
      /\ plan.observations = AffectedObservations(sel, p)
      /\ plan.reinforcements = UNION {ReinforcedBy(v) : v \in AffectedVersions(sel, p)}
      /\ plan.evidence = OwnEvidence(sel, {v \in AffectedVersions(sel, p) : DirectlyAffected(sel, v)})
                         \cup EvidenceOf(AffectedObservations(sel, p)
                                         \cup UNION {ReinforcedBy(v) : v \in AffectedVersions(sel, p)})
  BY DEF PlanFor
<1> HIDE DEF plan
<1>2. \A S : \A e \in EvidenceOf(S) : e.owner \in S
  BY DEF EvidenceOf
<1>3. \A S : OwnEvidence(sel, S) \subseteq EvidenceOf(S)
  BY DEF OwnEvidence
<1>4. \A e \in plan.evidence : e.owner \in plan.versions \cup plan.observations \cup plan.reinforcements
  <2>1. SUFFICES ASSUME NEW e \in plan.evidence
                 PROVE  e.owner \in plan.versions \cup plan.observations \cup plan.reinforcements
    OBVIOUS
  <2>2. CASE e \in OwnEvidence(sel, {v \in AffectedVersions(sel, p) : DirectlyAffected(sel, v)})
    <3>1. e.owner \in {v \in AffectedVersions(sel, p) : DirectlyAffected(sel, v)}
      BY <2>2, <1>2, <1>3
    <3> QED
      BY <3>1, <1>1
  <2>3. CASE e \in EvidenceOf(plan.observations \cup plan.reinforcements)
    BY <2>3, <1>2
  <2> QED
    BY <2>2, <2>3, <1>1
<1> QED
  BY <1>1, <1>4 DEF PlanExact, plan

LEMMA PlanForType ==
    ASSUME LedgerTypeOK, NEW sel \in Selectors, NEW p \in Proofs
    PROVE  PlanFor(sel, p) \in Plans
<1>1. seq \in 0..MaxSeq /\ 1..seq \subseteq Ids
  BY LedgerAssumption DEF LedgerTypeOK, Ids
<1>2. Existing \subseteq 1..seq /\ DOMAIN observations \subseteq 1..seq /\ DOMAIN reinforcements \subseteq 1..seq
  BY DEF LedgerTypeOK, IsRows, Existing
<1> DEFINE vs == AffectedVersions(sel, p)
           os == AffectedObservations(sel, p)
           rs == UNION {ReinforcedBy(v) : v \in vs}
           ev == OwnEvidence(sel, {v \in vs : DirectlyAffected(sel, v)}) \cup EvidenceOf(os \cup rs)
           ss == {s.id : s \in {t \in snapshots : t.results \cap vs # {}}}
<1>3. vs \in SUBSET Ids
  BY <1>1, <1>2, AffectedClosed
<1>4. os \in SUBSET Ids
  BY <1>1, <1>2 DEF AffectedObservations
<1>5. rs \in SUBSET Ids
  BY <1>1, <1>2 DEF ReinforcedBy
<1>6. ev \in SUBSET EvidenceRecords
  BY DEF LedgerTypeOK, EvidenceOf, OwnEvidence
<1>7. ss \in SUBSET Nat
  BY DEF LedgerTypeOK, Snapshots
<1>8. PlanFor(sel, p) = [selector |-> sel, proof |-> p, at |-> seq, versions |-> vs, evidence |-> ev,
                         observations |-> os, reinforcements |-> rs, snapshots |-> ss]
  BY DEF PlanFor
<1> HIDE DEF vs, os, rs, ev, ss
<1> QED
  BY <1>1, <1>3, <1>4, <1>5, <1>6, <1>7, <1>8 DEF Plans

(* Everything but the plans.                                               *)
LEMMA PlanExactStable ==
    ASSUME UNCHANGED <<seq, rows>>, NEW plan, PlanExact(plan)
    PROVE  PlanExact(plan)'
<1>1. UNCHANGED <<assertions, heads, versions, evidence, observations, reinforcements>>
  BY DEF rows
<1>2. \A v : ReinforcedBy(v)' = ReinforcedBy(v)
  BY <1>1 DEF ReinforcedBy
<1>3. AffectedObservations(plan.selector, plan.proof)' = AffectedObservations(plan.selector, plan.proof)
  BY <1>1 DEF AffectedObservations, Matches
<1>4. \A v : DirectlyAffected(plan.selector, v)' <=> DirectlyAffected(plan.selector, v)
  BY <1>1, DirectIff
<1>5. \A S : Closed(S, plan.selector, plan.proof)' <=> Closed(S, plan.selector, plan.proof)
  BY <1>1, <1>3, <1>4 DEF Closed, Existing, ScopeOf
<1>6. AffectedVersions(plan.selector, plan.proof)' = AffectedVersions(plan.selector, plan.proof)
  BY <1>1, <1>5 DEF AffectedVersions, Existing
<1> QED
  BY <1>2, <1>3, <1>6 DEF PlanExact

LEMMA LedgerStable ==
    ASSUME LedgerInv, UNCHANGED <<seq, log, rows, life, snapshots, deletions>>
    PROVE  /\ HeadsAgree' /\ DeletionFinal' /\ ViewsComplete' /\ FlaggedNeverActive'
           /\ SupersededHasSuccessor' /\ OneMutationPerKey'
           /\ LivesKept' /\ RowsApart' /\ OwnersKnown' /\ DeletedGone'
           /\ plans' \subseteq Plans => LedgerTypeOK'
<1> USE DEF LedgerInv, LedgerConsistent
<1>1. UNCHANGED <<seq, log, life, snapshots, deletions, assertions, heads, versions, evidence, observations, reinforcements>>
  BY DEF rows
<1>2. HeadsAgree' /\ FlaggedNeverActive' /\ SupersededHasSuccessor' /\ OneMutationPerKey' /\ LivesKept'
  BY <1>1 DEF HeadsAgree, FlaggedNeverActive, SupersededHasSuccessor, OneMutationPerKey, LivesKept,
              Existing, AssertionOf, Current
<1>3. DeletionFinal'
  BY <1>1, FinalIff
<1>4. ViewsComplete'
  BY <1>1 DEF ViewsComplete, EvidenceOf, Existing
<1>5. RowsApart' /\ OwnersKnown' /\ DeletedGone'
  BY <1>1 DEF RowsApart, OwnersKnown, DeletedGone, Existing
<1>6. plans' \subseteq Plans => LedgerTypeOK'
  BY <1>1 DEF LedgerTypeOK, IsRows
<1> QED
  BY <1>2, <1>3, <1>4, <1>5, <1>6

LEMMA PlanDeletionKept ==
    ASSUME LedgerInv, NEW sel \in Selectors, NEW p \in Proofs, PlanDeletion(sel, p)
    PROVE  LedgerInv' /\ Forward
<1>1. UNCHANGED <<seq, log, rows, life, snapshots, deletions>> /\ plans' = plans \cup {PlanFor(sel, p)}
  BY DEF PlanDeletion
<1>2. plans' \subseteq Plans
  BY <1>1, PlanForType DEF LedgerInv, LedgerConsistent, LedgerTypeOK
<1>3. PlansCurrent'
  <2>1. SUFFICES ASSUME NEW plan \in plans' PROVE plan.at <= seq /\ (plan.at = seq => PlanExact(plan)')
    BY <1>1 DEF PlansCurrent
  <2>2. plan.at <= seq /\ (plan.at = seq => PlanExact(plan))
    <3>1. CASE plan \in plans
      BY <3>1 DEF LedgerInv, PlansCurrent
    <3>2. CASE plan = PlanFor(sel, p)
      BY <3>2, PlanExactNow, LedgerAssumption DEF LedgerInv, LedgerConsistent, LedgerTypeOK
    <3> QED
      BY <3>1, <3>2, <1>1
  <2> QED
    BY <2>2, <1>1, PlanExactStable
<1>4. Forward
  BY <1>1, StillForward DEF rows
<1> QED
  BY <1>4, <1>1, <1>2, <1>3, LedgerStable DEF LedgerInv, LedgerConsistent

LEMMA ExecuteDeletionKept ==
    ASSUME LedgerInv, seq < MaxSeq, NEW p \in Proofs, NEW key \in Ids, NEW plan, ExecuteDeletion(p, key, plan)
    PROVE  LedgerInv' /\ Forward
<1> USE DEF LedgerInv, LedgerConsistent
<1> DEFINE gone == plan.versions
<1>1. /\ ~Recorded("RetentionDelete", key) /\ plan \in plans /\ plan.proof = p /\ plan.at = seq
      /\ AppendMutation("RetentionDelete", None, gone, {}, key)
      /\ RemoveVersions(gone) /\ RemoveRecords(plan) /\ plans' = plans \ {plan}
      /\ deletions' = deletions \cup
             {[selector |-> plan.selector, proof |-> p, at |-> seq + 1, versions |-> gone]}
  BY DEF ExecuteDeletion, Executable, Fresh
<1>2. Removal(plan)
  BY <1>1 DEF PlansCurrent, Removal
<1>3. plan \in Plans
  BY <1>1 DEF LedgerTypeOK
<1>4. plan.selector \in Selectors /\ plan.proof \subseteq Scopes /\ gone \in SUBSET Ids
  BY <1>3, LedgerAssumption DEF Plans
<1>5. Logged("RetentionDelete", gone, {}, key)
  <2>1. "RetentionDelete" \in Operations /\ {} \in SUBSET Ids /\ None \in Assertions \cup {None}
    BY DEF Operations
  <2> HIDE DEF gone
  <2> QED
    BY <2>1, <1>1, <1>4, LogGrows
<1>6. seq \in Nat /\ seq' = seq + 1 /\ seq + 1 \in Ids /\ plans \subseteq Plans
  BY <1>5 DEF Logged, LedgerTypeOK
<1>7. HeadsAgree'
  BY <1>2, <1>6, RemovalHeads
<1>8. DeletionFinal' /\ ViewsComplete'
  BY <1>2, RemovalFinal, RemovalViews
<1>9. RowsApart' /\ OwnersKnown' /\ DeletedGone'
  BY <1>2, <1>4, <1>6, KnownRowsFact, RemovalApart
<1>10. OneMutationPerKey'
  BY <1>1, <1>5, OnePerKeyKept
<1>11. PlansCurrent'
  BY <1>1, <1>6, PlansOvertaken
<1>12. /\ gone \subseteq Existing /\ DOMAIN versions' = Existing \ gone
       /\ \A v \in DOMAIN versions' : versions'[v] = versions[v]
       /\ DOMAIN observations' \subseteq DOMAIN observations
       /\ \A o \in DOMAIN observations' : observations'[o] = observations[o]
       /\ DOMAIN reinforcements' \subseteq DOMAIN reinforcements
       /\ \A r \in DOMAIN reinforcements' : reinforcements'[r] = reinforcements[r]
       /\ evidence' \subseteq evidence
  BY <1>2, RemovalRows
<1>13. Lives(life, seq) /\ Existing \subseteq DOMAIN life /\ Existing \subseteq 1..seq
  BY LivesFact
<1>14. IsMoved(life', life, gone, "Tombstoned")
  <2>1. Lives(life, seq + 1) /\ gone \subseteq 1..(seq + 1) /\ "Tombstoned" \in States
    BY <1>6, <1>12, <1>13 DEF Lives, States
  <2>2. life' = Moved(life, gone, "Tombstoned")
    BY <1>1 DEF RemoveVersions
  <2> QED
    BY <2>1, <2>2, <1>6, MovedFacts
<1>15. /\ DOMAIN life' = DOMAIN life /\ Lives(life', seq + 1)
       /\ \A w \in DOMAIN life \ gone : life'[w] = life[w]
  BY <1>12, <1>13, <1>14 DEF IsMoved
<1>16. LivesKept'
  BY <1>12, <1>13, <1>15 DEF LivesKept, Existing, Lives
<1>17. \A v \in DOMAIN versions' : v \in Existing /\ life'[v] = life[v] /\ versions'[v] = versions[v]
  BY <1>12, <1>13, <1>15
<1>18. FlaggedNeverActive'
  BY <1>17, FlaggedKept DEF Never
<1>19. SupersededHasSuccessor'
  <2>1. \A v \in DOMAIN versions' : LastState(life', v) = "Superseded" => v \in Existing /\ Current(v) = "Superseded"
    BY <1>17 DEF LastState, Current
  <2>2. DOMAIN life \subseteq DOMAIN life' /\ DOMAIN versions' \subseteq Existing \cup {seq + 1}
        /\ \A w \in Existing \cap DOMAIN versions' : versions'[w] = versions[w]
    BY <1>12, <1>15
  <2> QED
    BY <2>1, <2>2, <1>5, SuccessorsKept
<1>20. LedgerTypeOK'
  <2>1. 1..seq \subseteq 1..seq'
    BY <1>6
  <2>2. /\ assertions' \subseteq assertions
        /\ DOMAIN heads' \subseteq DOMAIN heads /\ \A a \in DOMAIN heads' : heads'[a] = heads[a] \ gone
        /\ snapshots' \subseteq snapshots
    BY <1>1 DEF RemoveVersions, RemoveRecords
  <2>3. assertions' \subseteq Assertions /\ IsRows(heads', Assertions, SUBSET Ids)
    BY <2>2 DEF LedgerTypeOK, IsRows
  <2>4. IsRows(versions', 1..seq', Versions) /\ IsRows(observations', 1..seq', Observations)
        /\ IsRows(reinforcements', 1..seq', Reinforcements)
    BY <2>1, <1>12 DEF LedgerTypeOK, IsRows, Existing
  <2>5. \A w \in DOMAIN life' : w \in 1..seq' /\ life'[w] \in Seq(Transitions)
    BY <1>6, <1>15 DEF Lives
  <2>6. evidence' \subseteq EvidenceRecords /\ snapshots' \subseteq Snapshots /\ plans' \subseteq Plans
    BY <2>2, <1>1, <1>12 DEF LedgerTypeOK
  <2> QED
    BY <2>3, <2>4, <2>5, <2>6, <1>5, TypeKept DEF LedgerTypeOK
<1>21. Forward
  BY <1>12, <1>14 DEF Forward, IsMoved
<1> QED
  BY <1>21, <1>7, <1>8, <1>9, <1>10, <1>11, <1>16, <1>18, <1>19, <1>20

-----------------------------------------------------------------------------
(* Theorems.                                                               *)

LEMMA LedgerInitInv == LedgerInit => LedgerInv
<1> SUFFICES ASSUME LedgerInit PROVE LedgerInv
  OBVIOUS
<1> USE DEF LedgerInit, NoRows
<1>1. DOMAIN heads = {} /\ DOMAIN versions = {} /\ DOMAIN life = {} /\ DOMAIN observations = {}
      /\ DOMAIN reinforcements = {} /\ DOMAIN log = {}
  OBVIOUS
<1>2. LedgerTypeOK
  <2>1. log \in Seq(Mutations) /\ Len(log) = 0 /\ seq \in 0..MaxSeq
    BY LedgerAssumption
  <2> QED
    BY <2>1, <1>1 DEF LedgerTypeOK, IsRows
<1>3. HeadsAgree /\ DeletionFinal /\ ViewsComplete /\ FlaggedNeverActive /\ SupersededHasSuccessor /\ OneMutationPerKey
  BY <1>1 DEF HeadsAgree, DeletionFinal, ViewsComplete, FlaggedNeverActive, SupersededHasSuccessor,
              OneMutationPerKey, Existing
<1>4. LivesKept /\ RowsApart /\ OwnersKnown /\ PlansCurrent /\ DeletedGone
  BY <1>1 DEF LivesKept, RowsApart, OwnersKnown, PlansCurrent, DeletedGone, Existing
<1> QED
  BY <1>2, <1>3, <1>4 DEF LedgerInv, LedgerConsistent

LEMMA OperationKept ==
    ASSUME LedgerInv, seq < MaxSeq, NEW p \in Proofs, LedgerOperation(p)
    PROVE  LedgerInv' /\ Forward
<1>1. LedgerTypeOK /\ p \subseteq Scopes
  BY LedgerAssumption DEF LedgerInv, LedgerConsistent
<1>2. CASE \E k \in Keys("Observe"), s \in p, e \in Sources : Observe(p, k, s, e)
  BY <1>1, <1>2, KeysAreIds, ObserveKept
<1>3. CASE \E k \in Keys("Commit"), d \in Drafts : Remember(p, k, d)
  BY <1>1, <1>3, KeysAreIds, CommitVersionKept DEF Remember
<1>4. CASE \E k \in Keys("Correct"), d \in Drafts : Correct(p, k, d)
  BY <1>1, <1>4, KeysAreIds, CommitVersionKept DEF Correct
<1>5. CASE \E k \in Keys("Propose"), d \in Drafts, q \in BOOLEAN : Propose(p, k, d, q)
  BY <1>1, <1>5, KeysAreIds, CommitVersionKept DEF Propose
<1>6. CASE \E k \in Keys("Commit"), v \in Existing : CommitProposal(p, k, v)
  BY <1>1, <1>6, KeysAreIds, CommitProposalKept
<1>7. CASE \E k \in Keys("Reinforce"), v \in Existing, e \in Sources : Reinforce(p, k, v, e)
  BY <1>1, <1>7, KeysAreIds, ReinforceKept
<1>8. CASE \E k \in Keys("Forget"), a \in assertions : Forget(p, k, a, HeadsOf(a))
  <2>1. PICK k \in Keys("Forget"), a \in assertions : TransitionInactive("Forget", "Tombstoned", p, k, a, HeadsOf(a))
    BY <1>8 DEF Forget
  <2>2. PICK vs : vs = HeadsOf(a)
    OBVIOUS
  <2> QED
    BY <2>1, <2>2, <1>1, KeysAreIds, TransitionInactiveKept
<1>9. CASE \E k \in Keys("Retract"), a \in assertions : Retract(p, k, a, HeadsOf(a))
  <2>1. PICK k \in Keys("Retract"), a \in assertions : TransitionInactive("Retract", "Retracted", p, k, a, HeadsOf(a))
    BY <1>9 DEF Retract
  <2>2. PICK vs : vs = HeadsOf(a)
    OBVIOUS
  <2> QED
    BY <2>1, <2>2, <1>1, KeysAreIds, TransitionInactiveKept
<1>10. CASE \E s \in Selectors : PlanDeletion(s, p)
  BY <1>10, PlanDeletionKept
<1>11. CASE \E k \in Keys("RetentionDelete"), plan \in plans : ExecuteDeletion(p, k, plan)
  BY <1>1, <1>11, KeysAreIds, ExecuteDeletionKept
<1> QED
  BY <1>2, <1>3, <1>4, <1>5, <1>6, <1>7, <1>8, <1>9, <1>10, <1>11 DEF LedgerOperation

LEMMA LedgerNextInv == LedgerInv /\ [LedgerNext]_ledgerVars => LedgerInv'
<1> SUFFICES ASSUME LedgerInv, [LedgerNext]_ledgerVars PROVE LedgerInv'
  OBVIOUS
<1>1. CASE LedgerNext
  BY <1>1, OperationKept DEF LedgerNext
<1>2. CASE UNCHANGED ledgerVars
  <2>1. UNCHANGED <<seq, log, rows, life, snapshots, deletions>> /\ UNCHANGED plans
    BY <1>2 DEF ledgerVars
  <2>2. plans' \subseteq Plans
    BY <2>1 DEF LedgerInv, LedgerConsistent, LedgerTypeOK
  <2>3. PlansCurrent'
    BY <2>1, PlanExactStable DEF LedgerInv, PlansCurrent
  <2> QED
    BY <2>1, <2>2, <2>3, LedgerStable DEF LedgerInv, LedgerConsistent
<1> QED
  BY <1>1, <1>2

(* The rows of the ledger tell one history after every sequence of         *)
(* commits, proposals, observations, reinforcements, corrections,          *)
(* withdrawals and retention deletions: heads are the active versions,     *)
(* what was deleted stays deleted, no version that exists lost a row of    *)
(* its view, a flagged candidate was never active, and a request that is   *)
(* sent again commits once.                                                *)
THEOREM LedgerAlwaysConsistent == LedgerSpec => []LedgerConsistent
<1>1. LedgerInv => LedgerConsistent
  BY DEF LedgerInv
<1> QED
  BY <1>1, LedgerInitInv, LedgerNextInv, PTL DEF LedgerSpec

LEMMA PositionsHaveGreatest ==
    ASSUME NEW L \in Nat, NEW S, S \subseteq 1..L, S # {}
    PROVE  \E n \in S : \A k \in S : k <= n
<1> DEFINE T == {L - i : i \in S}
<1>1. T \subseteq Nat /\ T # {}
  <2>1. \A i \in S : L - i \in Nat
    OBVIOUS
  <2> QED
    BY <2>1
<1>2. PICK t \in T : ~ \E k \in T : <<k, t>> \in OpToRel(<, Nat)
  <2> HIDE DEF T
  <2> QED
    BY <1>1, WFMin, NatLessThanWellFounded, Zenon
<1>3. \A k \in T : ~ (k < t)
  <2> HIDE DEF T
  <2> QED
    BY <1>1, <1>2, Zenon DEF OpToRel
<1>4. PICK n \in S : t = L - n
  OBVIOUS
<1>5. ASSUME NEW k \in S PROVE k <= n
  <2>1. ~ (L - k < L - n)
    BY <1>3, <1>4
  <2> QED
    BY <2>1
<1> QED
  BY <1>5

(* The past of a history does not depend on what is added to it later.     *)
LEMMA LifecycleAtKept ==
    ASSUME Lives(life, seq), seq \in Nat, Extends(life', life), NEW v \in DOMAIN life, NEW n \in 0..seq,
           life'[v] \in Seq(Transitions)
    PROVE  LifecycleAt(v, n)' = LifecycleAt(v, n)
<1> DEFINE past == {i \in DOMAIN life[v] : life[v][i].at <= n}
           pastN == {i \in DOMAIN life'[v] : life'[v][i].at <= n}
<1>1. /\ life[v] \in Seq(Transitions) /\ DOMAIN life[v] = 1..Len(life[v]) /\ Len(life[v]) \in Nat
      /\ DOMAIN life'[v] = 1..Len(life'[v]) /\ Len(life'[v]) \in Nat
  BY DEF Lives
<1>2. /\ Len(life'[v]) >= Len(life[v])
      /\ \A i \in 1..Len(life[v]) : life'[v][i] = life[v][i]
      /\ \A i \in (Len(life[v]) + 1)..Len(life'[v]) : life'[v][i].at = seq + 1
  BY DEF Extends
<1>3. past = pastN
  <2>1. ASSUME NEW i \in DOMAIN life'[v] PROVE i \in past <=> i \in pastN
    <3>1. CASE i \in 1..Len(life[v])
      BY <3>1, <1>1, <1>2
    <3>2. CASE i \in (Len(life[v]) + 1)..Len(life'[v])
      BY <3>2, <1>1, <1>2
    <3> QED
      BY <3>1, <3>2, <1>1
  <2>2. past \subseteq DOMAIN life'[v]
    BY <1>1, <1>2
  <2> QED
    BY <2>1, <2>2
<1>4. past \subseteq 1..Len(life[v])
  BY <1>1
<1>5. LifecycleAt(v, n) = IF past = {} THEN None
                          ELSE life[v][CHOOSE i \in past : \A j \in past : j <= i].state
  BY DEF LifecycleAt
<1>6. LifecycleAt(v, n)' = IF pastN = {} THEN None
                           ELSE life'[v][CHOOSE i \in pastN : \A j \in pastN : j <= i].state
  BY DEF LifecycleAt
<1> HIDE DEF past, pastN
<1>7. CASE past = {}
  BY <1>3, <1>5, <1>6, <1>7
<1>8. CASE past # {}
  <2> DEFINE m == CHOOSE i \in past : \A j \in past : j <= i
  <2>1. \E i \in past : \A j \in past : j <= i
    BY <1>1, <1>4, <1>8, PositionsHaveGreatest
  <2>2. m \in past
    BY <2>1
  <2>3. LifecycleAt(v, n) = life[v][m].state /\ LifecycleAt(v, n)' = life'[v][m].state
    BY <1>3, <1>5, <1>6, <1>8
  <2> HIDE DEF m
  <2>4. life'[v][m] = life[v][m]
    BY <2>2, <1>2, <1>4
  <2> QED
    BY <2>3, <2>4
<1> QED
  BY <1>7, <1>8

(* What was known at a past sequence never changes, except that a          *)
(* retention deletion takes its versions out of every view: no later       *)
(* commit, correction or withdrawal rewrites an answer given as of then.   *)
THEOREM PastNeverChanges == LedgerSpec => PastIsFixed
<1>1. ASSUME LedgerInv, [LedgerNext]_ledgerVars
      PROVE  [\A n \in 0..seq, p \in Proofs :
                 AsOf(p, n)' = AsOf(p, n) \ (Existing \ Existing')]_ledgerVars
  <2>1. CASE UNCHANGED ledgerVars
    BY <2>1
  <2>2. CASE LedgerNext
    <3>1. LedgerInv' /\ Forward
      BY <2>2, <1>1, OperationKept DEF LedgerNext
    <3>2. /\ Lives(life, seq) /\ seq \in Nat /\ Existing \subseteq DOMAIN life /\ Existing \subseteq 1..seq
      BY <1>1, LivesFact DEF LedgerInv, LedgerConsistent
    <3>3. \A v \in DOMAIN life' : life'[v] \in Seq(Transitions)
      BY <3>1 DEF LedgerInv, LedgerConsistent, LedgerTypeOK
    <3>4. SUFFICES ASSUME NEW n \in 0..seq, NEW p \in Proofs
                   PROVE  AsOf(p, n)' = AsOf(p, n) \ (Existing \ Existing')
      OBVIOUS
    <3>5. /\ DOMAIN life \subseteq DOMAIN life' /\ Extends(life', life)
          /\ Existing' \subseteq Existing \cup {seq + 1}
          /\ \A v \in Existing \cap Existing' : versions'[v] = versions[v]
      BY <3>1 DEF Forward, Extends, Existing
    <3>6. \A v \in Existing : LifecycleAt(v, n)' = LifecycleAt(v, n)
      BY <3>2, <3>3, <3>5, LifecycleAtKept
    <3>7. AsOf(p, n)' = {v \in Existing' : v <= n /\ versions'[v].draft.scope \in p /\ LifecycleAt(v, n)' = "Active"}
      BY DEF AsOf, ScopeOf
    <3>8. AsOf(p, n) = {v \in Existing : v <= n /\ versions[v].draft.scope \in p /\ LifecycleAt(v, n) = "Active"}
      BY DEF AsOf, ScopeOf
    <3>9. ~ (seq + 1 <= n)
      BY <3>2
    <3> QED
      BY <3>5, <3>6, <3>7, <3>8, <3>9
  <2> QED
    BY <2>1, <2>2, <1>1
<1> QED
  BY <1>1, LedgerInitInv, LedgerNextInv, PTL DEF LedgerSpec, PastIsFixed

-----------------------------------------------------------------------------
(* Compiler jobs.  Each attempt but the one that runs or succeeded has one *)
(* failure row, and a job that was never enqueued has none.                *)

FailureRows(j) == {f \in jobFailures : f.job = j}
OpenAttempt(s) == IF s.state \in {"Running", "Succeeded"} THEN 1 ELSE 0

(* n attempts have a row each.                                             *)
RowsUpTo(R, n) ==
    /\ IsFiniteSet(R) /\ {f.attempt : f \in R} = 1..n /\ Cardinality(R) = n

JobInv(j, s, R) ==
    /\ s # Absent => s \in Statuses /\ StatusValid(j, s) /\ RowsUpTo(R, s.attempts - OpenAttempt(s))
    /\ s = Absent => R = {}

JobsInv ==
    /\ jobStatus \in [Jobs -> Statuses \cup {Absent}]
    /\ \A j \in Jobs : JobInv(j, jobStatus[j], FailureRows(j))

LEMMA NothingFailed == RowsUpTo({}, 0)
BY FS_EmptySet DEF RowsUpTo

(* The row of the next attempt is a new one.                               *)
LEMMA OneMoreRow ==
    ASSUME NEW R, NEW n \in Nat, RowsUpTo(R, n), NEW f, f.attempt = n + 1
    PROVE  RowsUpTo(R \cup {f}, n + 1)
<1>1. f \notin R
  <2> SUFFICES ASSUME f \in R PROVE FALSE
    OBVIOUS
  <2>1. f.attempt \in 1..n
    BY DEF RowsUpTo
  <2>. QED
    BY <2>1
<1>2. IsFiniteSet(R \cup {f}) /\ Cardinality(R \cup {f}) = n + 1
  BY <1>1, FS_AddElement DEF RowsUpTo
<1>3. {g.attempt : g \in R \cup {f}} = 1..(n + 1)
  <2>1. {g.attempt : g \in R \cup {f}} = {g.attempt : g \in R} \cup {n + 1}
    OBVIOUS
  <2>2. 1..(n + 1) = (1..n) \cup {n + 1}
    OBVIOUS
  <2>. QED
    BY <2>1, <2>2 DEF RowsUpTo
<1>. QED
  BY <1>2, <1>3 DEF RowsUpTo

LEMMA JobsStart == JobsInit => JobsInv
BY DEF JobsInit, JobsInv, JobInv, FailureRows

LEMMA JobsSoundFollows == JobsInv => JobsSound
<1> SUFFICES ASSUME JobsInv, NEW j \in Jobs, jobStatus[j] # Absent
             PROVE  /\ jobStatus[j] \in Statuses /\ GetCompilerJob(j) = "Found"
                    /\ {f.attempt : f \in FailureRows(j)} = 1..(jobStatus[j].attempts - OpenAttempt(jobStatus[j]))
                    /\ Cardinality(FailureRows(j)) = jobStatus[j].attempts - OpenAttempt(jobStatus[j])
  BY DEF JobsSound, StatusesValid, AttemptsAccounted, Known, FailureRows, OpenAttempt
<1>1. JobInv(j, jobStatus[j], FailureRows(j))
  BY DEF JobsInv
<1>. QED
  BY <1>1 DEF JobInv, RowsUpTo, GetCompilerJob, Known

(* One job changes, and at most one row is written, of that job.           *)
LEMMA OneJobChanges ==
    ASSUME JobsInv, NEW j \in Jobs, NEW s \in Statuses, s # Absent, NEW F,
           jobStatus' = [jobStatus EXCEPT ![j] = s], jobFailures' = jobFailures \cup F,
           \A f \in F : f.job = j,
           JobInv(j, s, FailureRows(j) \cup F)
    PROVE  JobsInv'
<1>1. jobStatus' \in [Jobs -> Statuses \cup {Absent}] /\ jobStatus'[j] = s
      /\ \A k \in Jobs : k # j => jobStatus'[k] = jobStatus[k]
  BY DEF JobsInv
<1>2. ASSUME NEW k \in Jobs PROVE JobInv(k, jobStatus'[k], {f \in jobFailures' : f.job = k})
  <2>1. CASE k = j
    <3>1. {f \in jobFailures' : f.job = j} = FailureRows(j) \cup F
      BY DEF FailureRows
    <3>. QED
      BY <1>1, <2>1, <3>1
  <2>2. CASE k # j
    <3>1. {f \in jobFailures' : f.job = k} = FailureRows(k)
      BY <2>2 DEF FailureRows
    <3>. QED
      BY <1>1, <2>2, <3>1 DEF JobsInv
  <2>. QED
    BY <2>1, <2>2
<1>. QED
  BY <1>1, <1>2 DEF JobsInv, FailureRows

LEMMA FailureFields ==
    ASSUME NEW j, NEW n, NEW w
    PROVE  Failure(j, n, w).job = j /\ Failure(j, n, w).attempt = n
BY DEF Failure

LEMMA NoRowWritten ==
    ASSUME JobsInv, NEW j \in Jobs, NEW s \in Statuses, s # Absent,
           jobStatus' = [jobStatus EXCEPT ![j] = s], jobFailures' = jobFailures,
           JobInv(j, s, FailureRows(j))
    PROVE  JobsInv'
<1>1. PICK F : F = {}
  OBVIOUS
<1>2. jobFailures' = jobFailures \cup F /\ FailureRows(j) \cup F = FailureRows(j)
  BY <1>1
<1>3. \A f \in F : f.job = j
  BY <1>1
<1>4. JobInv(j, s, FailureRows(j) \cup F)
  BY <1>2
<1>. QED
  BY <1>2, <1>3, <1>4, OneJobChanges

(* What a status and its rows become under each write.                     *)
LEMMA EnqueueKeeps ==
    ASSUME JobsInv, NEW j \in Jobs, EnqueueJob(j) PROVE JobsInv'
<1>1. PICK wait \in 0..1 :
         jobStatus' = [jobStatus EXCEPT ![j] =
               [state |-> "Pending", attempts |-> 0, left |-> wait, owner |-> Absent,
                plan |-> Absent, error |-> FALSE]]
  BY DEF EnqueueJob
<1> DEFINE s == [state |-> "Pending", attempts |-> 0, left |-> wait, owner |-> Absent,
                 plan |-> Absent, error |-> FALSE]
<1>2. s \in Statuses
  BY DEF Statuses, JobStates
<1>3. s.attempts = 0 /\ s.state = "Pending" /\ s.owner = Absent /\ s.plan = Absent
  OBVIOUS
<1>4. jobStatus[j] = Absent /\ jobFailures' = jobFailures
  BY DEF EnqueueJob, Known
<1>5. FailureRows(j) = {}
  BY <1>4 DEF JobsInv, JobInv
<1>6. s # Absent
  BY <1>2, AbsentAssumption
<1>7. jobStatus' = [jobStatus EXCEPT ![j] = s]
  BY <1>1
<1> HIDE DEF s
<1>8. JobInv(j, s, FailureRows(j))
  <2>1. StatusValid(j, s)
    BY <1>3, JobsAssumption DEF StatusValid
  <2>a. OpenAttempt(s) = 0
    BY <1>3 DEF OpenAttempt
  <2>2. s.attempts - OpenAttempt(s) = 0
    BY <1>3, <2>a
  <2>. QED
    BY <1>2, <1>5, <1>6, <2>1, <2>2, NothingFailed DEF JobInv
<1>. QED
  BY <1>2, <1>4, <1>6, <1>7, <1>8, NoRowWritten

LEMMA CompleteKeeps ==
    ASSUME JobsInv, NEW j \in Jobs, NEW w \in Workers, CompleteJob(w, j) PROVE JobsInv'
<1> DEFINE o == jobStatus[j]
           s == [o EXCEPT !.state = "Succeeded", !.owner = Absent, !.left = -1, !.plan = w,
                          !.error = FALSE]
<1>1. o # Absent /\ o.state = "Running" /\ jobFailures' = jobFailures
  BY DEF CompleteJob, HoldsLease, Known
<1>2. JobInv(j, o, FailureRows(j)) /\ o \in Statuses \cup {Absent}
  BY DEF JobsInv
<1>3. jobStatus' = [jobStatus EXCEPT ![j] = s]
  BY DEF CompleteJob, JobsInv
<1>4. o \in Statuses
  BY <1>2, <1>1
<1>5. /\ s \in Statuses /\ s.state = "Succeeded" /\ s.owner = Absent /\ s.plan = w
      /\ s.attempts = o.attempts
  <2>1. s.state = "Succeeded" /\ s.owner = Absent /\ s.plan = w /\ s.attempts = o.attempts
    BY <1>4 DEF Statuses
  <2>2. -1 \in Int /\ "Succeeded" \in JobStates
    BY DEF JobStates
  <2>3. s \in Statuses
    BY <1>4, <2>2, Zenon DEF Statuses
  <2>. QED
    BY <2>1, <2>3
<1>6. s # Absent /\ w # Absent
  BY <1>5, JobsAssumption, AbsentAssumption
<1> HIDE DEF s, o
<1>7. JobInv(j, s, FailureRows(j))
  <2>1. StatusValid(j, o) /\ RowsUpTo(FailureRows(j), o.attempts - OpenAttempt(o))
    BY <1>2, <1>1 DEF JobInv
  <2>2. StatusValid(j, s)
    BY <1>1, <1>5, <1>6, <2>1 DEF StatusValid
  <2>3. OpenAttempt(s) = OpenAttempt(o)
    BY <1>1, <1>5 DEF OpenAttempt
  <2>. QED
    BY <1>5, <1>6, <2>1, <2>2, <2>3 DEF JobInv
<1>. QED
  BY <1>1, <1>3, <1>5, <1>6, <1>7, NoRowWritten

(* An attempt that runs ends in a failure row: the job waits or is dead.   *)
LEMMA AttemptFails ==
    ASSUME NEW j \in Jobs, NEW o \in Statuses, o # Absent, o.state = "Running", NEW R, JobInv(j, o, R),
           NEW w, NEW s \in Statuses, s # Absent, s.state \in {"Pending", "DeadLetter"},
           s.attempts = o.attempts, StatusValid(j, s)
    PROVE  JobInv(j, s, R \cup {Failure(j, o.attempts, w)})
<1>1. StatusValid(j, o) /\ RowsUpTo(R, o.attempts - OpenAttempt(o))
  BY DEF JobInv
<1>2. o.attempts \in Nat /\ o.attempts > 0 /\ OpenAttempt(o) = 1 /\ OpenAttempt(s) = 0
  BY <1>1 DEF StatusValid, Statuses, OpenAttempt
<1> DEFINE n == o.attempts - 1
           f == Failure(j, o.attempts, w)
<1>3. n \in Nat /\ f.attempt = n + 1 /\ RowsUpTo(R, n) /\ n + 1 = s.attempts - OpenAttempt(s)
  BY <1>1, <1>2, FailureFields
<1> HIDE DEF n, f
<1>4. RowsUpTo(R \cup {f}, n + 1)
  BY <1>3, OneMoreRow
<1>. QED
  BY <1>3, <1>4 DEF JobInv, f

LEMMA FailKeeps ==
    ASSUME JobsInv, NEW j \in Jobs, NEW w \in Workers, NEW retryable \in BOOLEAN,
           FailJob(w, j, retryable)
    PROVE  JobsInv'
<1> DEFINE o == jobStatus[j]
           t == [o EXCEPT !.owner = Absent, !.plan = Absent, !.error = TRUE]
           s == IF retryable /\ t.attempts < MaxAttempts[j] THEN Retry(t)
                ELSE [t EXCEPT !.state = "DeadLetter", !.left = -1]
<1>1. o # Absent /\ o.state = "Running" /\ jobFailures' = jobFailures \cup {Failure(j, o.attempts, w)}
      /\ jobStatus' = [jobStatus EXCEPT ![j] = s]
  BY DEF FailJob, HoldsLease, Known
<1>2. JobInv(j, o, FailureRows(j)) /\ o \in Statuses \cup {Absent}
  BY DEF JobsInv
<1>3. o \in Statuses /\ StatusValid(j, o)
  BY <1>2, <1>1 DEF JobInv
<1>4. /\ t \in Statuses /\ t.owner = Absent /\ t.plan = Absent /\ t.error = TRUE
      /\ t.attempts = o.attempts
  BY <1>3 DEF Statuses
<1> HIDE DEF t, o
<1>5. /\ s \in Statuses /\ s.state \in {"Pending", "DeadLetter"} /\ s.owner = Absent
      /\ s.plan = Absent /\ s.error = TRUE /\ s.attempts = o.attempts
  <2>1. /\ Retry(t) \in Statuses /\ Retry(t).state = "Pending" /\ Retry(t).owner = Absent
        /\ Retry(t).plan = Absent /\ Retry(t).error = TRUE /\ Retry(t).attempts = o.attempts
    <3>1. Retry(t).state = "Pending" /\ Retry(t).owner = Absent
          /\ Retry(t).plan = Absent /\ Retry(t).attempts = o.attempts
      BY <1>4 DEF Statuses, Retry
    <3>2. Retry(t).error = TRUE
      BY <1>4 DEF Statuses, Retry
    <3>3. Delay \in Int /\ "Pending" \in JobStates
      BY JobsAssumption DEF JobStates
    <3>4. Retry(t) \in Statuses
      BY <1>4, <3>3, Zenon DEF Statuses, Retry
    <3>. QED
      BY <3>1, <3>2, <3>4
  <2> DEFINE d == [t EXCEPT !.state = "DeadLetter", !.left = -1]
  <2>2. /\ d \in Statuses /\ d.state = "DeadLetter" /\ d.owner = Absent
        /\ d.plan = Absent /\ d.error = TRUE /\ d.attempts = o.attempts
    <3>1. d.state = "DeadLetter" /\ d.owner = Absent /\ d.plan = Absent /\ d.attempts = o.attempts
      BY <1>4 DEF Statuses
    <3>2. d.error = TRUE
      BY <1>4 DEF Statuses
    <3>3. -1 \in Int /\ "DeadLetter" \in JobStates
      BY DEF JobStates
    <3>4. d \in Statuses
      BY <1>4, <3>3, Zenon DEF Statuses
    <3>. QED
      BY <3>1, <3>2, <3>4
  <2>3. s = Retry(t) \/ s = d
    OBVIOUS
  <2> HIDE DEF d, s
  <2>. QED
    BY <2>1, <2>2, <2>3
<1> HIDE DEF s
<1>6. s # Absent
  BY <1>5, AbsentAssumption
<1>7. StatusValid(j, s)
  BY <1>1, <1>3, <1>5 DEF StatusValid
<1>8. JobInv(j, s, FailureRows(j) \cup {Failure(j, o.attempts, w)})
  BY <1>1, <1>2, <1>3, <1>5, <1>6, <1>7, AttemptFails
<1>9. PICK F : F = {Failure(j, o.attempts, w)}
  OBVIOUS
<1>10. jobFailures' = jobFailures \cup F /\ \A f \in F : f.job = j
  BY <1>1, <1>9, FailureFields
<1>. QED
  BY <1>1, <1>5, <1>6, <1>8, <1>9, <1>10, OneJobChanges

LEMMA MinOfNaturals == ASSUME NEW S \in SUBSET Nat, S # {} PROVE Min(S) \in S
<1> DEFINE R == OpToRel(<, Nat)
<1>1. IsWellFoundedOn(R, Nat)
  BY NatLessThanWellFounded
<1>2. \A m, n \in Nat : <<m, n>> \in R <=> m < n
  BY DEF OpToRel
<1> HIDE DEF R
<1>3. PICK x \in S : \A y \in S : ~(<<y, x>> \in R)
  BY <1>1, WFMin
<1>4. ASSUME NEW y \in S PROVE x <= y
  <2>1. x \in Nat /\ y \in Nat
    OBVIOUS
  <2>2. ~(y < x)
    BY <1>2, <1>3, <2>1
  <2> QED
    BY <2>1, <2>2
<1> QED
  BY <1>4 DEF Min

(* A job that expired on its last attempt, or waited with none left, dies. *)
LEMMA DeadFields ==
    ASSUME NEW s \in Statuses
    PROVE  /\ Dead(s) \in Statuses /\ Dead(s).state = "DeadLetter" /\ Dead(s).owner = Absent
           /\ Dead(s).plan = Absent /\ Dead(s).error = TRUE /\ Dead(s).attempts = s.attempts
<1>1. /\ Dead(s).state = "DeadLetter" /\ Dead(s).owner = Absent /\ Dead(s).plan = Absent
      /\ Dead(s).attempts = s.attempts
  BY DEF Dead, Statuses
<1>2. Dead(s).error = TRUE
  BY DEF Dead, Statuses
<1>3. "DeadLetter" \in JobStates
  BY DEF JobStates
<1>4. Dead(s) \in Statuses
  BY <1>3, Zenon DEF Dead, Statuses
<1>. QED
  BY <1>1, <1>2, <1>4

LEMMA ClaimedFields ==
    ASSUME NEW s \in Statuses, NEW w \in Workers, NEW b \in BOOLEAN
    PROVE  /\ Claimed(s, w, b) \in Statuses /\ Claimed(s, w, b).state = "Running"
           /\ Claimed(s, w, b).owner = w /\ Claimed(s, w, b).plan = Absent
           /\ Claimed(s, w, b).attempts = s.attempts + 1
<1>1. /\ Claimed(s, w, b).state = "Running" /\ Claimed(s, w, b).owner = w
      /\ Claimed(s, w, b).plan = Absent /\ Claimed(s, w, b).attempts = s.attempts + 1
  BY DEF Claimed, Statuses
<1>2. "Running" \in JobStates /\ Lease \in Int /\ s.attempts + 1 \in Nat
  BY JobsAssumption DEF JobStates, Statuses
<1>3. (s.error \/ b) \in BOOLEAN
  BY Zenon
<1>4. Claimed(s, w, b) \in Statuses
  BY <1>2, <1>3, Zenon DEF Claimed, Statuses
<1>. QED
  BY <1>1, <1>4

(* The rows of one job that a claim writes.                                *)
RowsOf(j, T) == {f \in ExpiryRows(T) : f.job = j}

LEMMA RowOfExpired ==
    ASSUME NEW T, NEW j, j \in T, ExpiredRunning(j)
    PROVE  RowsOf(j, T) = {Failure(j, jobStatus[j].attempts, jobStatus[j].owner)}
BY FailureFields DEF RowsOf, ExpiryRows

LEMMA NoRowOtherwise ==
    ASSUME NEW T, NEW j, j \notin T \/ ~ExpiredRunning(j)
    PROVE  RowsOf(j, T) = {}
BY FailureFields DEF RowsOf, ExpiryRows

(* A job the claim passes over with no attempt left.                       *)
LEMMA ExhaustedDies ==
    ASSUME JobsInv, NEW j \in Jobs, j \in Exhausted, NEW T, j \in T
    PROVE  /\ JobInv(j, Dead(jobStatus[j]), FailureRows(j) \cup RowsOf(j, T))
           /\ Dead(jobStatus[j]) \in Statuses
<1> DEFINE o == jobStatus[j]
           d == Dead(o)
<1>1. o # Absent /\ (ExpiredRunning(j) \/ EligiblePending(j)) /\ ~(o.attempts < MaxAttempts[j])
  BY DEF Exhausted, Eligible, Claimable, Known
<1>2. JobInv(j, o, FailureRows(j)) /\ o \in Statuses /\ StatusValid(j, o)
  BY <1>1 DEF JobsInv, JobInv
<1>3. /\ d \in Statuses /\ d.state = "DeadLetter" /\ d.owner = Absent
      /\ d.plan = Absent /\ d.error = TRUE /\ d.attempts = o.attempts
  BY <1>2, DeadFields
<1>4. d # Absent
  BY <1>3, AbsentAssumption
<1>5. ExpiredRunning(j) => o.state = "Running"
  BY DEF ExpiredRunning
<1>6. ~ExpiredRunning(j) => o.state = "Pending"
  BY <1>1 DEF EligiblePending
<1> HIDE DEF o, d
<1>7. o.attempts \in Nat /\ o.attempts > 0
  BY <1>1, <1>2, JobsAssumption DEF Statuses
<1>8. StatusValid(j, d)
  BY <1>2, <1>3, <1>7 DEF StatusValid
<1>9. CASE ExpiredRunning(j)
  <2>1. RowsOf(j, T) = {Failure(j, o.attempts, o.owner)}
    BY <1>9, RowOfExpired DEF o
  <2>2. JobInv(j, d, FailureRows(j) \cup {Failure(j, o.attempts, o.owner)})
    BY <1>1, <1>2, <1>3, <1>4, <1>5, <1>8, <1>9, AttemptFails
  <2>. QED
    BY <1>3, <2>1, <2>2 DEF d, o
<1>10. CASE ~ExpiredRunning(j)
  <2>1. FailureRows(j) \cup RowsOf(j, T) = FailureRows(j)
    BY <1>10, NoRowOtherwise
  <2>2. OpenAttempt(d) = 0 /\ OpenAttempt(o) = 0
    BY <1>3, <1>6, <1>10 DEF OpenAttempt
  <2>3. JobInv(j, d, FailureRows(j))
    BY <1>1, <1>2, <1>3, <1>4, <1>8, <2>2 DEF JobInv
  <2>. QED
    BY <1>3, <2>1, <2>3 DEF d, o
<1>. QED
  BY <1>9, <1>10

(* The job the claim takes: its expired attempt, if any, gets a row.       *)
LEMMA ClaimedRuns ==
    ASSUME JobsInv, NEW j \in Jobs, j \in Claimable, NEW T, j \in T, NEW w \in Workers
    PROVE  /\ JobInv(j, Claimed(jobStatus[j], w, ExpiredRunning(j)), FailureRows(j) \cup RowsOf(j, T))
           /\ Claimed(jobStatus[j], w, ExpiredRunning(j)) \in Statuses
<1> DEFINE o == jobStatus[j]
<1>1. o # Absent /\ (ExpiredRunning(j) \/ EligiblePending(j)) /\ o.attempts < MaxAttempts[j]
  BY DEF Eligible, Claimable, Known
<1>2. JobInv(j, o, FailureRows(j)) /\ o \in Statuses /\ StatusValid(j, o)
      /\ RowsUpTo(FailureRows(j), o.attempts - OpenAttempt(o))
  BY <1>1 DEF JobsInv, JobInv
<1>3. PICK b : b = ExpiredRunning(j) /\ b \in BOOLEAN
  BY Zenon DEF ExpiredRunning
<1> DEFINE d == Claimed(o, w, b)
<1>4. /\ d \in Statuses /\ d.state = "Running" /\ d.owner = w
      /\ d.plan = Absent /\ d.attempts = o.attempts + 1
  BY <1>2, <1>3, ClaimedFields
<1>5. d # Absent /\ w # Absent
  BY <1>4, AbsentAssumption, JobsAssumption
<1>6. d = Claimed(jobStatus[j], w, ExpiredRunning(j))
  BY <1>3
<1>7. ExpiredRunning(j) => o.state = "Running"
  BY DEF ExpiredRunning
<1>8. ~ExpiredRunning(j) => o.state = "Pending"
  BY <1>1 DEF EligiblePending
<1>9. ExpiredRunning(j) => RowsOf(j, T) = {Failure(j, o.attempts, o.owner)}
  BY RowOfExpired
<1> HIDE DEF o, d
<1>10. o.attempts \in Nat /\ OpenAttempt(d) = 1 /\ d.attempts - OpenAttempt(d) = o.attempts
  BY <1>2, <1>4 DEF Statuses, OpenAttempt
<1>11. StatusValid(j, d)
  BY <1>1, <1>2, <1>4, <1>5, <1>10, JobsAssumption DEF StatusValid
<1>12. RowsUpTo(FailureRows(j) \cup RowsOf(j, T), o.attempts)
  <2>1. CASE ExpiredRunning(j)
    <3> DEFINE n == o.attempts - 1
               f == Failure(j, o.attempts, o.owner)
    <3>1. OpenAttempt(o) = 1 /\ o.attempts > 0
      BY <1>2, <1>7, <2>1 DEF OpenAttempt, StatusValid
    <3>2. n \in Nat /\ f.attempt = n + 1 /\ RowsUpTo(FailureRows(j), n) /\ n + 1 = o.attempts
      BY <1>2, <1>10, <3>1, FailureFields
    <3>3. RowsOf(j, T) = {f}
      BY <1>9, <2>1
    <3> HIDE DEF n, f
    <3>4. RowsUpTo(FailureRows(j) \cup {f}, n + 1)
      BY <3>2, OneMoreRow
    <3>. QED
      BY <3>2, <3>3, <3>4
  <2>2. CASE ~ExpiredRunning(j)
    <3>1. OpenAttempt(o) = 0
      BY <1>8, <2>2 DEF OpenAttempt
    <3>2. o.attempts - OpenAttempt(o) = o.attempts
      BY <1>10, <3>1
    <3>3. FailureRows(j) \cup RowsOf(j, T) = FailureRows(j)
      BY <2>2, NoRowOtherwise
    <3>. QED
      BY <1>2, <3>2, <3>3
  <2>. QED
    BY <2>1, <2>2
<1>13. JobInv(j, d, FailureRows(j) \cup RowsOf(j, T))
  BY <1>4, <1>5, <1>10, <1>11, <1>12 DEF JobInv
<1>. QED
  BY <1>4, <1>6, <1>13

LEMMA ClaimKeeps ==
    ASSUME JobsInv, NEW w \in Workers, ClaimNext(w) PROVE JobsInv'
<1> DEFINE taken == IF Claimable = {} THEN {} ELSE {Min(Claimable)}
           T == Exhausted \cup taken
<1>1. /\ jobStatus' = [j \in Jobs |->
           CASE j \in Exhausted -> Dead(jobStatus[j])
             [] j \in taken -> Claimed(jobStatus[j], w, ExpiredRunning(j))
             [] OTHER -> jobStatus[j]]
      /\ jobFailures' = jobFailures \cup ExpiryRows(T)
  BY DEF ClaimNext
<1>2. Claimable \in SUBSET Nat
  BY JobsAssumption DEF Claimable, Eligible
<1>3. taken \subseteq Claimable /\ Exhausted \cap Claimable = {}
  BY <1>2, MinOfNaturals DEF Exhausted
<1> HIDE DEF taken
<1>4. ASSUME NEW j \in Jobs
      PROVE  /\ JobInv(j, jobStatus'[j], FailureRows(j) \cup RowsOf(j, T))
             /\ jobStatus'[j] \in Statuses \cup {Absent}
  <2>1. CASE j \in Exhausted
    <3>1. jobStatus'[j] = Dead(jobStatus[j])
      BY <1>1, <1>3, <2>1
    <3>2. j \in T
      BY <2>1
    <3> HIDE DEF T
    <3>. QED
      BY <2>1, <3>1, <3>2, ExhaustedDies
  <2>2. CASE j \in taken
    <3>1. jobStatus'[j] = Claimed(jobStatus[j], w, ExpiredRunning(j))
      BY <1>1, <1>3, <2>2
    <3>2. j \in T /\ j \in Claimable
      BY <1>3, <2>2
    <3> HIDE DEF T
    <3>. QED
      BY <3>1, <3>2, ClaimedRuns
  <2>3. CASE j \notin Exhausted /\ j \notin taken
    <3>1. jobStatus'[j] = jobStatus[j]
      BY <1>1, <2>3
    <3>2. j \notin T
      BY <2>3
    <3> HIDE DEF T
    <3>3. FailureRows(j) \cup RowsOf(j, T) = FailureRows(j)
      BY <3>2, NoRowOtherwise
    <3>. QED
      BY <3>1, <3>3 DEF JobsInv
  <2>. QED
    BY <2>1, <2>2, <2>3
<1> HIDE DEF T
<1>5. jobStatus' \in [Jobs -> Statuses \cup {Absent}]
  <2>1. jobStatus' = [j \in Jobs |-> jobStatus'[j]]
    BY <1>1
  <2>. QED
    BY <1>4, <2>1
<1>6. \A j \in Jobs : {f \in jobFailures' : f.job = j} = FailureRows(j) \cup RowsOf(j, T)
  BY <1>1 DEF FailureRows, RowsOf
<1>7. \A j \in Jobs : JobInv(j, jobStatus'[j], {f \in jobFailures' : f.job = j})
  BY <1>4, <1>6
<1>. QED
  BY <1>5, <1>7 DEF JobsInv, FailureRows

(* Time and the loss of a worker change no attempt and no row.             *)
LEMMA TickKeeps ==
    ASSUME JobsInv, JobsTick PROVE JobsInv'
<1>1. /\ jobStatus' = [j \in Jobs |->
           IF jobStatus[j] = Absent \/ jobStatus[j].left = -1 THEN jobStatus[j]
           ELSE [jobStatus[j] EXCEPT !.left = @ - 1]]
      /\ jobFailures' = jobFailures
  BY DEF JobsTick
<1>2. ASSUME NEW j \in Jobs
      PROVE  jobStatus'[j] \in Statuses \cup {Absent} /\ JobInv(j, jobStatus'[j], FailureRows(j))
  <2> DEFINE o == jobStatus[j]
             d == [o EXCEPT !.left = @ - 1]
  <2>1. JobInv(j, o, FailureRows(j)) /\ o \in Statuses \cup {Absent}
    BY DEF JobsInv
  <2>2. jobStatus'[j] = o \/ (o # Absent /\ jobStatus'[j] = d)
    BY <1>1
  <2>3. CASE o # Absent /\ jobStatus'[j] = d
    <3>1. o \in Statuses
      BY <2>1, <2>3
    <3>2. o.left - 1 \in Int
      BY <3>1 DEF Statuses
    <3>3. d \in Statuses
      BY <3>1, <3>2, Zenon DEF Statuses
    <3>4. /\ d.state = o.state /\ d.attempts = o.attempts /\ d.owner = o.owner /\ d.plan = o.plan
      BY <3>1 DEF Statuses
    <3>5. d.error = o.error
      BY <3>1 DEF Statuses
    <3> HIDE DEF d, o
    <3>6. d # Absent
      BY <3>3, AbsentAssumption
    <3>7. StatusValid(j, o) /\ RowsUpTo(FailureRows(j), o.attempts - OpenAttempt(o))
      BY <2>1, <2>3 DEF JobInv
    <3>8. StatusValid(j, d)
      BY <3>4, <3>5, <3>7 DEF StatusValid
    <3>9. OpenAttempt(d) = OpenAttempt(o)
      BY <3>4 DEF OpenAttempt
    <3>. QED
      BY <2>3, <3>3, <3>4, <3>6, <3>7, <3>8, <3>9 DEF JobInv
  <2> HIDE DEF d, o
  <2>. QED
    BY <2>1, <2>2, <2>3 
<1>3. jobStatus' \in [Jobs -> Statuses \cup {Absent}]
  <2>1. jobStatus' = [j \in Jobs |-> jobStatus'[j]]
    BY <1>1
  <2>. QED
    BY <1>2, <2>1
<1>4. \A j \in Jobs : {f \in jobFailures' : f.job = j} = FailureRows(j)
  BY <1>1 DEF FailureRows
<1>5. \A j \in Jobs : JobInv(j, jobStatus'[j], {f \in jobFailures' : f.job = j})
  BY <1>2, <1>4
<1>. QED
  BY <1>3, <1>5 DEF JobsInv, FailureRows

LEMMA SameJobs == ASSUME JobsInv, UNCHANGED <<jobStatus, jobFailures>> PROVE JobsInv'
BY DEF JobsInv, FailureRows

LEMMA JobsStep == ASSUME JobsInv, [JobsNext]_jobVars PROVE JobsInv'
<1>1. CASE \E j \in Jobs : EnqueueJob(j)
  BY <1>1, EnqueueKeeps
<1>2. CASE \E w \in Workers : ClaimNext(w)
  BY <1>2, ClaimKeeps
<1>3. CASE \E w \in Workers : LoseWorker(w)
  BY <1>3, SameJobs DEF LoseWorker
<1>4. CASE \E w \in Workers, j \in Jobs : CompleteJob(w, j)
  BY <1>4, CompleteKeeps
<1>5. CASE \E w \in Workers, j \in Jobs, retryable \in BOOLEAN : FailJob(w, j, retryable)
  BY <1>5, FailKeeps
<1>6. CASE JobsTick
  BY <1>6, TickKeeps
<1>7. CASE UNCHANGED jobVars
  BY <1>7, SameJobs DEF jobVars
<1>. QED
  BY <1>1, <1>2, <1>3, <1>4, <1>5, <1>6, <1>7 DEF JobsNext

(* Every stored job status validates, and every attempt of a job but the   *)
(* one that runs or succeeded has exactly one failure row, whichever       *)
(* workers crash, return late or race the expiry of their lease, and       *)
(* whichever call notices an expired lease first.                          *)
THEOREM JobsAlwaysSound == JobsSpec => []JobsSound
<1>1. JobsInit => JobsInv
  BY JobsStart
<1>2. JobsInv /\ [JobsNext]_jobVars => JobsInv'
  BY JobsStep
<1>3. JobsInv => JobsSound
  BY JobsSoundFollows
<1>. QED
  BY <1>1, <1>2, <1>3, PTL DEF JobsSpec

=============================================================================
