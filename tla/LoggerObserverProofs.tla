-------------------------- MODULE LoggerObserverProofs --------------------------
(***************************************************************************)
(* What an unlocked walk resolves to, and in which order a Configure       *)
(* becomes visible to emits, for any tree and any number of goroutines     *)
(* that emit, make detached children, set and configure.                   *)
(***************************************************************************)
EXTENDS LoggerObserver, LoggerProofs

Updates == Settings \cup UNION Configurations

(* Each setting is changed on one logger only.                             *)
OneOwner == \A u, v \in Updates : u.dim = v.dim => u.logger = v.logger

NoScopes == \A g \in Goroutine : "scope" \notin Role[g]

Unscoped ==
    /\ scopes = <<>>
    /\ \A g \in Goroutine : pending[g] \subseteq UNION Configurations

(* A walk for d that began at l is at a: what it saw the setting be is     *)
(* either what the setting of l still is, the loggers passed having none   *)
(* of their own, or what the setting of a will be, whatever changes below. *)
Passed(d, l, a, rank) ==
    \E P \in SUBSET created :
        Path(own, parent, d, P, l, a) /\ \A m \in P : rank[m] > rank[a]

Settled(d, a, rank, values) ==
    /\ ValueOf(own, parent, d, a) \in values
    /\ \A u \in Updates : u.dim = d => rank[u.logger] > rank[a]

Walked(g, rank) ==
    pc[g] \in Dimension =>
        LET l == call[g].logger
            a == call[g].at
            d == pc[g]
        IN  /\ ValueOf(own, parent, d, l) \in seen[g]
            /\ Passed(d, l, a, rank) \/ Settled(d, a, rank, seen[g])

WalkInv ==
    /\ Inv /\ Unscoped
    /\ \E top, rank : Tree(parent, rank, top) /\ \A g \in Goroutine : Walked(g, rank)

(* The history variable in one step.                                       *)
LEMMA Observed ==
    ASSUME Observe, NEW g \in Goroutine, pc'[g] \in Dimension
    PROVE  /\ ValueOf(own', parent', pc'[g], call'[g].logger) \in seen'[g]
           /\ pc'[g] = pc[g] => seen[g] \subseteq seen'[g]
<1>1. seen'[g] = (IF pc'[g] = pc[g] THEN seen[g] ELSE {})
                   \cup {Effective(call[g].logger, pc[g])'}
  BY DEF Observe
<1>2. Effective(call[g].logger, pc[g])' = ValueOf(own', parent', pc'[g], call'[g].logger)
  BY DEF Effective, Source, ValueOf, Up, Walk, Default
<1> QED BY <1>1, <1>2

LEMMA InPlace ==
    ASSUME Inv, NEW g \in Goroutine, pc[g] \in Dimension
    PROVE  call[g].logger \in created /\ call[g].at \in created /\ created \subseteq Logger
BY DEF Inv, Calls, Standing, Family

-----------------------------------------------------------------------------
(* The walk of a goroutine while the tree stays as it is.                  *)
LEMMA Unmoved ==
    ASSUME Observe, NEW g \in Goroutine, NEW rank, Walked(g, rank), UNCHANGED treeVars,
           pc'[g] = pc[g], call'[g] = call[g]
    PROVE  Walked(g, rank)'
<1> SUFFICES ASSUME pc[g] \in Dimension PROVE Walked(g, rank)'
  BY DEF Walked
<1>1. /\ ValueOf(own', parent', pc[g], call[g].logger) \in seen'[g]
      /\ seen[g] \subseteq seen'[g]
  BY Observed
<1>2. own' = own /\ parent' = parent /\ created' = created
  BY DEF treeVars
<1> QED BY <1>1, <1>2 DEF Walked, Passed, Settled

LEMMA Started ==
    ASSUME Observe, NEW g \in Goroutine, NEW rank, Starts(g), pc'[g] \in Dimension
    PROVE  Walked(g, rank)'
<1>1. ValueOf(own', parent', pc'[g], call'[g].logger) \in seen'[g]
  BY Observed
<1>2. Path(own', parent', pc'[g], {}, call'[g].logger, call'[g].at)
  BY DEF Path, Starts
<1>3. Passed(pc[g], call[g].logger, call[g].at, rank)'
  BY <1>2 DEF Passed
<1> QED BY <1>1, <1>3 DEF Walked

LEMMA Climbed ==
    ASSUME Inv, Observe, NEW g \in Goroutine, NEW top \in Nat, NEW rank,
           Tree(parent, rank, top), Walked(g, rank), Climb(g)
    PROVE  Walked(g, rank)'
<1> DEFINE l == call[g].logger
           a == call[g].at
           d == pc[g]
           b == parent[a]
<1>1. /\ d \in Dimension /\ own[a][d] = Inherit /\ b # Nil
      /\ own' = own /\ parent' = parent /\ created' = created /\ pc' = pc
  BY DEF Climb, WalkEnds, OwnValue, treeVars
<1>2. l \in created /\ a \in created /\ created \subseteq Logger
  BY <1>1, InPlace
<1>3. call'[g].at = b /\ call'[g].logger = l
  <2>1. g \in DOMAIN call /\ DOMAIN call[g] = DOMAIN NoCall
    BY DEF Inv, Calls, Sane
  <2> QED BY <2>1, NoCallFields DEF Climb
<1>4. /\ ValueOf(own', parent', d, l) \in seen'[g] /\ seen[g] \subseteq seen'[g]
  BY <1>1, <1>3, Observed
<1>5. /\ rank[b] < rank[a] /\ b \in Logger
      /\ \A m \in Logger : rank[m] \in Nat
  BY <1>1, <1>2 DEF Tree
<1>6. Passed(d, l, a, rank) \/ Settled(d, a, rank, seen[g])
  BY <1>1 DEF Walked
<1>7. CASE Passed(d, l, a, rank)
  <2>1. PICK P \in SUBSET created :
           Path(own, parent, d, P, l, a) /\ \A m \in P : rank[m] > rank[a]
    BY <1>7 DEF Passed
  <2>2. Path(own, parent, d, P \cup {a}, l, b)
    BY <1>1, <1>2, <2>1 DEF Path
  <2>3. \A m \in P \cup {a} : rank[m] > rank[b]
    BY <1>2, <1>5, <2>1
  <2>4. P \cup {a} \in SUBSET created
    BY <1>2
  <2>5. Passed(d, l, b, rank)
    BY <2>2, <2>3, <2>4 DEF Passed
  <2>6. Passed(pc[g], call[g].logger, call[g].at, rank)'
    BY <1>1, <1>3, <2>5 DEF Passed
  <2> QED BY <1>1, <1>3, <1>4, <2>6 DEF Walked
<1>8. CASE Settled(d, a, rank, seen[g])
  <2>1. Path(own, parent, d, {a}, a, b)
    BY <1>1, <1>2 DEF Path
  <2>2. ValueOf(own, parent, d, a) = ValueOf(own, parent, d, b)
    BY <2>1, ValueAlong DEF IsTree
  <2>3. ASSUME NEW u \in Updates, u.dim = d PROVE rank[u.logger] > rank[b]
    <3>1. u.logger \in Logger
      BY LoggerAssumption DEF Updates, IsUpdate
    <3> QED BY <1>2, <1>5, <1>8, <2>3, <3>1 DEF Settled
  <2>4. Settled(d, b, rank, seen'[g])
    BY <1>4, <1>8, <2>2, <2>3 DEF Settled
  <2>5. Settled(pc[g], call[g].at, rank, seen[g])'
    BY <1>1, <1>3, <2>4 DEF Settled
  <2> QED BY <1>1, <1>3, <1>4, <2>5 DEF Walked
<1> QED BY <1>6, <1>7, <1>8

-----------------------------------------------------------------------------
(* A setting of x is changed under the walk of g.                          *)
LEMMA ChangedBeneath ==
    ASSUME Inv, Observe, OneOwner, NEW g \in Goroutine, NEW top \in Nat, NEW rank,
           Tree(parent, rank, top), Walked(g, rank), UNCHANGED <<parent, created>>,
           pc'[g] = pc[g], call'[g] = call[g],
           NEW x \in created, NEW e \in Dimension, NEW v \in Own(e), Set(x, e, v),
           \E u \in Updates : u.logger = x /\ u.dim = e
    PROVE  Walked(g, rank)'
<1> SUFFICES ASSUME pc[g] \in Dimension PROVE Walked(g, rank)'
  BY DEF Walked
<1> DEFINE l == call[g].logger
           a == call[g].at
           d == pc[g]
           S == {m \in Logger : rank[m] <= rank[a]}
<1>1. l \in created /\ a \in created /\ created \subseteq Logger
  BY InPlace
<1>2. \A m \in Logger : rank[m] \in Nat /\ (parent[m] # Nil => parent[m] \in Logger
                                                /\ rank[parent[m]] < rank[m])
  BY DEF Tree
<1>3. \A m \in Logger, f \in Dimension : m # x \/ f # e => own'[m][f] = own[m][f]
  BY <1>1, SetTyped DEF Inv, Family
<1>4. /\ ValueOf(own', parent', d, l) \in seen'[g] /\ seen[g] \subseteq seen'[g]
  BY Observed
<1>5. /\ ValueOf(own, parent, d, l) \in seen[g]
      /\ Passed(d, l, a, rank) \/ Settled(d, a, rank, seen[g])
  BY DEF Walked
<1>6. ASSUME e # d \/ rank[x] > rank[a]
      PROVE  ValueOf(own', parent', d, a) = ValueOf(own, parent, d, a)
  <2>1. Closed(S, parent) /\ a \in S
    BY <1>1, <1>2 DEF Closed
  <2>2. ASSUME NEW m \in S PROVE own'[m][d] = own[m][d]
    BY <1>1, <1>2, <1>3, <1>6
  <2>3. Agree(own, parent, own', parent', d, S)
    BY <2>2 DEF Agree
  <2>4. IsTree(parent) /\ IsTree(parent')
    BY DEF IsTree
  <2> HIDE DEF S
  <2> QED BY <2>1, <2>3, <2>4, ValueSame
<1>7. CASE Settled(d, a, rank, seen[g])
  <2>1. e # d \/ rank[x] > rank[a]
    BY <1>7 DEF Settled
  <2>2. ValueOf(own', parent', d, a) \in seen'[g]
    BY <1>4, <1>6, <1>7, <2>1 DEF Settled
  <2>3. Settled(pc[g], call[g].at, rank, seen[g])'
    BY <1>7, <2>2 DEF Settled
  <2> QED BY <1>4, <2>3 DEF Walked
<1>8. CASE Passed(d, l, a, rank)
  <2>1. PICK P \in SUBSET created :
           Path(own, parent, d, P, l, a) /\ \A m \in P : rank[m] > rank[a]
    BY <1>8 DEF Passed
  <2>2. CASE e = d /\ x \in P
    <3>1. ValueOf(own, parent, d, l) = ValueOf(own, parent, d, a)
      BY <2>1, ValueAlong DEF IsTree
    <3>2. rank[x] > rank[a]
      BY <2>1, <2>2
    <3>3. ValueOf(own', parent', d, a) \in seen'[g]
      BY <1>4, <1>5, <1>6, <3>1, <3>2
    <3>4. \A u \in Updates : u.dim = d => rank[u.logger] > rank[a]
      BY <2>2, <3>2 DEF OneOwner
    <3>5. Settled(pc[g], call[g].at, rank, seen[g])'
      BY <3>3, <3>4 DEF Settled
    <3> QED BY <1>4, <3>5 DEF Walked
  <2>3. CASE e # d \/ x \notin P
    <3>1. \A m \in P : own'[m][d] = own[m][d]
      BY <1>1, <1>3, <2>3
    <3>2. Path(own', parent', d, P, l, a)
      BY <2>1, <3>1 DEF Path
    <3>3. Passed(pc[g], call[g].logger, call[g].at, rank)'
      BY <2>1, <3>2 DEF Passed
    <3> QED BY <1>4, <3>3 DEF Walked
  <2> QED BY <2>2, <2>3
<1> QED BY <1>5, <1>7, <1>8

(* A detached child is made beside the walk of g.                          *)
LEMMA BranchedBeside ==
    ASSUME Inv, Observe, NEW g \in Goroutine, NEW top \in Nat, NEW rank, Tree(parent, rank, top),
           Walked(g, rank), pc'[g] = pc[g], call'[g] = call[g],
           NEW m \in Logger \ created, created' = created \cup {m}, IsTree(parent'),
           \A k \in Logger \ {m} : own'[k] = own[k] /\ parent'[k] = parent[k]
    PROVE  Walked(g, [rank EXCEPT ![m] = top + 1])'
<1> DEFINE next == [rank EXCEPT ![m] = top + 1]
<1> SUFFICES ASSUME pc[g] \in Dimension PROVE Walked(g, next)'
  BY DEF Walked
<1> DEFINE l == call[g].logger
           a == call[g].at
           d == pc[g]
<1>1. l \in created /\ a \in created /\ created \subseteq Logger
  BY InPlace
<1>2. /\ \A k \in Logger : rank[k] \in 0..top /\ next[k] = IF k = m THEN top + 1 ELSE rank[k]
      /\ \A k \in created : next[k] = rank[k]
  BY <1>1 DEF Tree
<1> HIDE DEF next
<1>3. /\ ValueOf(own', parent', d, l) \in seen'[g] /\ seen[g] \subseteq seen'[g]
  BY Observed
<1>4. ValueOf(own', parent', d, a) = ValueOf(own, parent, d, a)
  <2>1. Closed(created, parent)
    BY DEF Closed, Inv, Family
  <2>2. Agree(own, parent, own', parent', d, created)
    BY <1>1 DEF Agree
  <2>3. IsTree(parent)
    BY DEF IsTree
  <2> QED BY <1>1, <2>1, <2>2, <2>3, ValueSame
<1>5. CASE Settled(d, a, rank, seen[g])
  <2>1. ASSUME NEW u \in Updates, u.dim = d PROVE next[u.logger] > next[a]
    <3>1. u.logger \in Logger
      BY LoggerAssumption DEF Updates, IsUpdate
    <3> QED BY <1>1, <1>2, <1>5, <2>1, <3>1 DEF Settled
  <2>2. Settled(pc[g], call[g].at, next, seen[g])'
    BY <1>3, <1>4, <1>5, <2>1 DEF Settled
  <2> QED BY <1>3, <2>2 DEF Walked
<1>6. CASE Passed(d, l, a, rank)
  <2>1. PICK P \in SUBSET created :
           Path(own, parent, d, P, l, a) /\ \A k \in P : rank[k] > rank[a]
    BY <1>6 DEF Passed
  <2>2. \A k \in P : own'[k] = own[k] /\ parent'[k] = parent[k]
    BY <1>1
  <2>3. Path(own', parent', d, P, l, a)
    BY <2>1, <2>2 DEF Path
  <2>4. \A k \in P : next[k] > next[a]
    BY <1>1, <1>2, <2>1
  <2>5. Passed(pc[g], call[g].logger, call[g].at, next)'
    BY <2>3, <2>4 DEF Passed
  <2> QED BY <1>3, <2>5 DEF Walked
<1> QED BY <1>5, <1>6 DEF Walked

-----------------------------------------------------------------------------
LEMMA UnscopedSteps ==
    ASSUME Inv, Unscoped, NoScopes, NEW g \in Goroutine, Acts(g)
    PROVE  Unscoped'
<1>1. CASE UNCHANGED <<pending, scopes>>
  BY <1>1 DEF Unscoped
<1>2. CASE Configure(g)
  BY <1>2 DEF Configure, Unscoped, Inv, Work
<1>3. CASE Apply(g)
  BY <1>3 DEF Apply, Unscoped, Inv, Work
<1>4. ~EndScope(g) /\ \A l \in created, s \in Override : ~BeginScope(g, l, s)
  BY DEF NoScopes, Unscoped, BeginScope, EndScope, LastScope, Idle
<1> QED
  BY <1>1, <1>2, <1>3, <1>4
  DEF Acts, Progress, Emit, Mutate, Detach, BeginAppend, Climb, Drop, PassGate, Resolve, Deliver,
      EmitReturn, AppendReturn, WarnDisabled, ConfigureReturn

LEMMA WalkInit == ObservedInit => WalkInv
<1> SUFFICES ASSUME ObservedInit PROVE WalkInv
  OBVIOUS
<1>1. PICK top, rank : Tree(parent, rank, top)
  BY TreeInit DEF ObservedInit
<1>2. \A g \in Goroutine : pc[g] \notin Dimension
  BY LabelFacts DEF ObservedInit, Init
<1>3. Unscoped
  BY DEF ObservedInit, Init, Unscoped
<1> QED BY <1>1, <1>2, <1>3, InitInv DEF ObservedInit, WalkInv, Walked

LEMMA WalkStep == OneOwner /\ NoScopes /\ WalkInv /\ [ObservedNext]_observed => WalkInv'
<1> SUFFICES ASSUME OneOwner, NoScopes, WalkInv, [ObservedNext]_observed PROVE WalkInv'
  OBVIOUS
<1>1. CASE UNCHANGED observed
  <2>1. \A rank : \A g \in Goroutine : Walked(g, rank) => Walked(g, rank)'
    BY <1>1 DEF observed, vars, treeVars, Walked, Passed, Settled
  <2>2. Inv'
    BY <1>1, InvStep DEF WalkInv, observed
  <2> QED BY <1>1, <2>1, <2>2 DEF observed, vars, treeVars, WalkInv, Unscoped
<1>2. CASE ObservedNext
  <2>1. PICK g \in Goroutine : Acts(g)
    BY <1>2 DEF ObservedNext, Next, Acts
  <2>2. PICK top, rank : /\ Tree(parent, rank, top) /\ top \in Nat
                         /\ \A h \in Goroutine : Walked(h, rank)
    BY DEF WalkInv, Tree
  <2>3. Inv /\ Unscoped /\ Inv' /\ Unscoped' /\ Observe
    BY <1>2, <2>1, InvStep, UnscopedSteps DEF WalkInv, ObservedNext
  <2>4. \A h \in Goroutine : WalkKind(h)
    BY <2>1, <2>3, WalkKinds
  <2>5. CASE UNCHANGED treeVars
    <3>1. ASSUME NEW h \in Goroutine PROVE Walked(h, rank)'
      <4>1. CASE pc'[h] \notin Dimension
        BY <4>1 DEF Walked
      <4>2. CASE pc'[h] \in Dimension
        BY <2>2, <2>3, <2>4, <2>5, <4>2, Unmoved, Started, Climbed DEF WalkKind
      <4> QED BY <4>1, <4>2
    <3>2. Tree(parent', rank, top)
      BY <2>2, <2>5 DEF treeVars
    <3> QED BY <2>3, <3>1, <3>2 DEF WalkInv
  <2>6. ASSUME ~UNCHANGED treeVars, NEW h \in Goroutine, pc'[h] \in Dimension
        PROVE  pc'[h] = pc[h] /\ call'[h] = call[h]
    BY <2>4, <2>6 DEF WalkKind, Starts, Climb
  <2>7. CASE Changes /\ ~UNCHANGED treeVars
    <3>1. PICK x \in created, e \in Dimension : \E v \in Own(e) : Set(x, e, v) /\ Prompted(x, e)
      BY <2>7 DEF Changes
    <3>2. PICK v \in Own(e) : Set(x, e, v) /\ Prompted(x, e)
      BY <3>1
    <3>3. \E u \in Updates : u.logger = x /\ u.dim = e
      BY <2>3, <3>2 DEF Prompted, Unscoped, NoScopes, Updates
    <3>4. UNCHANGED <<parent, created>>
      BY <2>7 DEF Changes
    <3>5. ASSUME NEW h \in Goroutine PROVE Walked(h, rank)'
      <4>1. CASE pc'[h] \notin Dimension
        BY <4>1 DEF Walked
      <4>2. CASE pc'[h] \in Dimension
        BY <2>2, <2>3, <2>6, <2>7, <3>2, <3>3, <3>4, <4>2, ChangedBeneath
      <4> QED BY <4>1, <4>2
    <3> QED BY <2>2, <2>3, <3>4, <3>5 DEF WalkInv
  <2>8. CASE Branches /\ ~UNCHANGED treeVars
    <3>1. PICK l \in created, s \in Own("sinks") : Branch(l, s)
      BY <2>8 DEF Branches
    <3>2. PICK m \in Detached \ created :
             /\ created' = created \cup {m} /\ parent'[m] = l
             /\ \A k \in Logger \ {m} : own'[k] = own[k] /\ parent'[k] = parent[k]
      BY <2>3, <3>1, BranchTyped DEF Inv
    <3>3. m \in Logger \ created /\ parent' \in [Logger -> Logger \cup {Nil}]
      BY <2>3 DEF Logger, Inv, Family
    <3>4. Tree(parent', [rank EXCEPT ![m] = top + 1], top + 1) /\ top + 1 \in Nat
      BY <2>2, <2>3, <3>2, <3>3, TreeGrows
    <3>5. ASSUME NEW h \in Goroutine PROVE Walked(h, [rank EXCEPT ![m] = top + 1])'
      <4>1. CASE pc'[h] \notin Dimension
        BY <4>1 DEF Walked
      <4>2. CASE pc'[h] \in Dimension
        <5>1. IsTree(parent')
          BY <3>4 DEF IsTree
        <5> QED BY <2>2, <2>3, <2>6, <2>8, <3>2, <3>3, <4>2, <5>1, BranchedBeside
      <4> QED BY <4>1, <4>2
    <3> QED BY <2>3, <3>4, <3>5 DEF WalkInv
  <2> QED BY <2>1, <2>3, <2>5, <2>7, <2>8, TreeKinds
<1> QED BY <1>1, <1>2

(* The invariant holds in every reachable state.                           *)
THEOREM WalkInvariance == OneOwner /\ NoScopes => (ObservedSpec => []WalkInv)
<1> SUFFICES ASSUME OneOwner, NoScopes PROVE ObservedSpec => []WalkInv
  OBVIOUS
<1>1. WalkInv /\ [ObservedNext]_observed => WalkInv'
  BY WalkStep
<1> QED BY <1>1, WalkInit, PTL DEF ObservedSpec

(* The walk up the chain locks one logger at a time (logger.go:188-201),   *)
(* yet what it resolves is a value the setting had, for the whole chain at *)
(* one instant, while it walked: in any tree, whoever sets, configures and *)
(* makes detached children meanwhile, if each setting is only ever changed *)
(* on one logger.                                                          *)
THEOREM ResolvedWasEffectiveCorrect ==
    OneOwner /\ NoScopes => (ObservedSpec => []ResolvedWasEffective)
<1>1. ASSUME WalkInv PROVE ResolvedWasEffective
  <2> SUFFICES ASSUME NEW g \in Goroutine, pc[g] \in Dimension, WalkEnds(g)
               PROVE  Value(g) \in seen[g]
    BY DEF ResolvedWasEffective
  <2>1. PICK top, rank : Tree(parent, rank, top) /\ Walked(g, rank)
    BY <1>1 DEF WalkInv
  <2>2. IsTree(parent) /\ Inv
    BY <1>1, <2>1 DEF IsTree, WalkInv
  <2>3. Value(g) = ValueOf(own, parent, pc[g], call[g].at)
    BY <2>2, ValueAtEnd
  <2>4. CASE Passed(pc[g], call[g].logger, call[g].at, rank)
    <3>1. ValueOf(own, parent, pc[g], call[g].logger) = ValueOf(own, parent, pc[g], call[g].at)
      BY <2>2, <2>4, ValueAlong DEF Passed
    <3> QED BY <2>1, <2>3, <3>1 DEF Walked
  <2> QED BY <2>1, <2>3, <2>4 DEF Walked, Settled
<1> QED BY <1>1, WalkInvariance, PTL

-----------------------------------------------------------------------------
(* All configurations that set sinks, resource or suffixes set the same    *)
(* ones, to values the root does not begin with, and nothing else does.    *)
StagedOf(c) == {w \in c : w.group \in Staged}

OneStaging(T) ==
    /\ T \subseteq UNION Configurations
    /\ \A c \in Configurations : StagedOf(c) \in {{}, T}
    /\ \A u, v \in T : u.dim = v.dim => u = v
    /\ \A u \in T : u.group \in Staged /\ u.value \notin {Inherit, Default[u.dim]}

ConfiguredOnly == \A u \in Settings : u.dim \notin Staged

Applied(o, u) == o[Root][u.dim] = u.value

RootAbove(o, p, l) == \A d \in Staged : Up(o, p, d)[l] = Root

(* What an emit has resolved when it stands at a label.                    *)
Past(label) == CASE label = "resource" -> {"suffixes"}
                 [] label = "sinks" -> {"suffixes", "resource"}
                 [] label = "deliver" -> Staged
                 [] OTHER -> {}

(* What an emit read is applied for good, and what it read after a new     *)
(* value is new if it belongs to an earlier stage.                         *)
InOrder(o, c, past, T) ==
    /\ \A v \in T : v.dim \in past /\ c[v.dim] = v.value => Applied(o, v)
    /\ \A u, v \in T :
          u.dim \in past /\ v.dim \in past /\ Stage[u.group] < Stage[v.group] /\ c[v.dim] = v.value
             => c[u.dim] = u.value

Reading(g, T) ==
    /\ pc[g] \in Staged =>
          \E P \in SUBSET created : Path(own, parent, pc[g], P, call[g].logger, call[g].at)
    /\ pc[g] = "deliver" => call[g].logger \in created
    /\ call[g].op = "emit" /\ RootAbove(own, parent, call[g].logger)
          => InOrder(own, call[g], Past(pc[g]), T)

(* The stages of every Configure under way are applied in order.           *)
InStages(T) ==
    /\ \A g \in Goroutine : \A u \in pending[g] : u.dim \in Staged => u \in T
    /\ \A g \in Goroutine : pending[g] \cap T # {} => \A u \in T \ pending[g] : Applied(own, u)
    /\ \A u, v \in T : Stage[u.group] < Stage[v.group] /\ Applied(own, v) => Applied(own, u)

StagedInv(T) ==
    /\ Inv /\ IsTree(parent) /\ parent[Root] = Nil /\ Unscoped
    /\ InStages(T) /\ \A g \in Goroutine : Reading(g, T)

LEMMA StagedFacts ==
    ASSUME NEW T, OneStaging(T)
    PROVE  /\ Staged \subseteq Dimension
           /\ \A u \in T : IsUpdate(u) /\ u.dim = u.group /\ u.logger = Root /\ u.dim \in Staged
           /\ \A u : IsConfigured(u) /\ u.dim \in Staged => u.group = u.dim /\ u.logger = Root
           /\ Root \in Logger
<1>1. Staged \subseteq Dimension /\ "min" \notin Staged /\ "levels" \notin Staged
  BY Dimensions DEF Staged
<1>2. \A u \in T : IsUpdate(u) /\ IsConfigured(u) /\ u.group \in Staged
  BY LoggerAssumption DEF OneStaging
<1> QED BY <1>1, <1>2, LoggerAssumption DEF IsConfigured, Logger

(* The loggers below the root keep the settings a Configure stages.        *)
BelowKept ==
    /\ created \subseteq created' /\ IsTree(parent') /\ parent'[Root] = Nil
    /\ \A m \in created : parent'[m] = parent[m]
    /\ \A m \in created \ {Root}, d \in Staged : own'[m][d] = own[m][d]

LEMMA FollowsKept ==
    ASSUME Inv, IsTree(parent), parent[Root] = Nil, BelowKept, NEW l \in created
    PROVE  RootAbove(own', parent', l) <=> RootAbove(own, parent, l)
<1>1. ASSUME NEW d \in Staged
      PROVE  Up(own', parent', d)[l] = Up(own, parent, d)[l]
  <2> DEFINE f == Up(own, parent, d)
             f2 == Up(own', parent', d)
             Bad == {m \in created : f2[m] # f[m]}
  <2>1. Climbs(own, parent, d, f) /\ Climbs(own', parent', d, f2)
    BY UpClimbs DEF BelowKept
  <2> HIDE DEF f, f2
  <2>2. created \subseteq Logger /\ \A m \in created : parent[m] \in created \cup {Nil}
    BY DEF Inv, Family
  <2>3. Bad \in SUBSET Logger /\ \A m \in Bad : parent[m] \in Bad
    <3>1. ASSUME NEW m \in Bad PROVE m \in Logger /\ parent[m] \in Bad
      <4>1. m \in Logger /\ m \in created /\ f2[m] # f[m] /\ parent'[m] = parent[m]
        BY <2>2 DEF BelowKept
      <4>2. m # Root
        BY <2>1, <4>1 DEF Climbs
      <4>3. own'[m][d] = own[m][d]
        BY <4>1, <4>2 DEF BelowKept
      <4>4. own[m][d] = Inherit /\ parent[m] # Nil
        BY <2>1, <4>1, <4>3 DEF Climbs
      <4>5. f[m] = f[parent[m]] /\ f2[m] = f2[parent[m]]
        BY <2>1, <4>1, <4>3, <4>4 DEF Climbs
      <4> QED BY <2>2, <4>1, <4>4, <4>5
    <3> QED BY <3>1
  <2>4. Bad = {}
    <3> HIDE DEF Bad
    <3> QED BY <2>3, ByRank
  <2> QED BY <2>4 DEF f, f2
<1> QED BY <1>1 DEF RootAbove

(* A call goes on as it was, its walk perhaps at another logger.           *)
Continues(h) ==
    /\ pc'[h] = pc[h]
    /\ \A f \in {"op", "logger"} \cup Staged : call'[h][f] = call[h][f]
    /\ call'[h].at = call[h].at \/ Climb(h)

Begins(h) ==
    /\ UNCHANGED treeVars /\ pc'[h] \in Staged
    /\ Past(pc'[h]) = {} \/ call'[h].op # "emit"
    /\ call'[h].at = call'[h].logger

LEMMA ReadKinds ==
    ASSUME Inv, NEW g \in Goroutine, Acts(g), NEW h \in Goroutine,
           pc'[h] \in Staged \cup {"deliver"}
    PROVE  Continues(h) \/ Begins(h) \/ Resolve(h)
<1>1. /\ pc \in [Goroutine -> Labels] /\ DOMAIN call = Goroutine
      /\ DOMAIN call[h] = DOMAIN NoCall
  BY DEF Inv, Calls, Sane
<1>2. CASE pc'[h] = pc[h] /\ call'[h] = call[h]
  BY <1>2 DEF Continues
<1>3. CASE UNCHANGED <<pc, call>>
  BY <1>2, <1>3
<1>4. ASSUME NEW label, Goto(g, label), label \notin Staged \cup {"deliver"},
             h # g => call'[h] = call[h]
      PROVE  pc'[h] = pc[h] /\ call'[h] = call[h]
  BY <1>1, <1>4 DEF Goto
<1>5. {"idle", "min", "branch", "configure", "warn"} \cap (Staged \cup {"deliver"}) = {}
  BY DEF Staged
<1>6. CASE Climb(g) \/ Deliver(g)
  BY <1>1, <1>6, NoCallFields DEF Climb, Deliver, Continues, Staged
<1>7. CASE Resolve(g) \/ PassGate(g)
  <2>1. CASE h = g /\ PassGate(g)
    <3>1. pc'[h] = "suffixes" /\ call'[h].at = call[h].logger /\ call'[h].logger = call[h].logger
      BY <1>1, <2>1, NoCallFields DEF PassGate, Goto
    <3> QED BY <2>1, <3>1 DEF PassGate, Begins, Past, Staged
  <2>2. CASE h # g
    <3>1. pc'[h] = pc[h] /\ call'[h] = call[h]
      BY <1>1, <1>7, <2>2 DEF Resolve, PassGate, Goto
    <3> QED BY <1>2, <3>1
  <2> QED BY <1>7, <2>1, <2>2
<1>8. CASE BeginAppend(g)
  <2>1. CASE h = g
    <3>1. PICK l \in created, s \in Override :
             call' = [call EXCEPT ![g] = [NoCall EXCEPT !.op = "append", !.logger = l,
                                                        !.at = l, !.extra = s]]
      BY <1>8 DEF BeginAppend
    <3>2. call'[h].at = l /\ call'[h].logger = l /\ call'[h].op = "append" /\ pc'[h] = "sinks"
      BY <1>1, <1>8, <2>1, <3>1, NoCallFields DEF BeginAppend, Goto
    <3> QED BY <1>8, <2>1, <3>2 DEF BeginAppend, Begins, Staged
  <2>2. CASE h # g
    BY <1>1, <1>2, <1>8, <2>2 DEF BeginAppend, Goto
  <2> QED BY <2>1, <2>2
<1>9. ASSUME NEW l \in created, NEW n \in SeverityNumber, Emit(g, l, n)
      PROVE  pc'[h] = pc[h] /\ call'[h] = call[h]
  BY <1>1, <1>4, <1>5, <1>9 DEF Emit
<1>10. CASE Drop(g) \/ EmitReturn(g) \/ AppendReturn(g) \/ WarnDisabled(g)
  BY <1>1, <1>2, <1>4, <1>5, <1>10 DEF Drop, EmitReturn, AppendReturn, WarnDisabled
<1>11. CASE Configure(g) \/ ConfigureReturn(g) \/ Apply(g)
  BY <1>2, <1>3, <1>4, <1>5, <1>11 DEF Configure, ConfigureReturn, Apply
<1> QED
  BY <1>2, <1>3, <1>6, <1>7, <1>8, <1>9, <1>10, <1>11
  DEF Acts, Progress, Mutate, Detach, BeginScope, EndScope

-----------------------------------------------------------------------------
(* The emits of the others, and the walks that go on.                      *)
LEMMA ReadingOn ==
    ASSUME Inv, IsTree(parent), parent[Root] = Nil, BelowKept, NEW T, OneStaging(T),
           \A u \in T : Applied(own, u) => Applied(own', u),
           NEW h \in Goroutine, Reading(h, T), Continues(h),
           pc[h] \in Staged \cup {"deliver"}
    PROVE  Reading(h, T)'
<1> DEFINE l == call[h].logger
           a == call[h].at
           d == pc[h]
<1>1. call'[h].op = call[h].op /\ call'[h].logger = l
  BY DEF Continues
<1>2. l \in created
  BY StagedFacts DEF Reading, Inv, Calls, Standing, Staged
<1>3. ASSUME d \in Staged
      PROVE  \E P \in SUBSET created' : Path(own', parent', d, P, l, call'[h].at)
  <2>1. PICK P \in SUBSET created : Path(own, parent, d, P, l, a)
    BY <1>3 DEF Reading
  <2>2. Root \notin P
    BY <2>1 DEF Path
  <2>3. /\ Path(own', parent', d, P, l, a) /\ P \in SUBSET created'
    BY <1>3, <2>1, <2>2 DEF Path, BelowKept
  <2>4. CASE Climb(h)
    <3>1. own'[a][d] = Inherit /\ parent'[a] # Nil /\ parent'[a] = parent[a] /\ created' = created
      BY <2>4 DEF Climb, WalkEnds, OwnValue, treeVars
    <3>2. a \in created /\ a \in Logger
      BY <1>3, StagedFacts, InPlace
    <3>3. DOMAIN call = Goroutine /\ DOMAIN call[h] = DOMAIN NoCall
      BY DEF Inv, Calls, Sane
    <3>4. call'[h].at = parent[a]
      BY <2>4, <3>3, NoCallFields DEF Climb
    <3>5. Path(own', parent', d, P \cup {a}, l, parent'[a])
      BY <2>3, <3>1, <3>2, PathExtends
    <3> QED BY <3>1, <3>2, <3>4, <3>5
  <2> QED BY <2>3, <2>4 DEF Continues
<1>4. ASSUME call[h].op = "emit", RootAbove(own', parent', l)
      PROVE  InOrder(own', call'[h], Past(pc'[h]), T)
  <2>1. InOrder(own, call[h], Past(d), T)
    BY <1>2, <1>4, FollowsKept DEF Reading
  <2>2. \A u \in T : call'[h][u.dim] = call[h][u.dim]
    BY StagedFacts DEF Continues
  <2> QED BY <2>1, <2>2 DEF InOrder, Continues
<1>5. pc'[h] = "deliver" => call'[h].logger \in created'
  BY <1>1, <1>2 DEF BelowKept
<1> QED BY <1>1, <1>3, <1>4, <1>5 DEF Reading, Continues

LEMMA ReadingBegins ==
    ASSUME NEW T, NEW h \in Goroutine, Begins(h)
    PROVE  Reading(h, T)'
<1>1. Path(own', parent', pc'[h], {}, call'[h].logger, call'[h].at)
  BY DEF Begins, Path
<1>2. call'[h].op = "emit" => InOrder(own', call'[h], Past(pc'[h]), T)
  BY DEF Begins, InOrder
<1>3. pc'[h] # "deliver"
  BY DEF Begins, Staged
<1> QED BY <1>1, <1>2, <1>3 DEF Reading

(* A staged setting is read at the root: a new value after the earlier     *)
(* stages.                                                                 *)
LEMMA ReadingResolves ==
    ASSUME Inv, IsTree(parent), NEW T, OneStaging(T), InStages(T),
           NEW h \in Goroutine, Reading(h, T), Resolve(h), pc'[h] \in Staged \cup {"deliver"}
    PROVE  Reading(h, T)'
<1> DEFINE l == call[h].logger
           d == pc[h]
<1>1. /\ d \in {"suffixes", "resource", "sinks"} /\ d \in Dimension /\ d \in Staged
      /\ UNCHANGED treeVars /\ WalkEnds(h)
  BY Dimensions DEF Resolve, Staged
<1>2. /\ DOMAIN call = Goroutine /\ DOMAIN call[h] = DOMAIN NoCall
      /\ l \in created /\ pc \in [Goroutine -> Labels] /\ h \in DOMAIN pc
  BY <1>1 DEF Inv, Calls, Sane, Standing
<1>3. /\ call'[h][d] = Value(h) /\ call'[h].at = l /\ call'[h].logger = l
      /\ call'[h].op = call[h].op
      /\ \A e \in Staged : e # d => call'[h][e] = call[h][e]
      /\ pc'[h] = Following(h)
  BY <1>1, <1>2, NoCallFields DEF Resolve, Goto, Staged
<1>4. pc'[h] \in Staged => Path(own', parent', pc'[h], {}, call'[h].logger, call'[h].at)
  BY <1>3 DEF Path
<1>5. pc'[h] = "deliver" => call'[h].logger \in created'
  BY <1>1, <1>2, <1>3 DEF treeVars
<1>6. ASSUME call[h].op = "emit", RootAbove(own', parent', l)
      PROVE  InOrder(own', call'[h], Past(pc'[h]), T)
  <2>1. /\ RootAbove(own, parent, l) /\ Up(own, parent, d)[l] = Root
        /\ own' = own /\ parent' = parent
    BY <1>1, <1>6 DEF RootAbove, treeVars
  <2>2. call[h].at = Root
    <3>1. PICK P \in SUBSET created : Path(own, parent, d, P, l, call[h].at)
      BY <1>1 DEF Reading
    <3>2. Up(own, parent, d)[l] = Up(own, parent, d)[call[h].at]
      BY <3>1, UpAlong
    <3>3. Source(call[h].at, d) = call[h].at
      BY <1>1, ValueAtEnd
    <3> QED BY <2>1, <3>2, <3>3, SourceIsUp
  <2>3. \A v \in T : v.dim = d /\ Value(h) = v.value => Applied(own, v)
    BY <2>2 DEF Value, OwnValue, Applied, OneStaging
  <2>4. \A v \in T : v.dim = d /\ Applied(own, v) => Value(h) = v.value
    BY <2>2 DEF Value, OwnValue, Applied, OneStaging
  <2>5. /\ InOrder(own, call[h], Past(d), T)
        /\ \A u \in T : u.dim \in Staged /\ u.group = u.dim
    BY <1>6, <2>1, StagedFacts DEF Reading
  <2>6. Past(pc'[h]) = Past(d) \cup {d} /\ d \notin Past(d) /\ Past(d) \subseteq Staged
    BY <1>1, <1>3, <1>6 DEF Following, Past, Staged
  <2>7. \A e \in Past(d) : Stage[e] > Stage[d]
    BY <1>1 DEF Past, Stage
  <2>8. ASSUME NEW v \in T, v.dim \in Past(d) \cup {d}, call'[h][v.dim] = v.value
        PROVE  Applied(own, v)
    BY <1>3, <2>3, <2>5, <2>6, <2>8 DEF InOrder
  <2>9. ASSUME NEW u \in T, NEW v \in T, u.dim \in Past(d) \cup {d}, v.dim \in Past(d) \cup {d},
                Stage[u.group] < Stage[v.group], call'[h][v.dim] = v.value
         PROVE  call'[h][u.dim] = u.value
    <3>1. Applied(own, v) /\ Applied(own, u)
      BY <2>8, <2>9 DEF InStages
    <3>2. CASE u.dim = d
      BY <1>3, <2>4, <3>1, <3>2
    <3>3. CASE u.dim # d /\ v.dim = d
      <4>1. Stage[u.group] > Stage[v.group] /\ Stage[u.group] \in Int /\ Stage[v.group] \in Int
        BY <1>1, <2>5, <2>7, <2>9, <3>3 DEF Stage, Staged
      <4> QED BY <2>9, <4>1
    <3>4. CASE u.dim # d /\ v.dim # d
      BY <1>3, <2>5, <2>6, <2>9, <3>4 DEF InOrder
    <3> QED BY <3>2, <3>3, <3>4
  <2> QED BY <2>1, <2>6, <2>8, <2>9 DEF InOrder
<1>7. call'[h].op = "emit" /\ RootAbove(own', parent', call'[h].logger)
         => InOrder(own', call'[h], Past(pc'[h]), T)
  BY <1>3, <1>6
<1> QED BY <1>4, <1>5, <1>7 DEF Reading

-----------------------------------------------------------------------------
RootKept == \A d \in Staged : own'[Root][d] = own[Root][d]

LEMMA OtherTreeSteps ==
    ASSUME NEW T, OneStaging(T), StagedInv(T), Inv', NEW g \in Goroutine, Acts(g),
           UNCHANGED treeVars \/ Branches
             \/ \E u : /\ IsUpdate(u) /\ u.dim \notin Staged /\ Set(u.logger, u.dim, u.value)
                       /\ UNCHANGED <<parent, created>>
    PROVE  BelowKept /\ RootKept
<1>1. /\ Inv /\ IsTree(parent) /\ parent[Root] = Nil /\ IsTree(parent')
      /\ created \subseteq Logger /\ Root \in created /\ Staged \subseteq Dimension
  BY TreeStays, StagedFacts, LoggerAssumption DEF StagedInv, Inv, Family
<1>2. CASE UNCHANGED treeVars
  BY <1>1, <1>2 DEF BelowKept, RootKept, treeVars
<1>3. CASE Branches
  <2>1. PICK l \in created, s \in Own("sinks") : Branch(l, s)
    BY <1>3 DEF Branches
  <2>2. PICK m \in Detached \ created :
           /\ created' = created \cup {m}
           /\ \A k \in Logger \ {m} : own'[k] = own[k] /\ parent'[k] = parent[k]
    BY <1>1, <2>1, BranchTyped DEF Inv
  <2> QED BY <1>1, <2>2 DEF BelowKept, RootKept
<1>4. ASSUME NEW u, IsUpdate(u), u.dim \notin Staged, Set(u.logger, u.dim, u.value),
             UNCHANGED <<parent, created>>
      PROVE  BelowKept /\ RootKept
  <2>1. \A m \in Logger, d \in Staged : own'[m][d] = own[m][d]
    BY <1>1, <1>4, SetTyped DEF IsUpdate, Inv, Family
  <2> QED BY <1>1, <1>4, <2>1 DEF BelowKept, RootKept
<1> QED BY <1>2, <1>3, <1>4

LEMMA StageSteps ==
    ASSUME NEW T, OneStaging(T), ConfiguredOnly, NoScopes, StagedInv(T), Inv',
           NEW g \in Goroutine, Acts(g)
    PROVE  /\ BelowKept /\ InStages(T)'
           /\ \A u \in T : Applied(own, u) => Applied(own', u)
<1>1. /\ Inv /\ InStages(T) /\ \A u \in T : u.dim \in Staged
      /\ \A h \in Goroutine : \A u \in pending[h] : IsUpdate(u) /\ IsConfigured(u)
  BY StagedFacts DEF StagedInv, Inv, Work
<1>2. ASSUME BelowKept, RootKept,
             \A h \in Goroutine : \/ pending'[h] \subseteq pending[h]
                                        /\ pending'[h] \cap T = pending[h] \cap T
                                  \/ pending'[h] \in Configurations
      PROVE  /\ BelowKept /\ InStages(T)'
             /\ \A u \in T : Applied(own, u) => Applied(own', u)
  <2>1. \A u \in T : Applied(own', u) <=> Applied(own, u)
    BY <1>1, <1>2 DEF RootKept, Applied
  <2>2. ASSUME NEW h \in Goroutine, NEW u \in pending'[h], u.dim \in Staged PROVE u \in T
    <3>1. CASE pending'[h] \subseteq pending[h]
      BY <1>1, <2>2, <3>1 DEF InStages
    <3>2. CASE pending'[h] \in Configurations
      <4>1. u.group \in Staged
        BY <2>2, <3>2, StagedFacts, LoggerAssumption
      <4> QED BY <2>2, <3>2, <4>1 DEF OneStaging, StagedOf
    <3> QED BY <1>2, <3>1, <3>2
  <2>3. ASSUME NEW h \in Goroutine, pending'[h] \cap T # {}, NEW u \in T \ pending'[h]
        PROVE  Applied(own, u)
    <3>1. CASE pending'[h] \cap T = pending[h] \cap T
      BY <1>1, <2>3, <3>1 DEF InStages
    <3>2. CASE pending'[h] \in Configurations
      BY <2>3, <3>2 DEF OneStaging, StagedOf
    <3> QED BY <1>2, <3>1, <3>2
  <2> QED BY <1>1, <1>2, <2>1, <2>2, <2>3 DEF InStages
<1>3. CASE Apply(g)
  <2>1. PICK u \in NextUpdates(g) : /\ Set(u.logger, u.dim, u.value)
                                    /\ pending' = [pending EXCEPT ![g] = @ \ {u}]
    BY <1>3 DEF Apply
  <2>2. /\ u \in pending[g] /\ IsUpdate(u) /\ IsConfigured(u)
        /\ UNCHANGED <<parent, created>>
        /\ \A h \in Goroutine : pending'[h] = IF h = g THEN pending[g] \ {u} ELSE pending[h]
    BY <1>1, <1>3, <2>1 DEF NextUpdates, Apply, Inv, Work
  <2>3. CASE u.dim \notin Staged
    <3>1. BelowKept /\ RootKept
      BY <2>1, <2>2, <2>3, OtherTreeSteps
    <3>2. u \notin T
      BY <1>1, <2>3
    <3>3. \A h \in Goroutine : pending'[h] \subseteq pending[h]
                               /\ pending'[h] \cap T = pending[h] \cap T
      BY <2>2, <3>2
    <3> QED BY <1>2, <3>1, <3>3
  <2>4. CASE u.dim \in Staged
    <3>1. u \in T /\ u.logger = Root /\ u.dim = u.group /\ Staged \subseteq Dimension
      BY <1>1, <2>2, <2>4, StagedFacts DEF InStages
    <3>2. /\ own'[Root][u.dim] = u.value
          /\ \A m \in Logger, d \in Dimension : m # Root \/ d # u.dim => own'[m][d] = own[m][d]
      <4>1. Root \in Logger /\ u.dim \in Dimension /\ u.value \in Own(u.dim)
        BY <2>2, <3>1, StagedFacts DEF IsUpdate
      <4> QED BY <1>1, <2>1, <3>1, <4>1, SetTyped DEF Inv, Family
    <3>3. BelowKept
      <4>1. created \subseteq Logger /\ IsTree(parent) /\ parent[Root] = Nil /\ IsTree(parent')
        BY <2>2, TreeStays DEF StagedInv, Inv, Family
      <4> QED BY <2>2, <3>1, <3>2, <4>1 DEF BelowKept
    <3>4. \A v \in T : Applied(own', v) <=> (v = u \/ Applied(own, v))
      <4>1. ASSUME NEW v \in T PROVE Applied(own', v) <=> (v = u \/ Applied(own, v))
        <5>1. CASE v.dim = u.dim
          <6>1. v = u
            BY <3>1, <5>1 DEF OneStaging
          <6> QED BY <3>2, <6>1 DEF Applied
        <5>2. CASE v.dim # u.dim
          <6>1. v.dim \in Dimension /\ Root \in Logger
            BY <1>1, <3>1, StagedFacts
          <6> QED BY <3>2, <5>2, <6>1 DEF Applied
        <5> QED BY <5>1, <5>2
      <4> QED BY <4>1
    <3>5. \A v \in T : Stage[v.group] < Stage[u.group] => Applied(own, v)
      <4>1. ASSUME NEW v \in T, Stage[v.group] < Stage[u.group] PROVE Applied(own, v)
        <5>1. Stage[v.group] \in Int /\ Stage[u.group] \in Int
          BY <3>1, StagedFacts DEF Stage, Staged
        <5>2. v \notin pending[g]
          BY <2>1, <4>1, <5>1 DEF NextUpdates
        <5> QED BY <1>1, <2>2, <3>1, <5>2 DEF InStages
      <4> QED BY <4>1
    <3>6. ASSUME NEW h \in Goroutine, pending'[h] \cap T # {}, NEW v \in T \ pending'[h]
          PROVE  Applied(own', v)
      BY <1>1, <2>2, <3>1, <3>4, <3>6 DEF InStages
    <3>7. ASSUME NEW v \in T, NEW w \in T, Stage[v.group] < Stage[w.group], Applied(own', w)
          PROVE  Applied(own', v)
      BY <1>1, <3>4, <3>5, <3>7 DEF InStages
    <3>8. \A h \in Goroutine : \A v \in pending'[h] : v.dim \in Staged => v \in T
      BY <1>1, <2>2 DEF InStages
    <3> QED BY <3>3, <3>4, <3>6, <3>7, <3>8 DEF InStages
  <2> QED BY <2>3, <2>4
<1>4. CASE Configure(g)
  <2>1. BelowKept /\ RootKept
    BY <1>4, OtherTreeSteps DEF Configure
  <2>2. \A h \in Goroutine : pending'[h] = pending[h] \/ pending'[h] \in Configurations
    BY <1>4 DEF Configure, Inv, Work
  <2> QED BY <1>2, <2>1, <2>2
<1>5. CASE Mutate(g)
  <2>1. PICK u \in Settings : Set(u.logger, u.dim, u.value)
    BY <1>5 DEF Mutate
  <2>2. IsUpdate(u) /\ u.dim \notin Staged
    BY LoggerAssumption DEF ConfiguredOnly
  <2>3. BelowKept /\ RootKept
    BY <1>5, <2>1, <2>2, OtherTreeSteps DEF Mutate
  <2> QED BY <1>2, <1>5, <2>3 DEF Mutate
<1>6. ASSUME UNCHANGED treeVars \/ Branches, UNCHANGED pending
      PROVE  /\ BelowKept /\ InStages(T)'
             /\ \A u \in T : Applied(own, u) => Applied(own', u)
  BY <1>2, <1>6, OtherTreeSteps
<1>7. ~EndScope(g) /\ \A l \in created, s \in Override : ~BeginScope(g, l, s)
  BY DEF NoScopes, StagedInv, Unscoped, BeginScope, EndScope, LastScope, Idle
<1>8. CASE Detach(g) \/ AppendReturn(g)
  <2>1. \E l, s : Branch(l, s)
    BY <1>8 DEF Detach, AppendReturn
  <2>2. created' # created
    BY <2>1 DEF Branch
  <2>3. Branches
    BY <1>1, <2>2, TreeKinds DEF Changes, treeVars
  <2> QED BY <1>6, <1>8, <2>3 DEF Detach, AppendReturn
<1> QED
  BY <1>3, <1>4, <1>5, <1>6, <1>7, <1>8
  DEF Acts, Progress, Emit, BeginAppend, Climb, Drop, PassGate, Resolve, Deliver,
      EmitReturn, WarnDisabled, ConfigureReturn

LEMMA StagedInit == \A T : OneStaging(T) /\ Init => StagedInv(T)
<1> SUFFICES ASSUME NEW T, OneStaging(T), Init PROVE StagedInv(T)
  OBVIOUS
<1>1. Inv /\ IsTree(parent) /\ parent[Root] = Nil
  BY InitInv, TreeInit, TreeAssumption, LoggerAssumption DEF IsTree, Init, Logger
<1>2. \A g \in Goroutine : pc[g] = "idle" /\ pending[g] = {} /\ call[g] = NoCall
  BY DEF Init
<1>3. \A g \in Goroutine : Reading(g, T)
  BY <1>2, NoCallFields DEF Reading, Staged
<1>4. \A u \in T : ~Applied(own, u)
  <2>1. own[Root] = Inheriting
    BY LoggerAssumption DEF Init, Logger
  <2> QED BY <2>1, StagedFacts, InheritingTyped DEF Applied, OneStaging
<1> QED BY <1>1, <1>2, <1>3, <1>4 DEF StagedInv, InStages, Unscoped, Init

LEMMA StagedStep ==
    ASSUME NEW T, OneStaging(T), ConfiguredOnly, NoScopes, StagedInv(T), [Next]_vars
    PROVE  StagedInv(T)'
<1>1. Inv /\ Inv' /\ IsTree(parent)
  BY InvStep DEF StagedInv
<1>2. CASE UNCHANGED vars
  <2>1. \A g \in Goroutine : Reading(g, T)'
    BY <1>2 DEF StagedInv, Reading, vars, treeVars
  <2> QED BY <1>1, <1>2, <2>1 DEF StagedInv, IsTree, InStages, Unscoped, vars, treeVars
<1>3. CASE Next
  <2>1. PICK g \in Goroutine : Acts(g)
    BY <1>3 DEF Next, Acts
  <2>2. /\ BelowKept /\ InStages(T)' /\ \A u \in T : Applied(own, u) => Applied(own', u)
    BY <1>1, <2>1, StageSteps
  <2>3. Unscoped'
    BY <1>1, <2>1, UnscopedSteps DEF StagedInv
  <2>4. ASSUME NEW h \in Goroutine PROVE Reading(h, T)'
    <3>1. CASE pc'[h] \notin Staged \cup {"deliver"}
      <4>1. Past(pc'[h]) = {}
        BY <3>1 DEF Past, Staged
      <4> QED BY <3>1, <4>1 DEF Reading, InOrder
    <3>2. CASE pc'[h] \in Staged \cup {"deliver"}
      <4>1. Reading(h, T) /\ InStages(T) /\ parent[Root] = Nil
        BY DEF StagedInv
      <4>2. Continues(h) => Reading(h, T)'
        BY <1>1, <2>2, <3>2, <4>1, ReadingOn DEF Continues
      <4>3. Resolve(h) => Reading(h, T)'
        BY <1>1, <3>2, <4>1, ReadingResolves
      <4> QED BY <1>1, <2>1, <3>2, <4>2, <4>3, ReadKinds, ReadingBegins
    <3> QED BY <3>1, <3>2
  <2> QED BY <1>1, <2>2, <2>3, <2>4 DEF StagedInv, BelowKept
<1> QED BY <1>2, <1>3

(* Every Configure that sets sinks, resource or suffixes sets the same     *)
(* ones, once each, to values other than those the root starts with; no    *)
(* setter and no scope touches them.                                       *)
OneBootstrap == ConfiguredOnly /\ NoScopes /\ \E T : OneStaging(T)

(* An emit that follows the root and masks by the suffixes of a Configure  *)
(* carries its resource and goes to its sinks, and one that carries its    *)
(* resource goes to its sinks (configuration.go:158-172 against            *)
(* logger.go:634-655): in any tree, however many goroutines configure and  *)
(* emit at once, whatever levels are set meanwhile.                        *)
THEOREM ConfigureOrderedCorrect == OneBootstrap => (Spec => []ConfigureOrdered)
<1> SUFFICES ASSUME OneBootstrap PROVE Spec => []ConfigureOrdered
  OBVIOUS
<1>1. PICK T : OneStaging(T)
  BY DEF OneBootstrap
<1>2. Init => StagedInv(T)
  BY <1>1, StagedInit
<1>3. StagedInv(T) /\ [Next]_vars => StagedInv(T)'
  BY <1>1, StagedStep DEF OneBootstrap
<1>4. StagedInv(T) => ConfigureOrdered
  <2> SUFFICES ASSUME StagedInv(T), NEW g \in Goroutine, NEW c \in Configurations, Carrying(g),
                      NEW u \in {w \in c : w.group \in Staged},
                      NEW v \in {w \in c : w.group \in Staged},
                      Stage[u.group] < Stage[v.group], call[g][v.dim] = v.value
               PROVE  call[g][u.dim] = u.value
    BY DEF ConfigureOrdered
  <2>1. u \in T /\ v \in T
    BY <1>1 DEF OneStaging, StagedOf
  <2>2. RootAbove(own, parent, call[g].logger)
    BY SourceIsUp DEF Carrying, FollowsRoot, RootAbove
  <2>3. InOrder(own, call[g], Past(pc[g]), T) /\ Past(pc[g]) = Staged
    BY <2>2 DEF StagedInv, Reading, Carrying, Past
  <2> QED BY <1>1, <2>1, <2>3, StagedFacts DEF InOrder
<1> QED BY <1>2, <1>3, <1>4, PTL DEF Spec
=============================================================================
