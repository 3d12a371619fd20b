------------------------ MODULE LoggerRegistryProofs ------------------------
(***************************************************************************)
(* Theorems about LoggerRegistry, for any set of names, loggers, versions  *)
(* and goroutines.  Inv is the inductive invariant: it adds to the checked *)
(* properties which locks a goroutine holds at each label, and what it     *)
(* knows of the logger in its hands.                                       *)
(***************************************************************************)
EXTENDS LoggerRegistry, TLAPS

(* The labels at which the local variable l is set.                        *)
Holding(g) ==
    pc[g] \in {"checkVersion", "lockNode", "setVersion", "setScope", "return"}

WriterHeld ==
    \A g \in Goroutine : pc[g] \in {"recheck", "create"} => writer = g

(* The slot a goroutine is about to fill is still empty.                   *)
SlotEmpty ==
    \A g \in Goroutine : pc[g] = "create" => registry[want[g]] = Nil

NodeLocked ==
    \A g \in Goroutine : pc[g] \in {"setVersion", "setScope"} => mu[handle[g]] = g

ScopePending ==
    \A g \in Goroutine :
        pc[g] = "setScope" => version[handle[g]] = wantVersion[g]

Bound ==
    \A n \in Name : registry[n] # Nil =>
        registry[n] \in allocated /\ nameOf[registry[n]] = n

Linked ==
    \A n \in Name : registry[n] # Nil =>
        ParentReady(n) /\ parent[registry[n]] = ParentFor(n)

Lineage ==
    \A m \in allocated : parent[m] # Nil =>
        parent[m] \in allocated /\ (m \in Live <=> parent[m] \in Live)

HandleKnown ==
    \A g \in Goroutine :
        /\ ~Holding(g) => handle[g] = Nil
        /\ Holding(g) => /\ handle[g] \in allocated
                         /\ nameOf[handle[g]] = want[g]
                         /\ handle[g] = registry[want[g]] \/ handle[g] \notin Live

OwnSinksAllocated == ownSinks \subseteq allocated

Structure == Bound /\ Linked /\ Lineage /\ InternalIsolated /\ OwnSinksAllocated

Control == /\ WriterHeld /\ SlotEmpty /\ HandleKnown
           /\ NodeLocked /\ ScopePending /\ VersionScopeAgree

Inv == TypeOK /\ Structure /\ Control

-----------------------------------------------------------------------------
(* What creating a logger does, with the fresh address named.              *)
LEMMA Creation ==
    ASSUME TypeOK, NEW n \in Name, NEW v, NewLogger(n, v)
    PROVE  \E m \in Node :
             /\ m \notin allocated
             /\ allocated' = allocated \cup {m}
             /\ nameOf' = [nameOf EXCEPT ![m] = n]
             /\ parent' = [parent EXCEPT ![m] = ParentFor(n)]
             /\ version' = [version EXCEPT ![m] = v]
             /\ scopeVersion' = [scopeVersion EXCEPT ![m] = v]
             /\ ownSinks' = IF n = Internal THEN ownSinks \cup {m} ELSE ownSinks
             /\ registry' = [registry EXCEPT ![n] = m]
             /\ mu' = mu
<1>1. \E x \in Node : x \notin allocated
  BY DEF TypeOK, NewLogger, HasOwnSinks
<1>2. (CHOOSE x \in Node : x \notin allocated) \in Node \ allocated
  BY <1>1
<1> QED BY <1>2 DEF NewLogger, HasOwnSinks

(* A logger created in an empty slot joins the live ones, no other logger  *)
(* enters or leaves.                                                       *)
LEMMA LiveGrows ==
    ASSUME TypeOK, NEW n \in Name, NEW m \in Node, registry[n] = Nil,
           registry' = [registry EXCEPT ![n] = m]
    PROVE  Live' = Live \cup {m}
<1>1. \A k \in Name : registry'[k] = IF k = n THEN m ELSE registry[k]
  BY DEF TypeOK
<1>2. m # Nil
  BY RegistryAssumption
<1> QED BY <1>1, <1>2 DEF Live

(* Every step has the types of the variables.                              *)
LEMMA NewLoggerTyped ==
    ASSUME TypeOK, NEW n \in Name, NEW v \in Version \cup {NoVersion},
           NewLogger(n, v)
    PROVE  /\ registry' \in [Name -> Node \cup {Nil}]
           /\ allocated' \in SUBSET Node
           /\ nameOf' \in [Node -> Name]
           /\ parent' \in [Node -> Node \cup {Nil}]
           /\ version' \in [Node -> Version \cup {NoVersion}]
           /\ scopeVersion' \in [Node -> Version \cup {NoVersion}]
           /\ ownSinks' \in SUBSET Node
           /\ mu' \in [Node -> Goroutine \cup {Nil}]
<1>1. ParentFor(n) \in Node \cup {Nil}
  BY RegistryAssumption DEF ParentFor, TypeOK
<1>2. PICK m \in Node : 
             /\ allocated' = allocated \cup {m}
             /\ nameOf' = [nameOf EXCEPT ![m] = n]
             /\ parent' = [parent EXCEPT ![m] = ParentFor(n)]
             /\ version' = [version EXCEPT ![m] = v]
             /\ scopeVersion' = [scopeVersion EXCEPT ![m] = v]
             /\ ownSinks' = IF n = Internal THEN ownSinks \cup {m} ELSE ownSinks
             /\ registry' = [registry EXCEPT ![n] = m]
             /\ mu' = mu
  BY Creation
<1> QED BY <1>1, <1>2 DEF TypeOK

THEOREM InitInv == Init => Inv
<1> SUFFICES ASSUME Init PROVE Inv
  OBVIOUS
<1>1. TypeOK
  BY RegistryAssumption DEF Init, TypeOK, Pcs
<1>2. /\ WriterHeld /\ SlotEmpty /\ NodeLocked /\ ScopePending
      /\ VersionScopeAgree /\ Bound /\ Linked
  BY DEF Init, WriterHeld, SlotEmpty, NodeLocked, ScopePending,
         VersionScopeAgree, Bound, Linked
<1>3. Lineage /\ HandleKnown /\ InternalIsolated /\ OwnSinksAllocated
  BY DEF Init, Lineage, HandleKnown, Holding, InternalIsolated, OwnSinksAllocated
<1> QED BY <1>1, <1>2, <1>3 DEF Inv, Structure, Control

-----------------------------------------------------------------------------
(* TypeOK is inductive on its own.                                         *)
LEMMA TypeStep == TypeOK /\ [Next]_vars => TypeOK'
<1> SUFFICES ASSUME TypeOK, [Next]_vars PROVE TypeOK'
  OBVIOUS
<1> USE DEF TypeOK, Pcs, Goto, nodeVars, versionVars, callVars
<1>1. CASE UNCHANGED vars
  BY <1>1 DEF vars
<1>2. CASE Next
  <2> PICK g \in Goroutine :
        \/ \E n \in Name, v \in Version \cup {NoVersion} : Call(g, n, v)
        \/ Acquire(g) \/ Progress(g) \/ Reset(g)
    BY <1>2 DEF Next
  <2>1. ASSUME NEW n \in Name, NEW v \in Version \cup {NoVersion}, Call(g, n, v)
        PROVE  TypeOK'
    BY <2>1 DEF Call
  <2>2. CASE Lookup(g) \/ Lock(g) \/ Recheck(g)
    BY <2>2 DEF Lookup, Lock, Recheck, UseCachedOr
  <2>3. CASE LockNode(g) \/ SetVersion(g) \/ SetScope(g) \/ CheckVersion(g)
    BY <2>3 DEF LockNode, SetVersion, SetScope, CheckVersion
  <2>4. CASE CreateAncestor(g)
    <3>1. PICK n \in Name : NewLogger(n, NoVersion)
      BY <2>4 DEF CreateAncestor, Chain
    <3> QED BY <3>1, <2>4, NewLoggerTyped DEF CreateAncestor
  <2>5. CASE CreateRequested(g)
    BY <2>5, NewLoggerTyped DEF CreateRequested
  <2>6. CASE Return(g) \/ Reset(g)
    BY <2>6, RegistryAssumption DEF Return, Reset
  <2> QED BY <2>1, <2>2, <2>3, <2>4, <2>5, <2>6 DEF Acquire, Progress
<1> QED BY <1>1, <1>2

(* The critical sections that leave the tree alone keep its shape.         *)
LEMMA StructureUnchanged ==
    ASSUME Structure, UNCHANGED <<registry, nodeVars>>
    PROVE  Structure'
BY DEF Structure, Bound, Linked, Lineage, InternalIsolated, OwnSinksAllocated, Live, nodeVars,
       ParentReady, ParentFor

(* Filling an empty slot whose parent is in place keeps it too.            *)
LEMMA CreationStructure ==
    ASSUME TypeOK, Structure, NEW n \in Name, NEW v, registry[n] = Nil,
           ParentReady(n), NewLogger(n, v)
    PROVE  Structure'
<1>1. PICK m \in Node :
         /\ m \notin allocated
         /\ allocated' = allocated \cup {m}
         /\ nameOf' = [nameOf EXCEPT ![m] = n]
         /\ parent' = [parent EXCEPT ![m] = ParentFor(n)]
         /\ ownSinks' = IF n = Internal THEN ownSinks \cup {m} ELSE ownSinks
         /\ registry' = [registry EXCEPT ![n] = m]
  BY Creation
<1>2. m # Nil /\ Live' = Live \cup {m}
  BY <1>1, LiveGrows, RegistryAssumption
<1>3. \A k \in Name : registry'[k] = IF k = n THEN m ELSE registry[k]
  BY <1>1 DEF TypeOK
<1>4. \A x \in Node : /\ nameOf'[x] = IF x = m THEN n ELSE nameOf[x]
                      /\ parent'[x] = IF x = m THEN ParentFor(n) ELSE parent[x]
  BY <1>1 DEF TypeOK
<1>5. Bound'
  BY <1>1, <1>2, <1>3, <1>4 DEF Structure, Bound, TypeOK
<1>6. ParentFor(n) # Nil => ParentFor(n) \in allocated /\ ParentFor(n) \in Live
  BY RegistryAssumption DEF ParentFor, Structure, Bound, Live
<1>7. Linked'
  <2> SUFFICES ASSUME NEW k \in Name, registry'[k] # Nil
               PROVE  ParentReady(k)' /\ parent'[registry'[k]] = ParentFor(k)'
    BY DEF Linked
  <2>1. ParentReady(k) /\ (k # Root => ParentNameOf[k] # n \/ k = n)
    BY <1>3, <1>1, RegistryAssumption DEF Structure, Linked, ParentReady, ParentFor
  <2>2. ParentFor(k)' = ParentFor(k)
    BY <2>1, <1>3, RegistryAssumption DEF ParentFor, ParentReady
  <2> QED
    BY <2>1, <2>2, <1>1, <1>3, <1>4 DEF Structure, Linked, Bound, ParentReady, TypeOK
<1>8. Lineage'
  BY <1>1, <1>2, <1>4, <1>6 DEF Structure, Lineage, TypeOK
<1>9. InternalIsolated' /\ OwnSinksAllocated'
  BY <1>1, <1>4 DEF Structure, InternalIsolated, OwnSinksAllocated, TypeOK
<1> QED BY <1>5, <1>7, <1>8, <1>9 DEF Structure

(* Filling an empty slot makes no held logger wrong: the fresh one is in   *)
(* nobody's hands.                                                         *)
LEMMA CreationKeepsHandles ==
    ASSUME TypeOK, Structure, NEW n \in Name, NEW v, registry[n] = Nil,
           NewLogger(n, v),
           NEW h \in allocated, NEW k \in Name,
           nameOf[h] = k, h = registry[k] \/ h \notin Live
    PROVE  /\ h \in allocated' /\ nameOf'[h] = k
           /\ h = registry'[k] \/ h \notin Live'
           /\ version'[h] = version[h] /\ scopeVersion'[h] = scopeVersion[h]
<1>1. PICK m \in Node :
         /\ m \notin allocated
         /\ allocated' = allocated \cup {m}
         /\ nameOf' = [nameOf EXCEPT ![m] = n]
         /\ version' = [version EXCEPT ![m] = v]
         /\ scopeVersion' = [scopeVersion EXCEPT ![m] = v]
         /\ registry' = [registry EXCEPT ![n] = m]
  BY Creation
<1>2. h # m /\ h \in Node /\ h # Nil
  BY <1>1, RegistryAssumption DEF TypeOK
<1>3. Live' = Live \cup {m}
  BY <1>1, LiveGrows
<1> QED BY <1>1, <1>2, <1>3 DEF TypeOK

-----------------------------------------------------------------------------
THEOREM InvStep == Inv /\ [Next]_vars => Inv'
<1> SUFFICES ASSUME Inv, [Next]_vars PROVE Inv'
  OBVIOUS
<1>t. TypeOK'
  BY TypeStep DEF Inv
<1> USE DEF Goto, callVars
<1>1. CASE UNCHANGED vars
  <2>1. UNCHANGED <<registry, nodeVars>>
    BY <1>1 DEF vars
  <2>2. Control'
    BY <1>1 DEF Inv, Control, vars, nodeVars, versionVars, WriterHeld, SlotEmpty,
       HandleKnown, Holding, Live, NodeLocked, ScopePending, VersionScopeAgree
  <2> QED BY <1>t, <2>1, <2>2, StructureUnchanged DEF Inv
<1>2. ASSUME NEW g \in Goroutine, NEW n \in Name,
             NEW v \in Version \cup {NoVersion}, Call(g, n, v)
      PROVE  Inv'
  <2>1. Structure'
    BY <1>2, StructureUnchanged DEF Inv, Call
  <2>2. Control'
    BY <1>2 DEF Inv, TypeOK, Control, Call, WriterHeld, SlotEmpty, versionVars,
       nodeVars, HandleKnown, Holding, Live, NodeLocked, ScopePending, VersionScopeAgree
  <2> QED BY <1>t, <2>1, <2>2 DEF Inv
<1>3. ASSUME NEW g \in Goroutine, Lookup(g) PROVE Inv'
  <2>1. Structure'
    BY <1>3, StructureUnchanged DEF Inv, Lookup, UseCachedOr
  <2>2. HandleKnown'
    BY <1>3 DEF Inv, TypeOK, Control, Lookup, UseCachedOr, HandleKnown, Holding,
       Live, Structure, Bound, nodeVars
  <2>3. Control'
    BY <1>3, <2>2 DEF Inv, TypeOK, Control, Lookup, UseCachedOr, WriterHeld,
       SlotEmpty, versionVars, NodeLocked, ScopePending, VersionScopeAgree
  <2> QED BY <1>t, <2>1, <2>3 DEF Inv
<1>4. ASSUME NEW g \in Goroutine, Lock(g) PROVE Inv'
  <2>1. Structure'
    BY <1>4, StructureUnchanged DEF Inv, Lock
  <2>2. Control'
    BY <1>4, RegistryAssumption
       DEF Inv, TypeOK, Control, Lock, WriterHeld, SlotEmpty, versionVars, nodeVars,
       HandleKnown, Holding, Live, NodeLocked, ScopePending, VersionScopeAgree
  <2> QED BY <1>t, <2>1, <2>2 DEF Inv
<1>5. ASSUME NEW g \in Goroutine, Recheck(g) PROVE Inv'
  <2>1. Structure'
    BY <1>5, StructureUnchanged DEF Inv, Recheck, UseCachedOr
  <2>2. HandleKnown'
    BY <1>5 DEF Inv, TypeOK, Control, Recheck, UseCachedOr, HandleKnown, Holding,
       Live, Structure, Bound, nodeVars
  <2>3. Control'
    BY <1>5, <2>2 DEF Inv, TypeOK, Control, Recheck, UseCachedOr, WriterHeld,
       SlotEmpty, versionVars, NodeLocked, ScopePending, VersionScopeAgree
  <2> QED BY <1>t, <2>1, <2>3 DEF Inv
<1>6. ASSUME NEW g \in Goroutine, CheckVersion(g) PROVE Inv'
  <2>1. Structure'
    BY <1>6, StructureUnchanged DEF Inv, CheckVersion
  <2>2. Control'
    BY <1>6 DEF Inv, TypeOK, Control, CheckVersion, WriterHeld, SlotEmpty, versionVars,
       nodeVars, HandleKnown, Holding, Live, NodeLocked, ScopePending,
       VersionScopeAgree
  <2> QED BY <1>t, <2>1, <2>2 DEF Inv
<1>7. ASSUME NEW g \in Goroutine, LockNode(g) PROVE Inv'
  <2>1. Structure'
    BY <1>7, StructureUnchanged DEF Inv, LockNode
  <2>2. WriterHeld' /\ SlotEmpty' /\ HandleKnown'
    BY <1>7 DEF Inv, TypeOK, Control, LockNode, WriterHeld, SlotEmpty,
       nodeVars, HandleKnown, Holding, Live
  <2>3. handle[g] \in Node
    BY <1>7 DEF Inv, TypeOK, Control, LockNode, HandleKnown, Holding
  <2>4. NodeLocked' /\ ScopePending' /\ VersionScopeAgree'
    BY <1>7, <2>3, RegistryAssumption DEF Inv, TypeOK, Control, LockNode, NodeLocked,
       ScopePending, VersionScopeAgree
  <2> QED BY <1>t, <2>1, <2>2, <2>4 DEF Inv, Control
<1>8. ASSUME NEW g \in Goroutine, SetVersion(g) PROVE Inv'
  <2>1. Structure'
    BY <1>8, StructureUnchanged DEF Inv, SetVersion
  <2>2. WriterHeld' /\ SlotEmpty' /\ HandleKnown'
    BY <1>8 DEF Inv, TypeOK, Control, SetVersion, WriterHeld, SlotEmpty,
       nodeVars, HandleKnown, Holding, Live
  <2>3. handle[g] \in Node /\ mu[handle[g]] = g
    BY <1>8 DEF Inv, TypeOK, Control, SetVersion, HandleKnown, Holding, NodeLocked
  <2>4. NodeLocked' /\ ScopePending' /\ VersionScopeAgree'
    BY <1>8, <2>3, RegistryAssumption DEF Inv, TypeOK, Control, SetVersion, NodeLocked,
       ScopePending, VersionScopeAgree
  <2> QED BY <1>t, <2>1, <2>2, <2>4 DEF Inv, Control
<1>9. ASSUME NEW g \in Goroutine, SetScope(g) PROVE Inv'
  <2>1. Structure'
    BY <1>9, StructureUnchanged DEF Inv, SetScope
  <2>2. WriterHeld' /\ SlotEmpty' /\ HandleKnown'
    BY <1>9 DEF Inv, TypeOK, Control, SetScope, WriterHeld, SlotEmpty,
       nodeVars, HandleKnown, Holding, Live
  <2>3. handle[g] \in Node /\ mu[handle[g]] = g /\ version[handle[g]] = wantVersion[g]
    BY <1>9 DEF Inv, TypeOK, Control, SetScope, HandleKnown, Holding, NodeLocked,
       ScopePending
  <2>4. \A h \in Goroutine \ {g} :
          pc[h] \in {"setVersion", "setScope"} => handle[h] # handle[g]
    BY <2>3 DEF Inv, Control, NodeLocked
  <2>5. NodeLocked' /\ ScopePending' /\ VersionScopeAgree'
    BY <1>9, <2>3, <2>4 DEF Inv, TypeOK, Control, SetScope, NodeLocked,
       ScopePending, VersionScopeAgree
  <2> QED BY <1>t, <2>1, <2>2, <2>5 DEF Inv, Control
<1>10. ASSUME NEW g \in Goroutine, Return(g) PROVE Inv'
  <2>1. Structure'
    BY <1>10, StructureUnchanged DEF Inv, Return
  <2>2. Control'
    BY <1>10 DEF Inv, TypeOK, Control, Return, WriterHeld, SlotEmpty, versionVars,
       nodeVars, HandleKnown, Holding, Live, NodeLocked, ScopePending,
       VersionScopeAgree
  <2> QED BY <1>t, <2>1, <2>2 DEF Inv
<1>11. ASSUME NEW g \in Goroutine, Reset(g) PROVE Inv'
  <2>1. Live' = {}
    BY <1>11 DEF Reset, Live
  <2>2. Structure'
    BY <1>11, <2>1 DEF Inv, Structure, Bound, Linked, Lineage, InternalIsolated,
       OwnSinksAllocated, Reset, nodeVars
  <2>3. Control'
    BY <1>11, <2>1 DEF Inv, TypeOK, Control, Reset, WriterHeld, SlotEmpty, versionVars,
       nodeVars, HandleKnown, Holding, NodeLocked, ScopePending, VersionScopeAgree
  <2> QED BY <1>t, <2>2, <2>3 DEF Inv
<1>12. ASSUME NEW g \in Goroutine, CreateAncestor(g) PROVE Inv'
  <2>1. PICK n \in Name : /\ n # want[g] /\ registry[n] = Nil
                          /\ ParentReady(n) /\ NewLogger(n, NoVersion)
    BY <1>12 DEF CreateAncestor, Chain
  <2>2. Structure'
    BY <2>1, CreationStructure DEF Inv
  <2>3. UNCHANGED <<writer, pc, want, wantVersion, handle, mu>>
    BY <1>12, <2>1 DEF CreateAncestor, NewLogger, HasOwnSinks
  <2>4. \A h \in Goroutine : pc[h] = "create" => h = g
    BY <1>12 DEF CreateAncestor, Inv, Control, WriterHeld
  <2>5. \A k \in Name \ {n} : registry'[k] = registry[k]
    BY <2>1 DEF NewLogger, HasOwnSinks, Inv, TypeOK
  <2>6. WriterHeld' /\ SlotEmpty'
    BY <2>1, <2>3, <2>4, <2>5 DEF Inv, TypeOK, Control, WriterHeld, SlotEmpty
  <2>7. HandleKnown' /\ NodeLocked' /\ ScopePending'
    BY <2>1, <2>3, CreationKeepsHandles DEF Inv, TypeOK, Control, HandleKnown,
       Holding, NodeLocked, ScopePending
  <2>8. VersionScopeAgree'
    BY <2>1, <2>3, Creation DEF Inv, TypeOK, Control, VersionScopeAgree
  <2> QED BY <1>t, <2>2, <2>6, <2>7, <2>8 DEF Inv, Control
<1>13. ASSUME NEW g \in Goroutine, CreateRequested(g) PROVE Inv'
  <2>1. /\ want[g] \in Name /\ registry[want[g]] = Nil /\ ParentReady(want[g])
        /\ NewLogger(want[g], wantVersion[g])
    BY <1>13 DEF CreateRequested, Inv, TypeOK, Control, SlotEmpty
  <2>2. Structure'
    BY <2>1, CreationStructure DEF Inv
  <2>3. UNCHANGED <<writer, want, wantVersion, mu>> /\ pc' = [pc EXCEPT ![g] = "return"]
    BY <1>13, <2>1 DEF CreateRequested, NewLogger, HasOwnSinks
  <2>4. handle' = [handle EXCEPT ![g] = registry'[want[g]]] /\ registry'[want[g]] # Nil
    BY <1>13, <2>1, Creation, RegistryAssumption DEF CreateRequested, Inv, TypeOK
  <2>5. \A h \in Goroutine : pc[h] = "create" => h = g
    BY <1>13 DEF CreateRequested, Inv, Control, WriterHeld
  <2>6. WriterHeld' /\ SlotEmpty'
    BY <2>3, <2>5 DEF Inv, TypeOK, Control, WriterHeld, SlotEmpty
  <2>7. ASSUME NEW h \in Goroutine \ {g}, Holding(h)
        PROVE  /\ handle'[h] \in allocated' /\ nameOf'[handle'[h]] = want'[h]
               /\ handle'[h] = registry'[want'[h]] \/ handle'[h] \notin Live'
               /\ version'[handle'[h]] = version[handle[h]]
    BY <2>1, <2>3, <2>4, <2>7, CreationKeepsHandles
       DEF Inv, TypeOK, Control, HandleKnown
  <2>8. HandleKnown'
    BY <2>2, <2>3, <2>4, <2>7 DEF Inv, TypeOK, Control, HandleKnown, Holding,
       Structure, Bound
  <2>9. NodeLocked' /\ ScopePending'
    BY <2>3, <2>4, <2>7 DEF Inv, TypeOK, Control, Holding, NodeLocked, ScopePending
  <2>10. VersionScopeAgree'
    BY <2>1, <2>3, Creation DEF Inv, TypeOK, Control, VersionScopeAgree
  <2> QED BY <1>t, <2>2, <2>6, <2>8, <2>9, <2>10 DEF Inv, Control
<1> QED
  BY <1>1, <1>2, <1>3, <1>4, <1>5, <1>6, <1>7, <1>8, <1>9, <1>10, <1>11, <1>12,
     <1>13 DEF Next, Acquire, Progress

THEOREM Invariance == Spec => []Inv
BY InitInv, InvStep, PTL DEF Spec

(* Types: every variable of the registry keeps its type.                   *)
THEOREM TypeCorrect == Spec => []TypeOK
BY Invariance, PTL DEF Inv

(* A registered logger points to the logger registered under its parent's  *)
(* name, whatever calls race (logger.go:104-123).                          *)
THEOREM TreeCorrect == Spec => []ParentLinked
<1>1. Inv => ParentLinked
  BY DEF Inv, Structure, Bound, Linked, ParentLinked
<1> QED BY <1>1, Invariance, PTL

(* A logger and its parent are registered together or orphaned together:   *)
(* no chain of parents crosses from an old tree into the new one           *)
(* (logger.go:326-332).                                                    *)
THEOREM GenerationsCorrect == Spec => []GenerationsDisjoint
<1>1. Inv => GenerationsDisjoint
  BY DEF Inv, Structure, Lineage, GenerationsDisjoint
<1> QED BY <1>1, Invariance, PTL

(* The diagnostic logger alone is created with sinks of its own            *)
(* (logger.go:118-121, 146-149).                                           *)
THEOREM InternalCorrect == Spec => []InternalIsolated
<1>1. Inv => InternalIsolated
  BY DEF Inv, Structure
<1> QED BY <1>1, Invariance, PTL

(* A logger whose mutex is free has a version and a scope that agree       *)
(* (logger.go:81-86, 95-100).                                              *)
THEOREM VersionCorrect == Spec => []VersionScopeAgree
<1>1. Inv => VersionScopeAgree
  BY DEF Inv, Control
<1> QED BY <1>1, Invariance, PTL

(* What a call returns is the logger of its name, or an orphan of a Reset  *)
(* (logger.go:56-57).                                                      *)
THEOREM HandleCorrect == Spec => []HandleIsSingleton
<1>1. Inv => HandleIsSingleton
  BY DEF Inv, Control, HandleKnown, Holding, HandleIsSingleton
<1> QED BY <1>1, Invariance, PTL

(* Names keep their loggers until a Reset, and no logger comes back        *)
(* (logger.go:56-57, 323-332).                                             *)
THEOREM BindingsCorrect == Spec => BindingsStable
<1>1. Inv /\ [Next]_vars =>
        [ \/ registry' = [n \in Name |-> Nil]
          \/ \A n \in Name : \/ registry[n] # Nil /\ registry'[n] = registry[n]
                             \/ registry[n] = Nil /\ registry'[n] \notin allocated
        ]_registry
  <2> SUFFICES ASSUME Inv, [Next]_vars, registry' # registry,
                      registry' # [n \in Name |-> Nil]
               PROVE  \A n \in Name :
                         \/ registry[n] # Nil /\ registry'[n] = registry[n]
                         \/ registry[n] = Nil /\ registry'[n] \notin allocated
    OBVIOUS
  <2>1. PICK k \in Name : /\ registry[k] = Nil
                          /\ \E v : NewLogger(k, v)
    <3>1. PICK g \in Goroutine : CreateAncestor(g) \/ CreateRequested(g)
      BY DEF Next, vars, Call, Acquire, Progress, Lookup, Lock, LockNode, Recheck,
         UseCachedOr, CheckVersion, SetVersion, SetScope, Return, Reset
    <3>2. CASE CreateAncestor(g)
      BY <3>2 DEF CreateAncestor, Chain
    <3>3. CASE CreateRequested(g)
      BY <3>3 DEF CreateRequested, Inv, TypeOK, Control, SlotEmpty
    <3> QED BY <3>1, <3>2, <3>3
  <2>2. PICK m \in Node : m \notin allocated /\ registry' = [registry EXCEPT ![k] = m]
    BY <2>1, Creation DEF Inv
  <2>3. Nil \notin allocated
    BY RegistryAssumption DEF Inv, TypeOK
  <2> QED BY <2>1, <2>2, <2>3 DEF Inv, TypeOK
<1> QED BY <1>1, Invariance, PTL DEF Spec, BindingsStable

-----------------------------------------------------------------------------
(* The refinement.  A step of the code is the step of NamedSingletons that *)
(* its label suggests, or changes nothing the table shows.                 *)
LEMMA BindRefines ==
    ASSUME TypeOK, NEW n \in Name, NEW v, registry[n] = Nil, ParentReady(n),
           NewLogger(n, v)
    PROVE  Singletons!Bind(n)
BY Creation DEF Singletons!Bind, ParentReady, ParentFor

LEMMA StepRefines == Inv /\ [Next]_vars => [Singletons!Next]_(Singletons!vars)
<1> SUFFICES ASSUME Inv, Next PROVE Singletons!Next \/ UNCHANGED Singletons!vars
  BY DEF vars, nodeVars, versionVars, callVars, Singletons!vars, Undecided
<1> PICK g \in Goroutine :
        \/ \E n \in Name, v \in Version \cup {NoVersion} : Call(g, n, v)
        \/ Acquire(g) \/ Progress(g) \/ Reset(g)
  BY DEF Next
<1> DEFINE C == [h \in Goroutine |-> IF Undecided(h) THEN want[h] ELSE Nil]
<1>t. TypeOK /\ Nil \notin Name
  BY RegistryAssumption DEF Inv
<1> USE DEF Goto, Undecided
<1>1. CASE \E n \in Name, v \in Version \cup {NoVersion} : Call(g, n, v)
  <2> PICK n \in Name, v \in Version \cup {NoVersion} : Call(g, n, v)
    BY <1>1
  <2>1. handle[g] = Nil
    BY DEF Call, Inv, Control, HandleKnown, Holding
  <2>2. C' = [C EXCEPT ![g] = n]
    BY <1>t DEF Call, TypeOK
  <2>3. Singletons!Invoke(g, n)
    BY <2>1, <2>2 DEF Call, Singletons!Invoke, nodeVars
  <2> QED BY <2>3 DEF Singletons!Next
<1>2. CASE Lookup(g) \/ Recheck(g)
  <2>1. CASE registry[want[g]] = Nil
    BY <1>2, <2>1, <1>t DEF Lookup, Recheck, UseCachedOr, TypeOK, nodeVars, callVars,
       Singletons!vars
  <2>2. CASE registry[want[g]] # Nil
    <3>1. C[g] = want[g] /\ want[g] # Nil
      BY <1>2, <1>t DEF Lookup, Recheck, TypeOK
    <3>2. C' = [C EXCEPT ![g] = Nil]
      BY <1>2, <2>2, <1>t DEF Lookup, Recheck, UseCachedOr, TypeOK, callVars
    <3>3. handle' = [handle EXCEPT ![g] = registry'[C[g]]]
      BY <1>2, <2>2, <3>1 DEF Lookup, Recheck, UseCachedOr
    <3>4. Singletons!Reply(g)
      BY <1>2, <2>2, <3>1, <3>2, <3>3 DEF Lookup, Recheck, UseCachedOr, nodeVars,
         Singletons!Reply
    <3> QED BY <3>4 DEF Singletons!Next
  <2> QED BY <2>1, <2>2
<1>3. CASE Lock(g) \/ CheckVersion(g) \/ LockNode(g) \/ SetVersion(g) \/ SetScope(g)
  BY <1>3, <1>t DEF Lock, CheckVersion, LockNode, SetVersion, SetScope, TypeOK,
     nodeVars, callVars, Singletons!vars
<1>4. CASE CreateAncestor(g)
  <2>1. PICK n \in Name : Singletons!Bind(n)
    BY <1>4, <1>t, BindRefines DEF CreateAncestor, Chain
  <2>2. UNCHANGED <<C, handle>>
    BY <1>4 DEF CreateAncestor, callVars
  <2> QED BY <2>1, <2>2 DEF Singletons!Intern, Singletons!Next
<1>5. CASE CreateRequested(g)
  <2>1. C[g] = want[g] /\ want[g] \in Name /\ registry[want[g]] = Nil
    BY <1>5, <1>t DEF CreateRequested, TypeOK, Inv, Control, SlotEmpty
  <2>2. Singletons!Bind(want[g])
    BY <1>5, <1>t, <2>1, BindRefines DEF CreateRequested
  <2>3. C' = [C EXCEPT ![g] = Nil]
    BY <1>5, <1>t DEF CreateRequested, TypeOK, callVars
  <2>4. Singletons!Reply(g)
    BY <1>5, <1>t, <2>1, <2>2, <2>3 DEF CreateRequested, Singletons!Reply
  <2> QED BY <2>4 DEF Singletons!Next
<1>6. CASE Return(g)
  <2>1. handle[g] # Nil
    BY <1>6, RegistryAssumption DEF Return, Inv, TypeOK, Control, HandleKnown, Holding
  <2>2. C' = C
    BY <1>6, <1>t DEF Return, TypeOK
  <2>3. Singletons!Take(g)
    BY <1>6, <2>1, <2>2 DEF Return, Singletons!Take, nodeVars
  <2> QED BY <2>3 DEF Singletons!Next
<1>7. CASE Reset(g)
  BY <1>7 DEF Reset, Singletons!Next, Singletons!Forget, nodeVars, callVars
<1> QED BY <1>1, <1>2, <1>3, <1>4, <1>5, <1>6, <1>7 DEF Acquire, Progress

(* Double-checked locking implements the indivisible interning table       *)
(* (logger.go:77-124).                                                     *)
THEOREM Refinement == Spec => SingletonsSpec
<1>1. Init => Singletons!Init
  BY DEF Init, Singletons!Init, Undecided
<1> QED BY <1>1, StepRefines, Invariance, PTL DEF Spec, SingletonsSpec, Singletons!Spec
=============================================================================
