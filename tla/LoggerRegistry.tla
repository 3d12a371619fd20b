--------------------------- MODULE LoggerRegistry ---------------------------
(***************************************************************************)
(* The process-wide registry of named loggers (logger.go): Get and         *)
(* GetVersioned with their double-checked locking, the creation of missing *)
(* ancestors under the write lock, the version update of a cached logger,  *)
(* and Reset.                                                              *)
(*                                                                         *)
(* A name is an element of Name; of its dots only the parent relation      *)
(* matters.  A logger is an address of Node, taken by allocation and never *)
(* reused, so that two handles are the same instance iff they are equal.   *)
(* Each action is one critical section or one unprotected access of the    *)
(* code; pc[g] is where goroutine g stands in getOrCreate.                 *)
(***************************************************************************)
EXTENDS FiniteSets, Naturals

CONSTANTS
    Name,          \* the dot-names in use, closed under ParentNameOf
    Root,          \* the empty name
    Internal,      \* internalLoggerName, the diagnostic channel
    ParentNameOf,  \* parentNameOf as a function; its value at Root is unused
    Node,          \* addresses of Logger values (their number is the bound)
    Nil,           \* the nil pointer, and an unlocked mutex
    Version,       \* non-empty version strings
    NoVersion,     \* the empty version string
    Goroutine

ASSUME RegistryAssumption ==
    /\ Root \in Name
    /\ ParentNameOf \in [Name -> Name]
    /\ Nil \notin Name /\ Nil \notin Node /\ Nil \notin Goroutine
    /\ NoVersion \notin Version

VARIABLES
    registry,      \* the map name -> *Logger; Nil is a missing entry
    writer,        \* the holder of registryMu's write lock, or Nil
    allocated,     \* the addresses taken so far
    nameOf, parent, version,  \* fields of each logger
    scopeVersion,  \* the version in the InstrumentationScope it points to
    ownSinks,      \* loggers created with an explicit sink list of their own
    mu,            \* the holder of each logger's mutex, or Nil
    pc, want, wantVersion,    \* per goroutine: position, arguments
    handle         \* per goroutine: the local l, the value it will return

nodeVars == <<allocated, nameOf, parent, ownSinks>>
versionVars == <<version, scopeVersion, mu>>
callVars == <<want, wantVersion>>
vars == <<registry, writer, nodeVars, versionVars, pc, callVars, handle>>

Pcs == {"idle", "lookup", "lock", "recheck", "create",
        "checkVersion", "lockNode", "setVersion", "setScope", "return"}

TypeOK ==
    /\ registry \in [Name -> Node \cup {Nil}]
    /\ writer \in Goroutine \cup {Nil}
    /\ allocated \in SUBSET Node
    /\ nameOf \in [Node -> Name]
    /\ parent \in [Node -> Node \cup {Nil}]
    /\ version \in [Node -> Version \cup {NoVersion}]
    /\ scopeVersion \in [Node -> Version \cup {NoVersion}]
    /\ ownSinks \in SUBSET Node
    /\ mu \in [Node -> Goroutine \cup {Nil}]
    /\ pc \in [Goroutine -> Pcs]
    /\ want \in [Goroutine -> Name]
    /\ wantVersion \in [Goroutine -> Version \cup {NoVersion}]
    /\ handle \in [Goroutine -> Node \cup {Nil}]

Init ==
    /\ registry = [n \in Name |-> Nil]
    /\ writer = Nil
    /\ allocated = {}
    /\ nameOf = [m \in Node |-> Root]
    /\ parent = [m \in Node |-> Nil]
    /\ version = [m \in Node |-> NoVersion]
    /\ scopeVersion = [m \in Node |-> NoVersion]
    /\ ownSinks = {}
    /\ mu = [m \in Node |-> Nil]
    /\ pc = [g \in Goroutine |-> "idle"]
    /\ want = [g \in Goroutine |-> Root]
    /\ wantVersion = [g \in Goroutine |-> NoVersion]
    /\ handle = [g \in Goroutine |-> Nil]

-----------------------------------------------------------------------------
Goto(g, label) == pc' = [pc EXCEPT ![g] = label]

ParentClosed(S) == \A n \in S \ {Root} : ParentNameOf[n] \in S

(* The names getUnlocked visits from n up to the root: the least set with  *)
(* n that is closed under ParentNameOf.                                    *)
Chain(n) ==
    {m \in Name : \A S \in SUBSET Name : n \in S /\ ParentClosed(S) => m \in S}

(* The pointer stored in the parent field of a new logger called n.        *)
ParentFor(n) == IF n = Root THEN Nil ELSE registry[ParentNameOf[n]]
ParentReady(n) == n = Root \/ ParentFor(n) # Nil

(* Both creation paths give the internal logger a console sink.            *)
OwnSinksOnRequest(n) == \E g \in Goroutine : writer = g /\ want[g] = n /\ n = Internal

HasOwnSinks(n) == n = Internal

(* &Logger{...} and registry[n] = l: both creation paths build the same    *)
(* value, except that getUnlocked leaves the version empty.                *)
NewLogger(n, v) ==
    LET m == CHOOSE x \in Node : x \notin allocated
    IN  /\ allocated # Node
        /\ allocated' = allocated \cup {m}
        /\ nameOf' = [nameOf EXCEPT ![m] = n]
        /\ parent' = [parent EXCEPT ![m] = ParentFor(n)]
        /\ version' = [version EXCEPT ![m] = v]
        /\ scopeVersion' = [scopeVersion EXCEPT ![m] = v]
        /\ ownSinks' = IF HasOwnSinks(n) THEN ownSinks \cup {m} ELSE ownSinks
        /\ registry' = [registry EXCEPT ![n] = m]
        /\ mu' = mu

-----------------------------------------------------------------------------
(* Get(n) is Call with NoVersion, GetVersioned(n, v) with a version.       *)
Call(g, n, v) ==
    /\ pc[g] = "idle"
    /\ want' = [want EXCEPT ![g] = n]
    /\ wantVersion' = [wantVersion EXCEPT ![g] = v]
    /\ Goto(g, "lookup")
    /\ UNCHANGED <<registry, writer, nodeVars, versionVars, handle>>

(* Take the cached logger if there is one, else go to the given label.     *)
UseCachedOr(g, label) ==
    /\ IF registry[want[g]] # Nil
         THEN /\ handle' = [handle EXCEPT ![g] = registry[want[g]]]
              /\ Goto(g, "checkVersion")
         ELSE /\ UNCHANGED handle
              /\ Goto(g, label)
    /\ UNCHANGED <<registry, nodeVars, versionVars, callVars>>

(* The read-locked fast path, one critical section.                        *)
Lookup(g) ==
    /\ pc[g] = "lookup"
    /\ writer = Nil
    /\ UseCachedOr(g, "lock")
    /\ UNCHANGED writer

Lock(g) ==
    /\ pc[g] = "lock"
    /\ writer = Nil
    /\ writer' = g
    /\ Goto(g, "recheck")
    /\ UNCHANGED <<registry, nodeVars, versionVars, callVars, handle>>

RecheckDropped(g) ==
    /\ pc[g] = "recheck"
    /\ Goto(g, "create")
    /\ UNCHANGED <<registry, writer, nodeVars, versionVars, callVars, handle>>

(* The second check, under the write lock, which stays held to the return. *)
Recheck(g) ==
    /\ pc[g] = "recheck"
    /\ UseCachedOr(g, "create")
    /\ UNCHANGED writer

(* getUnlocked registers a missing ancestor whose own parent is in place.  *)
CreateAncestor(g) ==
    /\ pc[g] = "create"
    /\ \E n \in Chain(want[g]) \ {want[g]} :
          /\ registry[n] = Nil
          /\ ParentReady(n)
          /\ NewLogger(n, NoVersion)
    /\ UNCHANGED <<writer, pc, callVars, handle>>

CreateOrphan(g) ==
    /\ pc[g] = "create"
    /\ NewLogger(want[g], wantVersion[g])
    /\ handle' = [handle EXCEPT ![g] = registry'[want[g]]]
    /\ Goto(g, "return")
    /\ UNCHANGED <<writer, callVars>>

CreateReturningParent(g) ==
    /\ pc[g] = "create"
    /\ ParentReady(want[g])
    /\ NewLogger(want[g], wantVersion[g])
    /\ handle' = [handle EXCEPT ![g] = ParentFor(want[g])]
    /\ Goto(g, "return")
    /\ UNCHANGED <<writer, callVars>>

CreateRequested(g) ==
    /\ pc[g] = "create"
    /\ ParentReady(want[g])
    /\ NewLogger(want[g], wantVersion[g])
    /\ handle' = [handle EXCEPT ![g] = registry'[want[g]]]
    /\ Goto(g, "return")
    /\ UNCHANGED <<writer, callVars>>

(* The comparison of l.version with the requested version takes no lock.   *)
(* Racing with the assignment in another goroutine it may read a string    *)
(* that is neither the old nor the new one, so it may go either way.  (A   *)
(* torn string of nil pointer and new length may also fault, which ends    *)
(* the process: no state follows.)                                         *)
BeingWritten(m) == \E h \in Goroutine : pc[h] = "setVersion" /\ handle[h] = m

CheckVersion(g) ==
    /\ pc[g] = "checkVersion"
    /\ \/ /\ wantVersion[g] # NoVersion
          /\ version[handle[g]] # wantVersion[g] \/ BeingWritten(handle[g])
          /\ Goto(g, "lockNode")
       \/ /\ \/ wantVersion[g] \in {NoVersion, version[handle[g]]}
             \/ BeingWritten(handle[g])
          /\ Goto(g, "return")
    /\ UNCHANGED <<registry, writer, nodeVars, versionVars, callVars, handle>>

LockNode(g) ==
    /\ pc[g] = "lockNode"
    /\ mu[handle[g]] = Nil
    /\ mu' = [mu EXCEPT ![handle[g]] = g]
    /\ Goto(g, "setVersion")
    /\ UNCHANGED <<registry, writer, nodeVars, version, scopeVersion, callVars,
                   handle>>

SetVersionUnlocking(g) ==
    /\ pc[g] = "setVersion"
    /\ version' = [version EXCEPT ![handle[g]] = wantVersion[g]]
    /\ mu' = [mu EXCEPT ![handle[g]] = Nil]
    /\ Goto(g, "setScope")
    /\ UNCHANGED <<registry, writer, nodeVars, scopeVersion, callVars, handle>>

SetVersion(g) ==
    /\ pc[g] = "setVersion"
    /\ version' = [version EXCEPT ![handle[g]] = wantVersion[g]]
    /\ Goto(g, "setScope")
    /\ UNCHANGED <<registry, writer, nodeVars, scopeVersion, mu, callVars,
                   handle>>

SetScope(g) ==
    /\ pc[g] = "setScope"
    /\ scopeVersion' = [scopeVersion EXCEPT ![handle[g]] = wantVersion[g]]
    /\ mu' = [mu EXCEPT ![handle[g]] = Nil]
    /\ Goto(g, "return")
    /\ UNCHANGED <<registry, writer, nodeVars, version, callVars, handle>>

ReturnLocked(g) ==
    /\ pc[g] = "return"
    /\ want' = [want EXCEPT ![g] = Root]
    /\ wantVersion' = [wantVersion EXCEPT ![g] = NoVersion]
    /\ handle' = [handle EXCEPT ![g] = Nil]
    /\ Goto(g, "idle")
    /\ UNCHANGED <<registry, writer, nodeVars, versionVars>>

ReturnToParent(g) ==
    /\ pc[g] = "return"
    /\ writer' = IF writer = g THEN Nil ELSE writer
    /\ want' = [want EXCEPT ![g] = parent[handle[g]]]
    /\ wantVersion' = [wantVersion EXCEPT ![g] = NoVersion]
    /\ handle' = [handle EXCEPT ![g] = Nil]
    /\ Goto(g, "idle")
    /\ UNCHANGED <<registry, nodeVars, versionVars>>

(* The deferred Unlock runs here when g came through the slow path.  The   *)
(* call's locals end with it and go back to their initial values.          *)
Return(g) ==
    /\ pc[g] = "return"
    /\ writer' = IF writer = g THEN Nil ELSE writer
    /\ want' = [want EXCEPT ![g] = Root]
    /\ wantVersion' = [wantVersion EXCEPT ![g] = NoVersion]
    /\ handle' = [handle EXCEPT ![g] = Nil]
    /\ Goto(g, "idle")
    /\ UNCHANGED <<registry, nodeVars, versionVars>>

(* The bound on resets: addresses must remain for one more full registry.  *)
RoomForReset == Cardinality(Node \ allocated) >= Cardinality(Name)

ResetBelowRoot(g) ==
    /\ pc[g] = "idle"
    /\ writer = Nil
    /\ RoomForReset
    /\ registry' = [n \in Name |-> IF n = Root THEN registry[n] ELSE Nil]
    /\ UNCHANGED <<writer, nodeVars, versionVars, pc, callVars, handle>>

Reset(g) ==
    /\ pc[g] = "idle"
    /\ writer = Nil
    /\ RoomForReset
    /\ registry' = [n \in Name |-> Nil]
    /\ UNCHANGED <<writer, nodeVars, versionVars, pc, callVars, handle>>

-----------------------------------------------------------------------------
Acquire(g) == Lookup(g) \/ Lock(g) \/ LockNode(g)

Progress(g) ==
    \/ Recheck(g) \/ CreateAncestor(g) \/ CreateRequested(g)
    \/ CheckVersion(g) \/ SetVersion(g) \/ SetScope(g) \/ Return(g)

Next == \E g \in Goroutine :
    \/ \E n \in Name, v \in Version \cup {NoVersion} : Call(g, n, v)
    \/ Acquire(g)
    \/ Progress(g)
    \/ Reset(g)

Spec == Init /\ [][Next]_vars

(* Go's mutexes hand the lock to a waiter that has waited long enough, and *)
(* a waiting writer keeps new readers out: strong fairness for the steps   *)
(* that acquire, weak fairness for a goroutine that is merely runnable.    *)
Fairness == \A g \in Goroutine : SF_vars(Acquire(g)) /\ WF_vars(Progress(g))

FairSpec == Spec /\ Fairness

-----------------------------------------------------------------------------
Live == {registry[n] : n \in Name} \ {Nil}

(* Every registered logger carries its name and points to the logger that  *)
(* is registered, now, under its parent's name: effective settings of a    *)
(* name are found through the registry's own loggers (logger.go:27-30).    *)
ParentLinked ==
    \A n \in Name : registry[n] # Nil =>
        /\ nameOf[registry[n]] = n
        /\ ParentReady(n)
        /\ parent[registry[n]] = ParentFor(n)

(* Reset cuts whole generations: a logger and its parent are registered    *)
(* together or orphaned together, so a handle held across Reset never sees *)
(* settings made after it, nor leaks its own into the new tree             *)
(* (logger.go:326-332).                                                    *)
GenerationsDisjoint ==
    \A m \in allocated :
        parent[m] # Nil => (m \in Live <=> parent[m] \in Live)

(* Outside the node's critical section the version and the scope that      *)
(* records are stamped with agree, whatever GetVersioned calls race        *)
(* (logger.go:62-65: the call updates version and scope together).         *)
VersionScopeAgree ==
    \A m \in Node : mu[m] = Nil => version[m] = scopeVersion[m]

(* The diagnostic channel has a sink list of its own however it came to be *)
(* created, by Get of its name or as the ancestor of another name, and it  *)
(* is the only one (logger.go:70-75).                                      *)
InternalIsolated ==
    \A m \in allocated : m \in ownSinks <=> nameOf[m] = Internal

(* A caller about to receive its logger holds one with the name it asked   *)
(* for; if that name is bound to another one by then, the caller's is an   *)
(* orphan of a Reset (logger.go:56: same name, same instance).             *)
HandleIsSingleton ==
    \A g \in Goroutine : pc[g] = "return" =>
        /\ handle[g] \in allocated /\ nameOf[handle[g]] = want[g]
        /\ handle[g] = registry[want[g]] \/ handle[g] \notin Live

(* A name keeps its instance until a Reset drops all of them, and no       *)
(* orphan ever returns to the registry (logger.go:51-57, 323-332).         *)
BindingsStable ==
    [][ \/ registry' = [n \in Name |-> Nil]
        \/ \A n \in Name : \/ registry[n] # Nil /\ registry'[n] = registry[n]
                           \/ registry[n] = Nil /\ registry'[n] \notin allocated
      ]_registry

(* Every call of Get or GetVersioned returns, whoever else is creating     *)
(* loggers, updating versions or resetting (logger.go:77-124).             *)
GetReturns == \A g \in Goroutine : pc[g] # "idle" ~> pc[g] = "idle"

(* The double-checked locking implements the indivisible interning table:  *)
(* a call takes effect where it finds or creates its logger.               *)
Undecided(g) == pc[g] \in {"lookup", "lock", "recheck", "create"}

Singletons == INSTANCE NamedSingletons WITH
    table <- registry,
    used <- allocated,
    call <- [g \in Goroutine |-> IF Undecided(g) THEN want[g] ELSE Nil],
    answer <- handle

SingletonsSpec == Singletons!Spec
=============================================================================
