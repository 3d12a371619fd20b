-------------------------------- MODULE Logger --------------------------------
(***************************************************************************)
(* The settings of loggers and the goroutines that read and change them    *)
(* (logger.go, configuration.go).                                          *)
(*                                                                         *)
(* A logger has four settings, each a value of its own or Inherit.  An     *)
(* emit resolves them one after the other, and for each climbs from the    *)
(* logger to the root, locking one logger at a time: one action is one     *)
(* critical section of a logger's mutex.  The setters, each update made by *)
(* Configure, the two ends of ScopeSinks and the creation of a detached    *)
(* child are steps in between.                                             *)
(*                                                                         *)
(* A suffix list is the set of attribute keys it masks, a resource is a    *)
(* model value, a sink list is a sequence of sinks.                        *)
(***************************************************************************)
EXTENDS Integers, FiniteSets, Sequences, SequencesExt

CONSTANTS
    Registered,     \* the loggers of the registry
    Detached,       \* addresses for detached children (their number is a bound)
    Root, Internal, \* Get("") and Get(internalLoggerName)
    TreeParent,     \* the parent pointer of each registered logger
    Goroutine,
    Role,           \* the kinds of calls each goroutine makes
    Key, DefaultSecretSuffixes,  \* attribute keys, those masked by default
    Resource,       \* values of *Resource
    Sink, Faulty,   \* all sinks, and those whose Emit may panic
    InternalSinks,  \* the sink list the internal logger is created with
    SeverityNumber, \* the severities given to Log
    Settings,       \* the updates made by the Set* methods
    Configurations, \* the calls of Configure, each a set of grouped updates
    Override,       \* the sink lists given to ScopeSinks and With/AppendSinks
    MaxScopes,      \* the most ScopeSinks calls open at once
    Inherit, Nil

Logger == Registered \cup Detached

Domain == [min |-> Int, suffixes |-> SUBSET Key,
           resource |-> Resource, sinks |-> Seq(Sink)]
Dimension == DOMAIN Domain
Own(d) == {Inherit} \cup Domain[d]

(* The order in which Configure applies its groups of options.             *)
Stage == [min |-> 1, sinks |-> 2, resource |-> 3, levels |-> 4, suffixes |-> 5]

IsUpdate(u) == u.logger \in Logger /\ u.dim \in Dimension /\ u.value \in Own(u.dim)

IsConfigured(u) ==
    \/ u.group \in Dimension /\ u.dim = u.group /\ u.logger = Root
    \/ u.group = "levels" /\ u.dim = "min" /\ u.logger \in Registered

ASSUME LoggerAssumption ==
    /\ Root \in Registered /\ Internal \in Registered \ {Root} /\ Nil \notin Logger
    /\ Registered \cap Detached = {}
    /\ TreeParent \in [Registered -> Registered \cup {Nil}]
    /\ DefaultSecretSuffixes \subseteq Key
    /\ Faulty \subseteq Sink
    /\ InternalSinks \in Seq(Sink) /\ \A s \in Override : s \in Seq(Sink)
    /\ Inherit \notin Override
    /\ SeverityNumber \subseteq Int
    /\ \A u \in Settings : IsUpdate(u)
    /\ \A c \in Configurations : \A u \in c : IsUpdate(u) /\ IsConfigured(u)
    /\ MaxScopes \in Nat

(* A logger is linked to its parent when it is made (logger.go:104-115), so*)
(* the parent pointers never go round; the root has none.                  *)
ASSUME TreeAssumption ==
    /\ IsFiniteSet(Registered) /\ TreeParent[Root] = Nil
    /\ \E depth \in [Registered -> 0..Cardinality(Registered)] :
          \A l \in Registered : TreeParent[l] # Nil => depth[TreeParent[l]] < depth[l]

VARIABLES
    own,        \* the own settings of each logger
    parent,     \* its parent pointer; a detached address not taken has none
    created,    \* the loggers that exist
    pc,         \* per goroutine: the setting being resolved, or where it stands
    call,       \* per goroutine: the emit or AppendSinks call in progress
    pending,    \* per goroutine: the updates its Configure has not made yet
    scopes      \* the open ScopeSinks calls, oldest first

treeVars == <<own, parent, created>>
vars == <<treeVars, pc, call, pending, scopes>>

Default == [min |-> 1, suffixes |-> DefaultSecretSuffixes,
            resource |-> Nil, sinks |-> <<>>]
Inheriting == [d \in Dimension |-> Inherit]

SeverityInfo == 9
SeverityWarn == 13
IsValidSeverityNumber(n) == n \in 1..24

NoCall == [op |-> "none", logger |-> Nil, at |-> Nil, severity |-> 0,
           min |-> Nil, suffixes |-> Nil, resource |-> Nil, sinks |-> <<>>,
           extra |-> <<>>, next |-> 1, accepted |-> {}]

Init ==
    /\ own = [l \in Logger |->
                IF l = Internal THEN [Inheriting EXCEPT !["sinks"] = InternalSinks]
                                ELSE Inheriting]
    /\ parent = [l \in Logger |-> IF l \in Registered THEN TreeParent[l] ELSE Nil]
    /\ created = Registered
    /\ pc = [g \in Goroutine |-> "idle"]
    /\ call = [g \in Goroutine |-> NoCall]
    /\ pending = [g \in Goroutine |-> {}]
    /\ scopes = <<>>

-----------------------------------------------------------------------------
Goto(g, label) == pc' = [pc EXCEPT ![g] = label]
Idle(g, role) == pc[g] = "idle" /\ role \in Role[g]

Set(l, d, v) == own' = [own EXCEPT ![l][d] = v]

(* Every public emit method but Exception(nil, ...) comes down to this.    *)
Emit(g, l, n) ==
    /\ Idle(g, "emit")
    /\ call' = [call EXCEPT ![g] = [NoCall EXCEPT !.op = "emit", !.logger = l,
                                                  !.at = l, !.severity = n]]
    /\ Goto(g, "min")
    /\ UNCHANGED <<treeVars, pending, scopes>>

-----------------------------------------------------------------------------
(* One critical section of an Effective... method: the own value of the    *)
(* logger the walk is at, or the step to its parent.                       *)
OwnValue(g) == own[call[g].at][pc[g]]

WalkEnds(g) == OwnValue(g) # Inherit \/ parent[call[g].at] = Nil
Value(g) == IF OwnValue(g) = Inherit THEN Default[pc[g]] ELSE OwnValue(g)

ClimbNowhere(g) ==
    /\ pc[g] \in Dimension /\ ~WalkEnds(g)
    /\ call' = [call EXCEPT ![g].at = call[g].at]
    /\ UNCHANGED <<treeVars, pc, pending, scopes>>

ClimbToRoot(g) ==
    /\ pc[g] \in Dimension /\ ~WalkEnds(g)
    /\ call' = [call EXCEPT ![g].at = Root]
    /\ UNCHANGED <<treeVars, pc, pending, scopes>>

Climb(g) ==
    /\ pc[g] \in Dimension /\ ~WalkEnds(g)
    /\ call' = [call EXCEPT ![g].at = parent[@]]
    /\ UNCHANGED <<treeVars, pc, pending, scopes>>

(* The early drop; the emit returns.                                       *)
Drop(g) ==
    /\ pc[g] = "min" /\ WalkEnds(g)
    /\ call[g].severity < Value(g)
    /\ call' = [call EXCEPT ![g] = NoCall]
    /\ Goto(g, "idle")
    /\ UNCHANGED <<treeVars, pending, scopes>>

(* A severity past the gate and out of range becomes INFO.                 *)
PassGate(g) ==
    /\ pc[g] = "min" /\ WalkEnds(g)
    /\ call[g].severity >= Value(g)
    /\ call' = [call EXCEPT
          ![g].min = Value(g), ![g].at = call[g].logger,
          ![g].severity = IF IsValidSeverityNumber(@) THEN @ ELSE SeverityInfo]
    /\ Goto(g, "suffixes")
    /\ UNCHANGED <<treeVars, pending, scopes>>

SinksBeforeResource(g) ==
    CASE pc[g] = "suffixes" -> "sinks"
      [] call[g].op = "append" -> "branch"
      [] pc[g] = "sinks" -> "resource"
      [] OTHER -> "deliver"

Following(g) == CASE pc[g] = "suffixes" -> "resource"
                  [] pc[g] = "resource" -> "sinks"
                  [] call[g].op = "append" -> "branch"
                  [] OTHER -> "deliver"

Resolve(g) ==
    /\ pc[g] \in Dimension \ {"min"} /\ WalkEnds(g)
    /\ call' = [call EXCEPT ![g][pc[g]] = Value(g), ![g].at = call[g].logger]
    /\ Goto(g, Following(g))
    /\ UNCHANGED <<treeVars, pending, scopes>>

DeliverOffByOne(g) ==
    /\ pc[g] = "deliver"
    /\ LET i == call[g].next
       IN  /\ i <= Len(call[g].sinks)
           /\ call' = [call EXCEPT ![g].next = i + 1, ![g].accepted = @ \cup {i + 1}]
    /\ UNCHANGED <<treeVars, pc, pending, scopes>>

DeliverUntilPanic(g) ==
    /\ pc[g] = "deliver"
    /\ LET i == call[g].next
       IN  /\ i <= Len(call[g].sinks)
           /\ \/ call' = [call EXCEPT ![g].next = i + 1, ![g].accepted = @ \cup {i}]
              \/ /\ call[g].sinks[i] \in Faulty
                 /\ call' = [call EXCEPT ![g].next = Len(call[g].sinks) + 1]
    /\ UNCHANGED <<treeVars, pc, pending, scopes>>

(* Each sink of the snapshot is called in turn; a panic is recovered.      *)
Deliver(g) ==
    /\ pc[g] = "deliver"
    /\ LET i == call[g].next
       IN  /\ i <= Len(call[g].sinks)
           /\ \/ call' = [call EXCEPT ![g].next = i + 1, ![g].accepted = @ \cup {i}]
              \/ /\ call[g].sinks[i] \in Faulty
                 /\ call' = [call EXCEPT ![g].next = i + 1]
    /\ UNCHANGED <<treeVars, pc, pending, scopes>>

EmitReturn(g) ==
    /\ pc[g] = "deliver"
    /\ call[g].next > Len(call[g].sinks)
    /\ call' = [call EXCEPT ![g] = NoCall]
    /\ Goto(g, "idle")
    /\ UNCHANGED <<treeVars, pending, scopes>>

-----------------------------------------------------------------------------
(* SetMinSeverity, SetSinks, SetResource and SetRedactionSuffixes; a nil   *)
(* resource or suffix list is the value Inherit.                           *)
Mutate(g) ==
    /\ Idle(g, "set")
    /\ \E s \in Settings : s.logger \in created /\ Set(s.logger, s.dim, s.value)
    /\ UNCHANGED <<parent, created, pc, call, pending, scopes>>

(* The bound on detached children: an address for each AppendSinks under   *)
(* way, and one more.                                                      *)
RoomForChild ==
    Cardinality(Detached \ created) >
    Cardinality({g \in Goroutine : call[g].op = "append"})

(* makeDetachedChild and the assignment of the caller's sinks to it:       *)
(* WithSinks, WithoutSinks (no sinks) and Child (Inherit).                 *)
Branch(l, s) ==
    \E m \in Detached \ created :
        /\ created' = created \cup {m}
        /\ parent' = [parent EXCEPT ![m] = l]
        /\ own' = [own EXCEPT ![m] = [Inheriting EXCEPT !["sinks"] = s]]

Detach(g) ==
    /\ Idle(g, "detach") /\ RoomForChild
    /\ \E l \in created, s \in Override \cup {<<>>, Inherit} : Branch(l, s)
    /\ UNCHANGED <<pc, call, pending, scopes>>

(* AppendSinks resolves the sinks of l first.                              *)
BeginAppend(g) ==
    /\ Idle(g, "detach") /\ RoomForChild
    /\ \E l \in created, s \in Override :
          call' = [call EXCEPT ![g] = [NoCall EXCEPT !.op = "append", !.logger = l,
                                                     !.at = l, !.extra = s]]
    /\ Goto(g, "sinks")
    /\ UNCHANGED <<treeVars, pending, scopes>>

AppendReturn(g) ==
    /\ pc[g] = "branch"
    /\ Branch(call[g].logger, call[g].sinks \o call[g].extra)
    /\ call' = [call EXCEPT ![g] = NoCall]
    /\ Goto(g, "idle")
    /\ UNCHANGED <<pending, scopes>>

-----------------------------------------------------------------------------
BeginScopeForgetting(g, l, s) ==
    /\ Idle(g, "scope")
    /\ Len(scopes) < MaxScopes
    /\ scopes' = Append(scopes, [by |-> g, logger |-> l, sinks |-> s,
                                 prev |-> Inherit])
    /\ Set(l, "sinks", s)
    /\ UNCHANGED <<parent, created, pc, call, pending>>

BeginScope(g, l, s) ==
    /\ Idle(g, "scope")
    /\ Len(scopes) < MaxScopes
    /\ scopes' = Append(scopes, [by |-> g, logger |-> l, sinks |-> s,
                                 prev |-> own[l]["sinks"]])
    /\ Set(l, "sinks", s)
    /\ UNCHANGED <<parent, created, pc, call, pending>>

(* The deferred restore of the scope that goroutine g entered last, when   *)
(* its callback returns or panics.                                         *)
LastScope(g) == {i \in DOMAIN scopes :
                    /\ scopes[i].by = g
                    /\ \A j \in DOMAIN scopes : scopes[j].by = g => j <= i}

EndScopeClearing(g) ==
    /\ pc[g] = "idle"
    /\ \E i \in LastScope(g) :
          /\ Set(scopes[i].logger, "sinks", Inherit)
          /\ scopes' = RemoveAt(scopes, i)
    /\ UNCHANGED <<parent, created, pc, call, pending>>

EndScope(g) ==
    /\ pc[g] = "idle"
    /\ \E i \in LastScope(g) :
          /\ Set(scopes[i].logger, "sinks", scopes[i].prev)
          /\ scopes' = RemoveAt(scopes, i)
    /\ UNCHANGED <<parent, created, pc, call, pending>>

-----------------------------------------------------------------------------
Configure(g) ==
    /\ Idle(g, "configure")
    /\ \E c \in Configurations : pending' = [pending EXCEPT ![g] = c]
    /\ Goto(g, "configure")
    /\ UNCHANGED <<treeVars, call, scopes>>

NextUpdates(g) ==
    {u \in pending[g] : \A w \in pending[g] : Stage[u.group] <= Stage[w.group]}

(* The per-logger levels come out of a map in any order.                   *)
Apply(g) ==
    /\ pc[g] = "configure"
    /\ \E u \in NextUpdates(g) :
          /\ Set(u.logger, u.dim, u.value)
          /\ pending' = [pending EXCEPT ![g] = @ \ {u}]
          /\ IF u.group = "suffixes" /\ u.value = {}
               THEN /\ Goto(g, "warn")
               ELSE UNCHANGED pc
    /\ UNCHANGED <<parent, created, call, scopes>>

(* Redaction was disabled: Warn on the internal logger.                    *)
WarnDisabled(g) ==
    /\ pc[g] = "warn"
    /\ call' = [call EXCEPT ![g] = [NoCall EXCEPT !.op = "warn", !.logger = Internal,
                                      !.at = Internal, !.severity = SeverityWarn]]
    /\ Goto(g, "min")
    /\ UNCHANGED <<treeVars, pending, scopes>>

ConfigureReturn(g) ==
    /\ pc[g] = "configure" /\ pending[g] = {}
    /\ Goto(g, "idle")
    /\ UNCHANGED <<treeVars, call, pending, scopes>>

-----------------------------------------------------------------------------
Progress(g) ==
    \/ Climb(g) \/ Drop(g) \/ PassGate(g) \/ Resolve(g)
    \/ Deliver(g) \/ EmitReturn(g) \/ AppendReturn(g)
    \/ Apply(g) \/ WarnDisabled(g) \/ ConfigureReturn(g)

Next == \E g \in Goroutine :
    \/ \E l \in created, n \in SeverityNumber : Emit(g, l, n)
    \/ Mutate(g) \/ Detach(g) \/ BeginAppend(g) \/ Configure(g)
    \/ \E l \in created, s \in Override : BeginScope(g, l, s)
    \/ EndScope(g)
    \/ Progress(g)

Spec == Init /\ [][Next]_vars

(* A goroutine inside a call is runnable, and Go's scheduler and mutexes   *)
(* do not starve it.  Nothing makes a goroutine call, or a callback of     *)
(* ScopeSinks return.                                                      *)
FairSpec == Spec /\ \A g \in Goroutine : WF_vars(Progress(g))

-----------------------------------------------------------------------------
Labels == Dimension \cup {"idle", "deliver", "branch", "configure", "warn"}

TypeOK ==
    /\ DOMAIN own = Logger
    /\ \A l \in Logger : /\ DOMAIN own[l] = Dimension
                         /\ \A d \in Dimension : own[l][d] \in Own(d)
    /\ parent \in [Logger -> Logger \cup {Nil}]
    /\ created \in SUBSET Logger
    /\ pc \in [Goroutine -> Labels]
    /\ DOMAIN call = Goroutine
    /\ \A g \in Goroutine :
          /\ DOMAIN call[g] = DOMAIN NoCall
          /\ call[g].op \in {"none", "emit", "append", "warn"}
          /\ call[g].logger \in Logger \cup {Nil} /\ call[g].at \in Logger \cup {Nil}
          /\ call[g].sinks \in Seq(Sink) /\ call[g].severity \in Int
          /\ call[g].accepted \subseteq 1..Len(call[g].sinks)
    /\ \A i \in DOMAIN scopes : /\ scopes[i].by \in Goroutine
                                /\ scopes[i].logger \in Logger
                                /\ scopes[i].prev \in Own("sinks")

(* The logger whose own setting d applies to l, or the root.               *)
Source(l, d) ==
    LET up[m \in Logger] ==
          IF own[m][d] # Inherit \/ parent[m] = Nil THEN m ELSE up[parent[m]]
    IN  up[l]

(* An emit comes back only when every sink of its snapshot that does not   *)
(* panic has taken the record, siblings of a panicking one included        *)
(* (logger.go:655-662).                                                    *)
SinkFailureIsolated ==
    [][\A g \in Goroutine : pc[g] = "deliver" /\ pc'[g] # "deliver" =>
          \A i \in DOMAIN call[g].sinks :
             call[g].sinks[i] \notin Faulty => i \in call[g].accepted]_vars

(* The sinks, resource and suffixes of one Configure become visible to an  *)
(* emit in that order: one that masks by the new suffixes also carries the *)
(* new resource and goes to the new sinks, one with the new resource goes  *)
(* to the new sinks.  It holds because the writes of configuration.go:     *)
(* 158-172 and the reads of logger.go:634-655 run in opposite orders, and  *)
(* is what is left of the atomic update, when one configuration is applied.*)
Staged == {"suffixes", "resource", "sinks"}

FollowsRoot(l) == \A d \in Staged : Source(l, d) = Root
Carrying(g) == pc[g] = "deliver" /\ call[g].op = "emit" /\ FollowsRoot(call[g].logger)

ConfigureOrdered ==
    \A g \in Goroutine, c \in Configurations : Carrying(g) =>
        \A u, v \in {w \in c : w.group \in Staged} :
            Stage[u.group] < Stage[v.group] /\ call[g][v.dim] = v.value
               => call[g][u.dim] = u.value

(* Disabling all redaction is announced on the internal logger             *)
(* (redaction.go:46-48): the record is not dropped at the gate.            *)
DisableAllWarned ==
    [][\A g \in Goroutine : call[g].op = "warn" /\ pc[g] = "min" => pc'[g] # "idle"]_vars

(* An emit made inside a ScopeSinks callback goes to the sinks of the      *)
(* innermost scope the goroutine has open on the logger the emit climbs to *)
(* (logger.go:488-495).                                                    *)
InnermostOn(g, l) ==
    {i \in DOMAIN scopes :
        /\ scopes[i].by = g /\ scopes[i].logger = l
        /\ \A j \in DOMAIN scopes :
              scopes[j].by = g /\ scopes[j].logger = l => j <= i}

ScopeCaptures ==
    \A g \in Goroutine : pc[g] = "deliver" /\ call[g].op = "emit" =>
        \A i \in InnermostOn(g, Source(call[g].logger, "sinks")) :
           call[g].sinks = scopes[i].sinks

(* ScopeSinks shows the sinks of the scope opened last among the open ones *)
(* and, once all have ended, what was there before (logger.go:488-490).    *)
Outermost(l) == {i \in DOMAIN scopes :
                    /\ scopes[i].logger = l
                    /\ \A j \in DOMAIN scopes : scopes[j].logger = l => i <= j}

Scoped == INSTANCE ScopedSinks WITH
    List  <- Own("sinks"),
    base  <- [l \in Logger |->
                IF Outermost(l) = {} THEN own[l]["sinks"]
                ELSE scopes[CHOOSE i \in Outermost(l) : TRUE].prev],
    open  <- [i \in DOMAIN scopes |->
                [logger |-> scopes[i].logger, sinks |-> scopes[i].sinks]],
    shown <- [l \in Logger |-> own[l]["sinks"]]

ScopedSinksSpec == Scoped!Spec

(* Every call returns: walks end at the root, deliveries at the last sink, *)
(* Configure after its last update, whoever else is changing settings.     *)
CallsReturn == \A g \in Goroutine : pc[g] # "idle" ~> pc[g] = "idle"
=============================================================================
