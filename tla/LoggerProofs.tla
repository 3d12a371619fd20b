----------------------------- MODULE LoggerProofs -----------------------------
(***************************************************************************)
(* Theorems about Logger for any tree of loggers, any number of goroutines *)
(* with any roles, and any sinks, settings and configurations.             *)
(***************************************************************************)
EXTENDS Logger, SequenceTheorems, FiniteSetTheorems, WellFoundedInduction, TLAPS

Scope == [by : Goroutine, logger : Logger, sinks : Seq(Sink), prev : Own("sinks")]

OwnTyped(o) ==
    /\ DOMAIN o = Logger
    /\ \A l \in Logger : DOMAIN o[l] = Dimension /\ \A d \in Dimension : o[l][d] \in Own(d)

(* The loggers that exist and their parents.                               *)
Family ==
    /\ OwnTyped(own)
    /\ parent \in [Logger -> Logger \cup {Nil}]
    /\ created \subseteq Logger /\ Registered \subseteq created
    /\ \A l \in created : parent[l] \in created \cup {Nil}
    /\ \A l \in Logger \ created : parent[l] = Nil

(* A call of a goroutine that stands at a label: before the delivery no    *)
(* sink has been called, and during it the sinks that were called before   *)
(* the next one took the record.                                           *)
Sane(c, label) ==
    /\ label \in Labels /\ DOMAIN c = DOMAIN NoCall
    /\ c.op \in {"none", "emit", "append", "warn"}
    /\ c.sinks \in Seq(Sink) /\ c.extra \in Seq(Sink) /\ c.severity \in Int
    /\ c.next \in Nat \ {0} /\ c.accepted \subseteq 1..Len(c.sinks)
    /\ label # "deliver" => c.accepted = {} /\ c.next = 1
    /\ \A i \in DOMAIN c.sinks : i < c.next /\ c.sinks[i] \notin Faulty => i \in c.accepted

(* It reads loggers that exist.                                            *)
Standing(c, label) ==
    /\ c.logger \in created \cup {Nil} /\ c.at \in created \cup {Nil}
    /\ label \in Dimension \cup {"branch"} => c.logger # Nil /\ c.at # Nil

Calls ==
    /\ DOMAIN pc = Goroutine /\ DOMAIN call = Goroutine
    /\ \A g \in Goroutine : Sane(call[g], pc[g]) /\ Standing(call[g], pc[g])

Work ==
    /\ DOMAIN pending = Goroutine
    /\ \A g \in Goroutine : \A u \in pending[g] : IsUpdate(u) /\ IsConfigured(u)
    /\ scopes \in Seq(Scope)
    /\ \A i \in DOMAIN scopes : scopes[i].logger \in created

Inv == Family /\ Calls /\ pc \in [Goroutine -> Labels] /\ Work

LEMMA Dimensions ==
    /\ Dimension = {"min", "suffixes", "resource", "sinks"}
    /\ "sinks" \in Dimension
    /\ Own("min") = {Inherit} \cup Int
    /\ Own("suffixes") = {Inherit} \cup SUBSET Key
    /\ Own("resource") = {Inherit} \cup Resource
    /\ Own("sinks") = {Inherit} \cup Seq(Sink)
BY DEF Dimension, Domain, Own

LEMMA NoCallFields ==
    /\ DOMAIN NoCall = {"op", "logger", "at", "severity", "min", "suffixes", "resource",
                        "sinks", "extra", "next", "accepted"}
    /\ NoCall.op = "none" /\ NoCall.logger = Nil /\ NoCall.at = Nil
    /\ NoCall.sinks = <<>> /\ NoCall.sinks \in Seq(Sink) /\ NoCall.severity = 0
    /\ NoCall.accepted = {} /\ NoCall.next = 1
    /\ NoCall.extra = <<>> /\ NoCall.extra \in Seq(Sink)
BY DEF NoCall

LEMMA NoCallSane ==
    ASSUME NEW label \in Labels, label \notin Dimension \cup {"branch"}
    PROVE  Sane(NoCall, label) /\ Standing(NoCall, label)
<1>1. NoCall.accepted \subseteq 1..Len(NoCall.sinks) /\ DOMAIN NoCall.sinks = {}
  BY NoCallFields
<1>2. NoCall.next \in Nat \ {0} /\ NoCall.severity \in Int
  BY NoCallFields
<1> QED BY <1>1, <1>2, NoCallFields DEF Sane, Standing

LEMMA InheritingTyped ==
    /\ DOMAIN Inheriting = Dimension
    /\ \A d \in Dimension : Inheriting[d] = Inherit /\ Inherit \in Own(d)
BY DEF Inheriting, Own

(* One setting of one logger is changed.                                   *)
LEMMA SetTyped ==
    ASSUME OwnTyped(own), NEW l \in Logger, NEW d \in Dimension, NEW v \in Own(d), Set(l, d, v)
    PROVE  /\ OwnTyped(own') /\ own'[l][d] = v
           /\ \A m \in Logger, e \in Dimension : m # l \/ e # d => own'[m][e] = own[m][e]
<1>1. own'[l] = [own[l] EXCEPT ![d] = v] /\ \A m \in Logger \ {l} : own'[m] = own[m]
  BY DEF Set, OwnTyped
<1>2. DOMAIN own' = Logger
  BY DEF Set, OwnTyped
<1> QED BY <1>1, <1>2 DEF OwnTyped

(* A detached child inherits everything but its sinks.                     *)
LEMMA BranchTyped ==
    ASSUME Family, NEW l \in created, NEW s \in Own("sinks"), Branch(l, s)
    PROVE  /\ Family'
           /\ \E m \in Detached \ created :
                 /\ created' = created \cup {m} /\ parent'[m] = l
                 /\ \A k \in Logger \ {m} : own'[k] = own[k] /\ parent'[k] = parent[k]
                 /\ own'[m]["sinks"] = s
                 /\ \A d \in Dimension \ {"sinks"} : own'[m][d] = Inherit
<1> DEFINE new == [Inheriting EXCEPT !["sinks"] = s]
<1>1. PICK m \in Detached \ created :
         /\ created' = created \cup {m}
         /\ parent' = [parent EXCEPT ![m] = l]
         /\ own' = [own EXCEPT ![m] = new]
  BY DEF Branch
<1>2. m \in Logger /\ l \in Logger /\ created \subseteq Logger
  BY DEF Logger, Family
<1>3. /\ DOMAIN new = Dimension /\ new["sinks"] = s
      /\ \A d \in Dimension \ {"sinks"} : new[d] = Inherit
      /\ \A d \in Dimension : new[d] \in Own(d)
  BY InheritingTyped, Dimensions
<1> HIDE DEF new
<1>4. /\ DOMAIN own' = Logger /\ own'[m] = new
      /\ \A k \in Logger \ {m} : own'[k] = own[k]
  BY <1>1, <1>2 DEF OwnTyped, Family
<1>5. /\ parent' \in [Logger -> Logger \cup {Nil}] /\ parent'[m] = l
      /\ \A k \in Logger \ {m} : parent'[k] = parent[k]
  BY <1>1, <1>2 DEF Family
<1>6. OwnTyped(own')
  BY <1>3, <1>4 DEF OwnTyped, Family
<1>7. Family'
  BY <1>1, <1>2, <1>5, <1>6 DEF Family
<1> QED BY <1>1, <1>2, <1>3, <1>4, <1>5, <1>7

(* What a walk that ends resolves to is a value of the setting.            *)
LEMMA ValueTyped ==
    ASSUME Inv, NEW g \in Goroutine, pc[g] \in Dimension
    PROVE  /\ OwnValue(g) \in Own(pc[g])
           /\ pc[g] = "sinks" => Value(g) \in Seq(Sink)
<1>1. call[g].at \in Logger
  BY DEF Inv, Calls, Standing, Family
<1>2. OwnValue(g) \in Own(pc[g])
  BY <1>1 DEF OwnValue, Inv, Family, OwnTyped
<1>3. Default["sinks"] = <<>>
  BY DEF Default
<1>4. ASSUME pc[g] = "sinks" PROVE Value(g) \in Seq(Sink)
  <2>1. OwnValue(g) \in {Inherit} \cup Seq(Sink)
    BY <1>2, <1>4, Dimensions
  <2>2. Default[pc[g]] = <<>>
    BY <1>3, <1>4
  <2> QED BY <2>1, <2>2 DEF Value
<1> QED BY <1>2, <1>4

THEOREM InitInv == Init => Inv
<1> SUFFICES ASSUME Init PROVE Inv
  OBVIOUS
<1>1. OwnTyped(own)
  <2>1. ASSUME NEW l \in Logger
        PROVE  DOMAIN own[l] = Dimension /\ \A d \in Dimension : own[l][d] \in Own(d)
    <3>1. CASE l = Internal
      <4>1. own[l] = [Inheriting EXCEPT !["sinks"] = InternalSinks]
        BY <3>1 DEF Init
      <4> QED BY <4>1, InheritingTyped, Dimensions, LoggerAssumption
    <3>2. CASE l # Internal
      <4>1. own[l] = Inheriting
        BY <3>2 DEF Init
      <4> QED BY <4>1, InheritingTyped
    <3> QED BY <3>1, <3>2
  <2> QED BY <2>1 DEF Init, OwnTyped
<1>2. Family
  BY <1>1, LoggerAssumption DEF Init, Logger, Family
<1>3. /\ pc \in [Goroutine -> Labels] /\ DOMAIN call = Goroutine
      /\ \A g \in Goroutine : pc[g] = "idle" /\ call[g] = NoCall
      /\ "idle" \in Labels \ (Dimension \cup {"branch"})
  BY Dimensions DEF Init, Labels
<1>4. Calls
  BY <1>3, NoCallSane DEF Calls
<1>5. Work
  BY DEF Init, Work
<1> QED BY <1>2, <1>3, <1>4, <1>5 DEF Inv

-----------------------------------------------------------------------------
(* Only the call of one goroutine is changed.                              *)
LEMMA CallSteps ==
    ASSUME Inv, NEW g \in Goroutine, NEW c, NEW label,
           UNCHANGED <<treeVars, pending, scopes>>,
           call' = [call EXCEPT ![g] = c], pc' = [pc EXCEPT ![g] = label],
           Sane(c, label), Standing(c, label)
    PROVE  Inv'
<1>1. Family' /\ Work' /\ created' = created
  BY DEF Inv, Family, Work, treeVars
<1>2. label \in Labels
  BY DEF Sane
<1>3. /\ pc' \in [Goroutine -> Labels] /\ DOMAIN call' = Goroutine
      /\ \A h \in Goroutine : IF h = g THEN pc'[h] = label /\ call'[h] = c
                              ELSE pc'[h] = pc[h] /\ call'[h] = call[h]
  BY <1>2 DEF Inv, Calls
<1>4. \A h \in Goroutine : Sane(call'[h], pc'[h]) /\ Standing(call'[h], pc'[h])
  BY <1>3 DEF Inv, Calls
<1>5. Calls'
  BY <1>1, <1>3, <1>4 DEF Calls, Sane, Standing
<1> QED BY <1>1, <1>3, <1>5 DEF Inv

LEMMA LabelFacts ==
    /\ Dimension \subseteq Labels
    /\ {"idle", "deliver", "branch", "configure", "warn"} \subseteq Labels
    /\ {"idle", "deliver", "branch", "configure", "warn"} \cap Dimension = {}
    /\ Nil \notin Logger /\ Internal \in Registered
BY Dimensions, LoggerAssumption DEF Labels

(* A call begins: an emit, the warning of Configure or AppendSinks.        *)
LEMMA BeginSteps ==
    ASSUME Inv, NEW g \in Goroutine, NEW op \in {"emit", "append", "warn"}, NEW l \in created,
           NEW n \in Int, NEW s \in Seq(Sink), NEW label \in Dimension,
           UNCHANGED <<treeVars, pending, scopes>>, Goto(g, label),
           call' = [call EXCEPT ![g] = [NoCall EXCEPT !.op = op, !.logger = l, !.at = l,
                                                      !.severity = n, !.extra = s]]
    PROVE  Inv'
<1> DEFINE c == [NoCall EXCEPT !.op = op, !.logger = l, !.at = l, !.severity = n, !.extra = s]
<1>1. /\ DOMAIN c = DOMAIN NoCall /\ c.op = op /\ c.logger = l /\ c.at = l
      /\ c.severity = n /\ c.extra = s /\ c.sinks = NoCall.sinks
      /\ c.accepted = {} /\ c.next = 1
  BY NoCallFields
<1> HIDE DEF c
<1>2. label \in Labels /\ label # "deliver" /\ l # Nil
  BY LabelFacts DEF Inv, Family
<1>3. c.sinks \in Seq(Sink) /\ DOMAIN c.sinks = {}
  BY <1>1, NoCallFields
<1>4. Sane(c, label)
  BY <1>1, <1>2, <1>3 DEF Sane
<1>5. Standing(c, label)
  BY <1>1, <1>2 DEF Standing
<1> QED BY <1>4, <1>5, CallSteps DEF c, Goto

(* A call returns.                                                         *)
LEMMA ReturnSteps ==
    ASSUME Inv, NEW g \in Goroutine, UNCHANGED <<treeVars, pending, scopes>>, Goto(g, "idle"),
           call' = [call EXCEPT ![g] = NoCall]
    PROVE  Inv'
BY NoCallSane, LabelFacts, CallSteps DEF Goto

LEMMA EmitSteps == ASSUME Inv, NEW g \in Goroutine, NEW l \in created, NEW n \in SeverityNumber,
                          Emit(g, l, n)
                   PROVE  Inv'
<1>1. n \in Int /\ <<>> \in Seq(Sink) /\ "min" \in Dimension
  BY LoggerAssumption, Dimensions
<1>2. [NoCall EXCEPT !.op = "emit", !.logger = l, !.at = l, !.severity = n] =
      [NoCall EXCEPT !.op = "emit", !.logger = l, !.at = l, !.severity = n, !.extra = <<>>]
  BY NoCallFields DEF NoCall
<1> QED BY <1>1, <1>2, BeginSteps DEF Emit

LEMMA WarnSteps == ASSUME Inv, NEW g \in Goroutine, WarnDisabled(g) PROVE Inv'
<1>1. SeverityWarn \in Int /\ <<>> \in Seq(Sink) /\ "min" \in Dimension /\ Internal \in created
  BY LoggerAssumption, Dimensions DEF SeverityWarn, Inv, Family
<1>2. [NoCall EXCEPT !.op = "warn", !.logger = Internal, !.at = Internal,
                     !.severity = SeverityWarn] =
      [NoCall EXCEPT !.op = "warn", !.logger = Internal, !.at = Internal,
                     !.severity = SeverityWarn, !.extra = <<>>]
  BY NoCallFields DEF NoCall
<1> QED BY <1>1, <1>2, BeginSteps DEF WarnDisabled

LEMMA BeginAppendSteps == ASSUME Inv, NEW g \in Goroutine, BeginAppend(g) PROVE Inv'
<1>1. PICK l \in created, s \in Override :
         call' = [call EXCEPT ![g] = [NoCall EXCEPT !.op = "append", !.logger = l,
                                                    !.at = l, !.extra = s]]
  BY DEF BeginAppend
<1>2. 0 \in Int /\ s \in Seq(Sink) /\ "sinks" \in Dimension
  BY LoggerAssumption, Dimensions
<1>3. [NoCall EXCEPT !.op = "append", !.logger = l, !.at = l, !.extra = s] =
      [NoCall EXCEPT !.op = "append", !.logger = l, !.at = l, !.severity = 0, !.extra = s]
  BY NoCallFields DEF NoCall
<1> QED BY <1>1, <1>2, <1>3, BeginSteps DEF BeginAppend

(* A walk goes to the parent, which exists.                                *)
LEMMA ClimbSteps == ASSUME Inv, NEW g \in Goroutine, Climb(g) PROVE Inv'
<1> DEFINE c == [call[g] EXCEPT !.at = parent[call[g].at]]
<1>1. /\ call' = [call EXCEPT ![g] = c] /\ pc' = [pc EXCEPT ![g] = pc[g]]
      /\ UNCHANGED <<treeVars, pending, scopes>> /\ pc[g] \in Dimension
  BY DEF Climb, Inv, Calls
<1>2. Sane(call[g], pc[g]) /\ Standing(call[g], pc[g])
  BY DEF Inv, Calls
<1>3. /\ DOMAIN c = DOMAIN call[g] /\ c.at = parent[call[g].at]
      /\ \A f \in DOMAIN NoCall \ {"at"} : c[f] = call[g][f]
  BY <1>2, NoCallFields DEF Sane
<1> HIDE DEF c
<1>4. Sane(c, pc[g])
  BY <1>2, <1>3, NoCallFields DEF Sane
<1>5. c.at \in created /\ c.at # Nil /\ c.logger = call[g].logger
  BY <1>1, <1>2, <1>3, LabelFacts, NoCallFields DEF Climb, WalkEnds, Standing, Inv, Family
<1>6. Standing(c, pc[g])
  BY <1>2, <1>5 DEF Standing
<1> QED BY <1>1, <1>4, <1>6, CallSteps DEF c

LEMMA PassGateSteps == ASSUME Inv, NEW g \in Goroutine, PassGate(g) PROVE Inv'
<1> DEFINE n == IF IsValidSeverityNumber(call[g].severity) THEN call[g].severity ELSE SeverityInfo
           c == [call[g] EXCEPT !.min = Value(g), !.at = call[g].logger, !.severity = n]
<1>1. /\ call' = [call EXCEPT ![g] = c] /\ pc' = [pc EXCEPT ![g] = "suffixes"]
      /\ UNCHANGED <<treeVars, pending, scopes>> /\ pc[g] = "min" /\ pc[g] \in Dimension
  BY Dimensions DEF PassGate, Goto
<1>2. Sane(call[g], pc[g]) /\ Standing(call[g], pc[g])
  BY DEF Inv, Calls
<1>3. /\ DOMAIN c = DOMAIN call[g] /\ c.at = call[g].logger /\ c.severity = n
      /\ \A f \in DOMAIN NoCall \ {"at", "min", "severity"} : c[f] = call[g][f]
  BY <1>2, NoCallFields DEF Sane
<1>4. n \in Int
  BY <1>2 DEF Sane, SeverityInfo
<1> HIDE DEF c, n
<1>5. Sane(c, "suffixes")
  BY <1>1, <1>2, <1>3, <1>4, NoCallFields, LabelFacts, Dimensions DEF Sane
<1>6. Standing(c, "suffixes")
  BY <1>1, <1>2, <1>3, NoCallFields DEF Standing
<1> QED BY <1>1, <1>5, <1>6, CallSteps DEF c, n

(* A setting is resolved: the sinks before any of them is called.          *)
LEMMA ResolveSteps == ASSUME Inv, NEW g \in Goroutine, Resolve(g) PROVE Inv'
<1> DEFINE d == pc[g]
           c == [call[g] EXCEPT ![d] = Value(g), !.at = call[g].logger]
<1>1. /\ call' = [call EXCEPT ![g] = c] /\ pc' = [pc EXCEPT ![g] = Following(g)]
      /\ UNCHANGED <<treeVars, pending, scopes>> /\ d \in {"suffixes", "resource", "sinks"}
      /\ d \in Dimension
  BY Dimensions DEF Resolve, Goto
<1>2. Sane(call[g], d) /\ Standing(call[g], d)
  BY DEF Inv, Calls
<1>3. /\ DOMAIN c = DOMAIN call[g] /\ c[d] = Value(g) /\ c.at = call[g].logger
      /\ \A f \in DOMAIN NoCall \ {"at", d} : c[f] = call[g][f]
  BY <1>1, <1>2, NoCallFields DEF Sane
<1>4. Following(g) \in {"resource", "sinks", "branch", "deliver"}
  BY <1>1 DEF Following
<1>5. d = "sinks" => Value(g) \in Seq(Sink)
  BY <1>1, ValueTyped
<1>6. call[g].accepted = {} /\ call[g].next = 1 /\ call[g].logger # Nil
  BY <1>1, <1>2 DEF Sane, Standing
<1> HIDE DEF c
<1>7. c.sinks \in Seq(Sink)
  BY <1>1, <1>2, <1>3, <1>5, NoCallFields DEF Sane
<1>8. /\ c.op = call[g].op /\ c.extra = call[g].extra /\ c.severity = call[g].severity
      /\ c.next = call[g].next /\ c.accepted = call[g].accepted /\ c.logger = call[g].logger
  BY <1>1, <1>3, NoCallFields
<1>9. Following(g) \in Labels
  BY <1>4, LabelFacts, Dimensions
<1>10. \A i \in DOMAIN c.sinks : i < c.next => FALSE
  BY <1>6, <1>7, <1>8
<1>11. Sane(c, Following(g))
  BY <1>2, <1>3, <1>6, <1>7, <1>8, <1>9, <1>10 DEF Sane
<1>12. Standing(c, Following(g))
  BY <1>2, <1>3, <1>6, <1>8 DEF Standing
<1> QED BY <1>1, <1>11, <1>12, CallSteps DEF c

(* The next sink is called; a sink that does not panic takes the record.   *)
LEMMA DeliverSteps == ASSUME Inv, NEW g \in Goroutine, Deliver(g) PROVE Inv'
<1> DEFINE i == call[g].next
<1>1. /\ pc' = [pc EXCEPT ![g] = "deliver"] /\ pc[g] = "deliver"
      /\ UNCHANGED <<treeVars, pending, scopes>> /\ i <= Len(call[g].sinks)
  BY DEF Deliver, Inv, Calls
<1>2. Sane(call[g], "deliver") /\ Standing(call[g], "deliver")
  BY <1>1 DEF Inv, Calls
<1>3. ASSUME NEW taken \in SUBSET (1..Len(call[g].sinks)),
             call' = [call EXCEPT ![g] = [call[g] EXCEPT !.next = i + 1, !.accepted = taken]],
             call[g].accepted \subseteq taken,
             i \in taken \/ call[g].sinks[i] \in Faulty
      PROVE  Inv'
  <2> DEFINE c == [call[g] EXCEPT !.next = i + 1, !.accepted = taken]
  <2>1. /\ DOMAIN c = DOMAIN call[g] /\ c.next = i + 1 /\ c.accepted = taken
        /\ \A f \in DOMAIN NoCall \ {"next", "accepted"} : c[f] = call[g][f]
    BY <1>2, NoCallFields DEF Sane
  <2> HIDE DEF c
  <2>2. /\ c.op = call[g].op /\ c.extra = call[g].extra /\ c.severity = call[g].severity
        /\ c.sinks = call[g].sinks /\ c.logger = call[g].logger /\ c.at = call[g].at
    BY <2>1, NoCallFields
  <2>3. ASSUME NEW j \in DOMAIN c.sinks, j < c.next, c.sinks[j] \notin Faulty
        PROVE  j \in c.accepted
    <3>1. j \in Nat /\ i \in Nat
      BY <1>2, <2>2 DEF Sane
    <3>2. CASE j < i
      BY <1>2, <1>3, <2>1, <2>2, <2>3, <3>2 DEF Sane
    <3>3. CASE j = i
      BY <1>3, <2>1, <2>2, <2>3, <3>3
    <3> QED BY <2>1, <2>3, <3>1, <3>2, <3>3
  <2>4. Sane(c, "deliver")
    BY <1>2, <2>1, <2>2, <2>3 DEF Sane
  <2>5. Standing(c, "deliver")
    BY <1>2, <2>2 DEF Standing
  <2> QED BY <1>1, <1>3, <2>4, <2>5, CallSteps DEF c
<1>4. /\ i \in 1..Len(call[g].sinks) /\ call[g].accepted \subseteq 1..Len(call[g].sinks)
  BY <1>1, <1>2 DEF Sane
<1>5. CASE call' = [call EXCEPT ![g].next = i + 1, ![g].accepted = @ \cup {i}]
  <2>1. call' = [call EXCEPT ![g] = [call[g] EXCEPT !.next = i + 1,
                                                    !.accepted = call[g].accepted \cup {i}]]
    BY <1>5, <1>2, NoCallFields DEF Inv, Calls, Sane
  <2> QED BY <1>3, <1>4, <2>1
<1>6. CASE call[g].sinks[i] \in Faulty /\ call' = [call EXCEPT ![g].next = i + 1]
  <2>1. call' = [call EXCEPT ![g] = [call[g] EXCEPT !.next = i + 1,
                                                    !.accepted = call[g].accepted]]
    BY <1>6, <1>2, NoCallFields DEF Inv, Calls, Sane
  <2> QED BY <1>3, <1>4, <1>6, <2>1
<1> QED BY <1>5, <1>6 DEF Deliver

-----------------------------------------------------------------------------
(* A goroutine that is in no emit goes to a place outside of one.          *)
LEMMA Moved ==
    ASSUME NEW c, NEW from, NEW to, {from, to} \subseteq {"idle", "configure", "warn"},
           Sane(c, from), Standing(c, from)
    PROVE  Sane(c, to) /\ Standing(c, to)
<1>1. to \in Labels /\ to \notin Dimension \cup {"branch"} /\ from # "deliver"
  BY LabelFacts
<1> QED BY <1>1 DEF Sane, Standing

(* A setting is changed, and no call.                                      *)
LEMMA SetSteps ==
    ASSUME Inv, NEW l \in created, NEW d \in Dimension, NEW v \in Own(d), Set(l, d, v),
           UNCHANGED <<parent, created, call>>, Work',
           pc' \in [Goroutine -> Labels],
           \A g \in Goroutine : pc'[g] = pc[g]
                                \/ {pc[g], pc'[g]} \subseteq {"idle", "configure", "warn"}
    PROVE  Inv'
<1>1. Family'
  BY SetTyped DEF Inv, Family
<1>2. ASSUME NEW g \in Goroutine PROVE Sane(call[g], pc'[g]) /\ Standing(call[g], pc'[g])
  <2>1. Sane(call[g], pc[g]) /\ Standing(call[g], pc[g])
    BY DEF Inv, Calls
  <2>2. CASE pc'[g] = pc[g]
    BY <2>1, <2>2
  <2>3. CASE {pc[g], pc'[g]} \subseteq {"idle", "configure", "warn"}
    BY <2>1, <2>3, Moved
  <2> QED BY <2>2, <2>3
<1>3. DOMAIN pc' = Goroutine /\ DOMAIN call' = Goroutine
  BY DEF Inv, Calls
<1>4. Calls'
  BY <1>2, <1>3 DEF Calls, Standing
<1> QED BY <1>1, <1>4 DEF Inv

LEMMA MutateSteps == ASSUME Inv, NEW g \in Goroutine, Mutate(g) PROVE Inv'
<1>1. PICK s \in Settings : s.logger \in created /\ Set(s.logger, s.dim, s.value)
  BY DEF Mutate
<1>2. s.dim \in Dimension /\ s.value \in Own(s.dim)
  BY LoggerAssumption DEF IsUpdate
<1>3. Work' /\ UNCHANGED <<parent, created, call, pc>>
  BY DEF Mutate, Inv, Work
<1> QED BY <1>1, <1>2, <1>3, SetSteps DEF Inv

LEMMA ApplySteps == ASSUME Inv, NEW g \in Goroutine, Apply(g) PROVE Inv'
<1>1. PICK u \in NextUpdates(g) :
         /\ Set(u.logger, u.dim, u.value)
         /\ pending' = [pending EXCEPT ![g] = @ \ {u}]
         /\ pc' = [pc EXCEPT ![g] = "warn"] \/ pc' = pc
  BY DEF Apply, Goto
<1>2. u \in pending[g] /\ IsUpdate(u) /\ IsConfigured(u)
  BY DEF NextUpdates, Inv, Work
<1>3. u.dim \in Dimension /\ u.value \in Own(u.dim) /\ u.logger \in created
  BY <1>2, LoggerAssumption DEF IsUpdate, IsConfigured, Inv, Family
<1>4. Work' /\ UNCHANGED <<parent, created, call>>
  BY <1>1 DEF Apply, Inv, Work
<1>5. /\ pc' \in [Goroutine -> Labels]
      /\ \A h \in Goroutine : pc'[h] = pc[h] \/ {pc[h], pc'[h]} \subseteq {"idle", "configure", "warn"}
  BY <1>1, LabelFacts DEF Apply, Inv
<1> QED BY <1>1, <1>3, <1>4, <1>5, SetSteps

LEMMA ConfigureSteps ==
    ASSUME Inv, NEW g \in Goroutine, Configure(g) \/ ConfigureReturn(g)
    PROVE  Inv'
<1>1. Family' /\ UNCHANGED <<call, created>>
  BY DEF Configure, ConfigureReturn, Inv, Family, treeVars
<1>2. Work'
  BY LoggerAssumption DEF Configure, ConfigureReturn, Inv, Work, treeVars
<1>3. PICK label \in {"idle", "configure"} :
         pc' = [pc EXCEPT ![g] = label] /\ pc[g] \in {"idle", "configure"}
  BY DEF Configure, ConfigureReturn, Goto, Idle
<1>4. pc' \in [Goroutine -> Labels] /\ DOMAIN pc' = Goroutine
  BY <1>3, LabelFacts DEF Inv
<1>5. ASSUME NEW h \in Goroutine PROVE Sane(call[h], pc'[h]) /\ Standing(call[h], pc'[h])
  <2>1. Sane(call[h], pc[h]) /\ Standing(call[h], pc[h])
    BY DEF Inv, Calls
  <2>2. pc'[h] = pc[h] \/ {pc[h], pc'[h]} \subseteq {"idle", "configure", "warn"}
    BY <1>3 DEF Inv
  <2> QED BY <2>1, <2>2, Moved
<1>6. DOMAIN call' = Goroutine
  BY <1>1 DEF Inv, Calls
<1>7. Calls'
  BY <1>1, <1>4, <1>5, <1>6 DEF Calls, Standing
<1> QED BY <1>1, <1>2, <1>4, <1>7 DEF Inv

-----------------------------------------------------------------------------
(* A detached child is made; everything that exists goes on existing.      *)
LEMMA BranchSteps ==
    ASSUME Inv, NEW l \in created, NEW s \in Own("sinks"), Branch(l, s),
           UNCHANGED <<pending, scopes>>, NEW g \in Goroutine,
           UNCHANGED <<pc, call>> \/ (Goto(g, "idle") /\ call' = [call EXCEPT ![g] = NoCall])
    PROVE  Inv'
<1>1. Family' /\ created \subseteq created'
  BY BranchTyped DEF Inv
<1>2. Work'
  BY <1>1 DEF Inv, Work
<1>3. /\ pc' \in [Goroutine -> Labels] /\ DOMAIN call' = Goroutine
      /\ \A h \in Goroutine : \/ pc'[h] = pc[h] /\ call'[h] = call[h]
                              \/ pc'[h] = "idle" /\ call'[h] = NoCall
  BY LabelFacts DEF Goto, Inv, Calls
<1>4. \A h \in Goroutine : Sane(call'[h], pc'[h]) /\ Standing(call'[h], pc'[h])
  BY <1>3, LabelFacts, NoCallSane DEF Inv, Calls
<1>5. Calls'
  BY <1>1, <1>3, <1>4 DEF Calls, Sane, Standing
<1> QED BY <1>1, <1>2, <1>3, <1>5 DEF Inv

LEMMA DetachSteps == ASSUME Inv, NEW g \in Goroutine, Detach(g) PROVE Inv'
<1>1. PICK l \in created, s \in Override \cup {<<>>, Inherit} : Branch(l, s)
  BY DEF Detach
<1>2. s \in Own("sinks")
  <2>1. CASE s \in Override
    BY <2>1, LoggerAssumption, Dimensions
  <2>2. CASE s \in {<<>>, Inherit}
    BY <2>2, Dimensions, NoCallFields
  <2> QED BY <2>1, <2>2
<1> QED BY <1>1, <1>2, BranchSteps DEF Detach

LEMMA AppendReturnSteps == ASSUME Inv, NEW g \in Goroutine, AppendReturn(g) PROVE Inv'
<1>1. /\ call[g].logger \in created /\ call[g].sinks \in Seq(Sink) /\ call[g].extra \in Seq(Sink)
  BY DEF AppendReturn, Inv, Calls, Sane, Standing
<1>2. call[g].sinks \o call[g].extra \in Seq(Sink)
  BY <1>1, ConcatProperties, Zenon
<1>3. call[g].sinks \o call[g].extra \in Own("sinks")
  BY <1>2, Dimensions, Zenon
<1> QED BY <1>1, <1>3, BranchSteps DEF AppendReturn

-----------------------------------------------------------------------------
LEMMA WithoutOne ==
    ASSUME NEW S, NEW seq \in Seq(S), NEW i \in DOMAIN seq
    PROVE  /\ RemoveAt(seq, i) \in Seq(S)
           /\ \A k \in DOMAIN RemoveAt(seq, i) :
                 \E j \in DOMAIN seq : RemoveAt(seq, i)[k] = seq[j]
<1> DEFINE a == SubSeq(seq, 1, i - 1)
           b == SubSeq(seq, i + 1, Len(seq))
<1>1. i \in 1..Len(seq) /\ Len(seq) \in Nat /\ DOMAIN seq = 1..Len(seq)
  OBVIOUS
<1>2. a \in Seq(S) /\ Len(a) = i - 1 /\ \A k \in 1..(i - 1) : a[k] = seq[k]
  BY <1>1, SubSeqProperties
<1>3. b \in Seq(S) /\ Len(b) = Len(seq) - i /\ \A k \in 1..(Len(seq) - i) : b[k] = seq[i + k]
  BY <1>1, SubSeqProperties
<1> HIDE DEF a, b
<1>4. /\ a \o b \in Seq(S) /\ Len(a \o b) = Len(seq) - 1
      /\ \A k \in 1..(Len(seq) - 1) : (a \o b)[k] = IF k <= i - 1 THEN a[k] ELSE b[k - (i - 1)]
  <2>1. a \in Seq(S) /\ b \in Seq(S)
    BY <1>2, <1>3
  <2>2. /\ a \o b \in Seq(S) /\ Len(a \o b) = Len(a) + Len(b)
        /\ \A k \in 1..(Len(a) + Len(b)) : (a \o b)[k] = IF k <= Len(a) THEN a[k] ELSE b[k - Len(a)]
    BY <2>1, ConcatProperties, Zenon
  <2>3. Len(a) + Len(b) = Len(seq) - 1 /\ Len(a) = i - 1
    BY <1>1, <1>2, <1>3
  <2> QED BY <2>2, <2>3
<1>5. ASSUME NEW k \in 1..(Len(seq) - 1)
      PROVE  \E j \in DOMAIN seq : (a \o b)[k] = seq[j]
  <2>1. CASE k <= i - 1
    <3>1. (a \o b)[k] = seq[k]
      BY <1>1, <1>2, <1>4, <2>1
    <3> QED BY <1>1, <3>1
  <2>2. CASE ~(k <= i - 1)
    <3> DEFINE j == k - (i - 1)
    <3>1. j \in 1..(Len(seq) - i) /\ i + j = k + 1 /\ k + 1 \in 1..Len(seq)
      BY <1>1, <2>2
    <3>2. (a \o b)[k] = b[j]
      BY <1>4, <2>2
    <3>3. b[j] = seq[i + j]
      BY <1>3, <3>1
    <3> QED BY <1>1, <3>1, <3>2, <3>3
  <2> QED BY <2>1, <2>2
<1>6. DOMAIN (a \o b) = 1..(Len(seq) - 1)
  BY <1>4
<1> QED BY <1>4, <1>5, <1>6 DEF RemoveAt, a, b

LEMMA ScopeSteps ==
    ASSUME Inv, NEW g \in Goroutine,
           (\E l \in created, s \in Override : BeginScope(g, l, s)) \/ EndScope(g)
    PROVE  Inv'
<1>1. UNCHANGED <<parent, created, pc, call, pending>> /\ scopes \in Seq(Scope)
  BY DEF BeginScope, EndScope, Inv, Work
<1>2. ASSUME NEW l \in created, NEW s \in Override, BeginScope(g, l, s) PROVE Inv'
  <2> DEFINE r == [by |-> g, logger |-> l, sinks |-> s, prev |-> own[l]["sinks"]]
  <2>1. s \in Own("sinks") /\ s \in Seq(Sink) /\ l \in Logger /\ own[l]["sinks"] \in Own("sinks")
    <3>1. s \in Seq(Sink) /\ l \in Logger
      BY LoggerAssumption DEF Inv, Family
    <3>2. own[l]["sinks"] \in Own("sinks")
      BY <3>1, Dimensions DEF Inv, Family, OwnTyped
    <3> QED BY <3>1, <3>2, Dimensions
  <2>2. r \in Scope /\ r.logger = l
    BY <2>1 DEF Scope
  <2> HIDE DEF r
  <2>3. scopes' = Append(scopes, r)
    BY <1>2 DEF BeginScope, r
  <2>4. scopes' \in Seq(Scope) /\ \A i \in DOMAIN scopes' : scopes'[i].logger \in created
    BY <1>1, <2>2, <2>3 DEF Inv, Work
  <2>5. Work'
    BY <1>1, <2>4 DEF Inv, Work
  <2>6. Set(l, "sinks", s)
    BY <1>2 DEF BeginScope
  <2> QED BY <1>1, <2>1, <2>5, <2>6, Dimensions, SetSteps DEF Inv
<1>3. CASE EndScope(g)
  <2>1. PICK i \in LastScope(g) : Set(scopes[i].logger, "sinks", scopes[i].prev)
                                  /\ scopes' = RemoveAt(scopes, i)
    BY <1>3 DEF EndScope
  <2>2. i \in DOMAIN scopes /\ scopes[i].logger \in created /\ scopes[i] \in Scope
    BY <1>1 DEF LastScope, Inv, Work
  <2>3. scopes[i].prev \in Own("sinks")
    BY <2>2 DEF Scope
  <2>4. scopes' \in Seq(Scope) /\ \A k \in DOMAIN scopes' : scopes'[k].logger \in created
    BY <1>1, <2>1, <2>2, WithoutOne DEF Inv, Work
  <2>5. Work'
    BY <1>1, <2>4 DEF Inv, Work
  <2> QED BY <1>1, <2>1, <2>2, <2>3, <2>5, Dimensions, SetSteps DEF Inv
<1> QED BY <1>2, <1>3

(* The invariant is inductive.                                             *)
THEOREM InvStep == Inv /\ [Next]_vars => Inv'
<1> SUFFICES ASSUME Inv, [Next]_vars PROVE Inv'
  OBVIOUS
<1>1. CASE UNCHANGED vars
  BY <1>1 DEF vars, treeVars, Inv, Family, Calls, Work, Standing
<1>2. ASSUME NEW g \in Goroutine, Drop(g) \/ EmitReturn(g) PROVE Inv'
  BY <1>2, ReturnSteps DEF Drop, EmitReturn
<1> QED
  BY <1>1, <1>2, EmitSteps, WarnSteps, BeginAppendSteps, ClimbSteps, PassGateSteps, ResolveSteps,
     DeliverSteps, MutateSteps, ApplySteps, ConfigureSteps, DetachSteps, AppendReturnSteps,
     ScopeSteps
  DEF Next, Progress

(* The invariant holds in every reachable state.                           *)
THEOREM Invariance == Spec => []Inv
BY InitInv, InvStep, PTL DEF Spec

(* The settings of loggers, the tree, and the calls of goroutines keep     *)
(* their types: every walk is at a logger, every resolved sink list is a   *)
(* list of sinks, and only positions in it are recorded.                   *)
THEOREM TypeCorrect == Spec => []TypeOK
<1>1. ASSUME Inv PROVE TypeOK
  <2>1. \A g \in Goroutine : /\ Sane(call[g], pc[g])
                             /\ call[g].logger \in Logger \cup {Nil}
                             /\ call[g].at \in Logger \cup {Nil}
    BY <1>1 DEF Inv, Calls, Standing, Family
  <2>2. \A i \in DOMAIN scopes : scopes[i] \in Scope
    BY <1>1 DEF Inv, Work
  <2>3. \A i \in DOMAIN scopes : /\ scopes[i].by \in Goroutine /\ scopes[i].logger \in Logger
                                 /\ scopes[i].prev \in Own("sinks")
    BY <2>2 DEF Scope
  <2> QED BY <1>1, <2>1, <2>3 DEF TypeOK, Inv, Family, OwnTyped, Calls, Sane
<1> QED BY <1>1, Invariance, PTL

(* An emit comes back only when every sink of its snapshot that does not   *)
(* panic has taken the record, whichever siblings panic, however long the  *)
(* list and whoever else is logging (logger.go:655-662).                   *)
THEOREM SinkFailureIsolatedCorrect == Spec => SinkFailureIsolated
<1> DEFINE Isolated == \A g \in Goroutine : pc[g] = "deliver" /\ pc'[g] # "deliver" =>
          \A i \in DOMAIN call[g].sinks :
             call[g].sinks[i] \notin Faulty => i \in call[g].accepted
<1>1. ASSUME Inv, [Next]_vars PROVE [Isolated]_vars
  <2> SUFFICES ASSUME NEW g \in Goroutine, pc[g] = "deliver", pc'[g] # "deliver",
                      NEW i \in DOMAIN call[g].sinks, call[g].sinks[i] \notin Faulty, ~UNCHANGED vars
               PROVE  i \in call[g].accepted
    OBVIOUS
  <2>1. PICK h \in Goroutine :
           \/ \E l \in created, n \in SeverityNumber : Emit(h, l, n)
           \/ Mutate(h) \/ Detach(h) \/ BeginAppend(h) \/ Configure(h)
           \/ \E l \in created, s \in Override : BeginScope(h, l, s)
           \/ EndScope(h)
           \/ Progress(h)
    BY <1>1 DEF Next
  <2>2. h = g /\ EmitReturn(g)
    <3>1. pc \in [Goroutine -> Labels]
      BY <1>1 DEF Inv
    <3>2. CASE UNCHANGED pc
      BY <3>2
    <3>3. CASE pc[h] # "deliver" /\ \E label : Goto(h, label)
      BY <3>1, <3>3 DEF Goto
    <3>4. CASE EmitReturn(h)
      BY <3>1, <3>4 DEF EmitReturn, Goto
    <3>5. UNCHANGED pc \/ EmitReturn(h) \/ (pc[h] # "deliver" /\ \E label : Goto(h, label))
      BY <2>1, LabelFacts DEF Emit, Mutate, Detach, BeginAppend, Configure, BeginScope, EndScope,
         Progress, Climb, Drop, PassGate, Resolve, Deliver, AppendReturn, Apply, WarnDisabled,
         ConfigureReturn, Idle
    <3> QED BY <3>2, <3>3, <3>4, <3>5
  <2>3. Sane(call[g], pc[g])
    BY <1>1 DEF Inv, Calls
  <2>4. i < call[g].next
    BY <2>2, <2>3 DEF EmitReturn, Sane
  <2> QED BY <2>3, <2>4 DEF Sane
<1> QED BY <1>1, Invariance, PTL DEF Spec, SinkFailureIsolated

-----------------------------------------------------------------------------
(***************************************************************************)
(* The walk up the tree of loggers as a function: what Source yields, for  *)
(* any finite tree, and what follows for the scopes of ScopeSinks, nested  *)
(* to any depth on any loggers.                                            *)
(***************************************************************************)
LEMMA Least ==
    ASSUME NEW T \in SUBSET Nat, T # {}
    PROVE  \E k \in T : \A j \in T : k <= j
<1> DEFINE R == {ss \in Nat \X Nat : ss[1] < ss[2]}
<1>1. IsWellFoundedOn(R, Nat)
  BY NatLessThanWellFounded DEF OpToRel
<1>2. PICK k \in T : \A j \in T : <<j, k>> \notin R
  <2> HIDE DEF R
  <2> QED BY <1>1, WFMin
<1>3. \A j \in T : ~(j < k)
  BY <1>2
<1> QED BY <1>3

-----------------------------------------------------------------------------
(* The recursion of Source, for any settings o and parents p.              *)
Walk(o, p, d, f) ==
    f = [m \in Logger |-> IF o[m][d] # Inherit \/ p[m] = Nil THEN m ELSE f[p[m]]]

Up(o, p, d) == CHOOSE f : Walk(o, p, d, f)

LEMMA SourceIsUp ==
    ASSUME NEW d, NEW l
    PROVE  Source(l, d) = Up(own, parent, d)[l] /\ Source(l, d)' = Up(own', parent', d)[l]
BY DEF Source, Up, Walk

Tree(p, rank, top) ==
    /\ top \in Nat
    /\ p \in [Logger -> Logger \cup {Nil}]
    /\ rank \in [Logger -> 0..top]
    /\ \A m \in Logger : p[m] # Nil => rank[p[m]] < rank[m]

IsTree(p) == \E top, rank : Tree(p, rank, top)

LEMMA ByRank ==
    ASSUME NEW p, NEW Bad \in SUBSET Logger, IsTree(p), \A m \in Bad : p[m] \in Bad
    PROVE  Bad = {}
<1> SUFFICES ASSUME Bad # {} PROVE FALSE
  OBVIOUS
<1> PICK top, rank : Tree(p, rank, top)
  BY DEF IsTree
<1> DEFINE T == {rank[m] : m \in Bad}
<1>1. T \in SUBSET Nat /\ T # {}
  BY DEF Tree
<1>2. PICK k \in T : \A j \in T : k <= j
  <2> HIDE DEF T
  <2> QED BY <1>1, Least
<1>3. PICK m \in Bad : rank[m] = k
  BY <1>2
<1>4. p[m] \in Bad /\ p[m] # Nil /\ rank[p[m]] \in T
  BY LabelFacts
<1>5. rank[p[m]] < rank[m] /\ rank[m] \in Nat /\ rank[p[m]] \in Nat
  BY <1>4 DEF Tree
<1> QED BY <1>2, <1>3, <1>4, <1>5

(* The recursion has a solution, built up along the rank.                  *)
LEMMA UpExists ==
    ASSUME NEW o, NEW p, NEW top \in Nat, NEW rank, Tree(p, rank, top), NEW d
    PROVE  \E f : Walk(o, p, d, f)
<1> DEFINE Stop(m) == o[m][d] # Inherit \/ p[m] = Nil
           Part(k) == {m \in Logger : rank[m] < k}
           Solves(k, f) == f = [m \in Part(k) |-> IF Stop(m) THEN m ELSE f[p[m]]]
           Bad == {k \in Nat : ~ \E f : Solves(k, f)}
<1>t. /\ \A m \in Logger : rank[m] \in 0..top
      /\ \A m \in Logger : ~Stop(m) => p[m] \in Logger /\ rank[p[m]] < rank[m]
  BY DEF Tree
<1>1. ASSUME Bad # {} PROVE FALSE
  <2>1. PICK k \in Bad : \A j \in Bad : k <= j
    BY <1>1, Least
  <2>2. CASE k = 0
    <3>1. Part(0) = {}
      BY <1>t
    <3>2. [m \in {} |-> 0] = [m \in Part(0) |-> IF Stop(m) THEN m
                                                ELSE [i \in {} |-> 0][p[m]]]
      BY <3>1
    <3>3. Solves(0, [m \in {} |-> 0])
      BY <3>2
    <3> QED BY <2>1, <2>2, <3>3
  <2>3. CASE k # 0
    <3>1. k \in Nat /\ k - 1 \in Nat /\ k - 1 \notin Bad
      <4> HIDE DEF Solves
      <4> QED BY <2>1, <2>3
    <3>2. PICK f : Solves(k - 1, f)
      <4> HIDE DEF Solves
      <4> QED BY <3>1
    <3> DEFINE h == [m \in Part(k) |-> IF Stop(m) THEN m ELSE f[p[m]]]
    <3>3. ASSUME NEW m \in Part(k), ~Stop(m) PROVE f[p[m]] = h[p[m]]
      <4>1. p[m] \in Part(k - 1) /\ p[m] \in Part(k)
        <5>1. p[m] \in Logger /\ rank[p[m]] < rank[m] /\ rank[m] < k
              /\ rank[m] \in Int /\ rank[p[m]] \in Int /\ k \in Int
          BY <1>t, <3>1, <3>3
        <5> QED BY <5>1
      <4>2. f[p[m]] = IF Stop(p[m]) THEN p[m] ELSE f[p[p[m]]]
        BY <3>2, <4>1
      <4>3. h[p[m]] = IF Stop(p[m]) THEN p[m] ELSE f[p[p[m]]]
        BY <4>1
      <4> QED BY <4>2, <4>3
    <3>4. h = [m \in Part(k) |-> IF Stop(m) THEN m ELSE h[p[m]]]
      <4> HIDE DEF Part
      <4>1. \A m \in Part(k) : (IF Stop(m) THEN m ELSE f[p[m]]) =
                               (IF Stop(m) THEN m ELSE h[p[m]])
        BY <3>3
      <4> HIDE DEF h
      <4> QED BY <4>1 DEF h
    <3>5. Solves(k, h)
      BY <3>4
    <3> QED BY <2>1, <3>5
  <2> QED BY <2>2, <2>3
<1>2. PICK f : Solves(top + 1, f)
  <2> HIDE DEF Solves
  <2>1. top + 1 \in Nat /\ top + 1 \notin Bad
    <3> HIDE DEF Bad
    <3> QED BY <1>1
  <2> QED BY <2>1, Zenon
<1>3. Part(top + 1) = Logger
  BY <1>t
<1> QED BY <1>2, <1>3 DEF Walk

(* One step of the walk.                                                   *)
Climbs(o, p, d, f) ==
    \A l \in Logger :
        /\ o[l][d] # Inherit \/ p[l] = Nil => f[l] = l
        /\ o[l][d] = Inherit /\ p[l] # Nil => p[l] \in Logger /\ f[l] = f[p[l]]

LEMMA UpClimbs ==
    ASSUME NEW o, NEW p, NEW d, IsTree(p)
    PROVE  Climbs(o, p, d, Up(o, p, d))
<1>1. PICK top, rank : top \in Nat /\ Tree(p, rank, top)
  BY DEF IsTree, Tree
<1>2. Walk(o, p, d, Up(o, p, d))
  BY <1>1, UpExists DEF Up
<1> QED BY <1>1, <1>2 DEF Walk, Tree, Climbs

(* Sets of loggers a walk does not leave, and settings that are the same   *)
(* on them.                                                                *)
Closed(S, p) == S \subseteq Logger /\ \A m \in S : p[m] # Nil => p[m] \in S
Agree(o, p, o2, p2, d, S) == \A m \in S : p2[m] = p[m] /\ o2[m][d] = o[m][d]

LEMMA UpWithin ==
    ASSUME NEW o, NEW p, NEW d, NEW S, IsTree(p), Closed(S, p)
    PROVE  \A m \in S : LET u == Up(o, p, d)[m]
                        IN  u \in S /\ (o[u][d] # Inherit \/ p[u] = Nil)
<1> DEFINE f == Up(o, p, d)
           Bad == {m \in S : ~(f[m] \in S /\ (o[f[m]][d] # Inherit \/ p[f[m]] = Nil))}
<1>1. Climbs(o, p, d, f)
  BY UpClimbs
<1> HIDE DEF f
<1>2. Bad \in SUBSET Logger /\ \A m \in Bad : p[m] \in Bad
  BY <1>1 DEF Climbs, Closed
<1>3. Bad = {}
  <2> HIDE DEF Bad
  <2> QED BY <1>2, ByRank
<1> QED BY <1>3 DEF f

LEMMA UpSame ==
    ASSUME NEW o, NEW p, NEW o2, NEW p2, NEW d, NEW S,
           IsTree(p), IsTree(p2), Closed(S, p), Agree(o, p, o2, p2, d, S)
    PROVE  \A m \in S : Up(o2, p2, d)[m] = Up(o, p, d)[m]
<1> DEFINE f == Up(o, p, d)
           f2 == Up(o2, p2, d)
           Bad == {m \in S : f2[m] # f[m]}
<1>1. Climbs(o, p, d, f) /\ Climbs(o2, p2, d, f2)
  BY UpClimbs
<1> HIDE DEF f, f2
<1>2. Bad \in SUBSET Logger /\ \A m \in Bad : p[m] \in Bad
  <2>1. ASSUME NEW m \in Bad PROVE m \in Logger /\ p[m] \in Bad
    <3>1. m \in Logger /\ m \in S /\ p2[m] = p[m] /\ f2[m] # f[m] /\ o2[m][d] = o[m][d]
      BY DEF Closed, Agree
    <3>2. o[m][d] = Inherit /\ p[m] # Nil
      BY <1>1, <3>1 DEF Climbs
    <3>3. f[m] = f[p[m]] /\ f2[m] = f2[p[m]]
      BY <1>1, <3>1, <3>2 DEF Climbs
    <3> QED BY <3>1, <3>2, <3>3 DEF Closed
  <2> QED BY <2>1
<1>3. Bad = {}
  <2> HIDE DEF Bad
  <2> QED BY <1>2, ByRank
<1> QED BY <1>3 DEF f, f2

(* The loggers of P lead to a without a setting of their own.              *)
Path(o, p, d, P, l, a) ==
    /\ l \in P \cup {a} /\ P \subseteq Logger
    /\ \A m \in P : o[m][d] = Inherit /\ p[m] \in P \cup {a} /\ p[m] # Nil

LEMMA UpAlong ==
    ASSUME NEW o, NEW p, NEW d, NEW P, NEW a, NEW l, IsTree(p), Path(o, p, d, P, l, a)
    PROVE  Up(o, p, d)[l] = Up(o, p, d)[a]
<1> DEFINE f == Up(o, p, d)
           Bad == {m \in P : f[m] # f[a]}
<1>1. Climbs(o, p, d, f)
  BY UpClimbs
<1> HIDE DEF f
<1>2. Bad \in SUBSET Logger /\ \A m \in Bad : p[m] \in Bad
  BY <1>1 DEF Climbs, Path
<1>3. Bad = {}
  <2> HIDE DEF Bad
  <2> QED BY <1>2, ByRank
<1> QED BY <1>3 DEF Path, f

-----------------------------------------------------------------------------
(* What the setting d of l is, for any settings and parents.               *)
ValueOf(o, p, d, l) ==
    LET m == Up(o, p, d)[l]
    IN  IF o[m][d] = Inherit THEN Default[d] ELSE o[m][d]

LEMMA ValueSame ==
    ASSUME NEW o, NEW p, NEW o2, NEW p2, NEW d, NEW S,
           IsTree(p), IsTree(p2), Closed(S, p), Agree(o, p, o2, p2, d, S)
    PROVE  \A m \in S : ValueOf(o2, p2, d, m) = ValueOf(o, p, d, m)
<1>1. \A m \in S : Up(o2, p2, d)[m] = Up(o, p, d)[m]
  BY UpSame
<1>2. \A m \in S : Up(o, p, d)[m] \in S
  BY UpWithin
<1> QED BY <1>1, <1>2 DEF ValueOf, Agree

LEMMA ValueAlong ==
    ASSUME NEW o, NEW p, NEW d, NEW P, NEW a, NEW l, IsTree(p), Path(o, p, d, P, l, a)
    PROVE  ValueOf(o, p, d, l) = ValueOf(o, p, d, a)
BY UpAlong DEF ValueOf

(* Where a walk ends it reads the value.                                   *)
LEMMA ValueAtEnd ==
    ASSUME Inv, IsTree(parent), NEW g \in Goroutine, pc[g] \in Dimension, WalkEnds(g)
    PROVE  /\ Source(call[g].at, pc[g]) = call[g].at
           /\ Value(g) = ValueOf(own, parent, pc[g], call[g].at)
<1>1. call[g].at \in Logger
  BY DEF Inv, Calls, Standing, Family
<1>2. own[call[g].at][pc[g]] # Inherit \/ parent[call[g].at] = Nil
  BY DEF WalkEnds, OwnValue
<1>3. Climbs(own, parent, pc[g], Up(own, parent, pc[g]))
  BY UpClimbs
<1>4. Up(own, parent, pc[g])[call[g].at] = call[g].at
  BY <1>1, <1>2, <1>3 DEF Climbs
<1> QED BY <1>4, SourceIsUp DEF ValueOf, Value, OwnValue

LEMMA TreeInit == Init => \E top, rank : Tree(parent, rank, top)
<1> SUFFICES ASSUME Init PROVE \E top, rank : Tree(parent, rank, top)
  OBVIOUS
<1> DEFINE top == Cardinality(Registered)
<1>1. top \in Nat
  BY TreeAssumption, FS_CardinalityType
<1> HIDE DEF top
<1>2. PICK depth \in [Registered -> 0..top] :
         \A l \in Registered : TreeParent[l] # Nil => depth[TreeParent[l]] < depth[l]
  BY TreeAssumption DEF top
<1> DEFINE rank == [l \in Logger |-> IF l \in Registered THEN depth[l] ELSE 0]
<1>3. rank \in [Logger -> 0..top]
  BY <1>1, <1>2
<1>4. ASSUME NEW l \in Logger, parent[l] # Nil PROVE rank[parent[l]] < rank[l]
  <2>1. l \in Registered /\ parent[l] = TreeParent[l] /\ parent[l] \in Registered
    BY <1>4, LoggerAssumption DEF Init
  <2>2. rank[l] = depth[l] /\ rank[parent[l]] = depth[TreeParent[l]]
    BY <2>1 DEF Logger
  <2> QED BY <1>2, <1>4, <2>1, <2>2
<1>5. parent \in [Logger -> Logger \cup {Nil}]
  BY LoggerAssumption DEF Init, Logger
<1> HIDE DEF rank
<1>6. Tree(parent, rank, top)
  BY <1>1, <1>3, <1>4, <1>5 DEF Tree
<1> QED BY <1>1, <1>6

(* A detached child is put at the bottom.                                  *)
LEMMA TreeGrows ==
    ASSUME Inv, NEW top \in Nat, NEW rank, Tree(parent, rank, top), NEW m \in Logger \ created,
           NEW l \in created, parent' \in [Logger -> Logger \cup {Nil}], parent'[m] = l,
           \A k \in Logger \ {m} : parent'[k] = parent[k]
    PROVE  Tree(parent', [rank EXCEPT ![m] = top + 1], top + 1)
<1> DEFINE next == [rank EXCEPT ![m] = top + 1]
<1>1. /\ rank \in [Logger -> 0..top] /\ l \in Logger /\ l # m
      /\ \A k \in Logger : rank[k] \in 0..top
      /\ \A k \in Logger : next[k] = IF k = m THEN top + 1 ELSE rank[k]
  BY DEF Tree, Inv, Family
<1>2. next \in [Logger -> 0..(top + 1)]
  BY <1>1
<1> HIDE DEF next
<1>3. ASSUME NEW k \in Logger, parent'[k] # Nil PROVE next[parent'[k]] < next[k]
  <2>1. CASE k = m
    BY <1>1, <2>1
  <2>2. CASE k # m
    <3>1. parent[k] \in created /\ parent[k] # m /\ parent[k] # Nil /\ parent[k] \in Logger
      BY <1>3, <2>2 DEF Inv, Family
    <3>2. rank[parent[k]] < rank[k]
      BY <3>1 DEF Tree
    <3> QED BY <1>1, <2>2, <3>1, <3>2
  <2> QED BY <2>1, <2>2
<1>4. Tree(parent', next, top + 1)
  BY <1>2, <1>3 DEF Tree
<1> QED BY <1>4 DEF next

-----------------------------------------------------------------------------
(* What one step does to the tree: nothing, one setting of one logger, or  *)
(* a detached child.                                                       *)
Prompted(l, d) ==
    \/ \E u \in Settings : u.logger = l /\ u.dim = d
    \/ \E g \in Goroutine : \E u \in pending[g] : u.logger = l /\ u.dim = d
    \/ d = "sinks" /\ \E g \in Goroutine : "scope" \in Role[g]
    \/ d = "sinks" /\ scopes # <<>>

Changes ==
    /\ UNCHANGED <<parent, created>>
    /\ \E l \in created, d \in Dimension : \E v \in Own(d) : Set(l, d, v) /\ Prompted(l, d)

Branches == \E l \in created, s \in Own("sinks") : Branch(l, s)

Acts(g) ==
    \/ \E l \in created, n \in SeverityNumber : Emit(g, l, n)
    \/ Mutate(g) \/ Detach(g) \/ BeginAppend(g) \/ Configure(g)
    \/ \E l \in created, s \in Override : BeginScope(g, l, s)
    \/ EndScope(g)
    \/ Progress(g)

LEMMA TreeKinds ==
    ASSUME Inv, NEW g \in Goroutine, Acts(g)
    PROVE  UNCHANGED treeVars \/ Changes \/ Branches
<1>1. CASE Mutate(g)
  <2>1. PICK u \in Settings : u.logger \in created /\ Set(u.logger, u.dim, u.value)
    BY <1>1 DEF Mutate
  <2>2. IsUpdate(u)
    BY LoggerAssumption
  <2> QED BY <1>1, <2>1, <2>2 DEF Mutate, IsUpdate, Changes, Prompted
<1>2. CASE Apply(g)
  <2>1. PICK u \in pending[g] : Set(u.logger, u.dim, u.value)
    BY <1>2 DEF Apply, NextUpdates
  <2>2. IsUpdate(u) /\ IsConfigured(u)
    BY DEF Inv, Work
  <2>3. u.logger \in created
    BY <2>2, LoggerAssumption DEF IsConfigured, Inv, Family
  <2> QED BY <1>2, <2>1, <2>2, <2>3 DEF Apply, IsUpdate, Changes, Prompted
<1>3. ASSUME NEW l \in created, NEW s \in Override, BeginScope(g, l, s) PROVE Changes
  <2>1. s \in Own("sinks") /\ "sinks" \in Dimension /\ "scope" \in Role[g]
    BY <1>3, LoggerAssumption, Dimensions DEF BeginScope, Idle
  <2> QED BY <1>3, <2>1 DEF BeginScope, Changes, Prompted
<1>4. CASE EndScope(g)
  <2>1. PICK i \in DOMAIN scopes : Set(scopes[i].logger, "sinks", scopes[i].prev)
    BY <1>4 DEF EndScope, LastScope
  <2>2. scopes[i] \in Scope /\ scopes[i].logger \in created /\ scopes # <<>>
    BY DEF Inv, Work
  <2>3. scopes[i].prev \in Own("sinks") /\ "sinks" \in Dimension
    BY <2>2, Dimensions DEF Scope
  <2> QED BY <1>4, <2>1, <2>2, <2>3 DEF EndScope, Changes, Prompted
<1>5. CASE Detach(g)
  <2>1. PICK l \in created, s \in Override \cup {<<>>, Inherit} : Branch(l, s)
    BY <1>5 DEF Detach
  <2>2. s \in Own("sinks")
    <3>1. CASE s \in Override
      BY <3>1, LoggerAssumption, Dimensions
    <3>2. CASE s \in {<<>>, Inherit}
      BY <3>2, Dimensions, NoCallFields
    <3> QED BY <3>1, <3>2
  <2> QED BY <2>1, <2>2 DEF Branches
<1>6. CASE AppendReturn(g)
  <2>1. call[g].logger \in created /\ call[g].sinks \in Seq(Sink) /\ call[g].extra \in Seq(Sink)
    BY <1>6 DEF AppendReturn, Inv, Calls, Sane, Standing
  <2>2. call[g].sinks \o call[g].extra \in Seq(Sink)
    BY <2>1, ConcatProperties, Zenon
  <2>3. call[g].sinks \o call[g].extra \in Own("sinks")
    BY <2>2, Dimensions, Zenon
  <2> QED BY <1>6, <2>1, <2>3 DEF AppendReturn, Branches
<1> QED
  BY <1>1, <1>2, <1>3, <1>4, <1>5, <1>6
  DEF Acts, Progress, Emit, BeginAppend, Configure, Climb, Drop, PassGate, Resolve, Deliver,
      EmitReturn, WarnDisabled, ConfigureReturn

(* What one step does to the walk of a goroutine: nothing, or it begins    *)
(* one or goes on with it.                                                 *)
Starts(h) ==
    /\ UNCHANGED treeVars
    /\ pc'[h] # pc[h] /\ call'[h].at = call'[h].logger /\ call'[h].logger \in created

WalkKind(h) ==
    \/ pc'[h] = pc[h] /\ call'[h] = call[h]
    \/ pc'[h] \notin Dimension
    \/ Starts(h)
    \/ Climb(h)

LEMMA WalkKinds ==
    ASSUME Inv, NEW g \in Goroutine, Acts(g), NEW h \in Goroutine
    PROVE  WalkKind(h)
<1>1. pc \in [Goroutine -> Labels] /\ DOMAIN call = Goroutine
  BY DEF Inv, Calls
<1>2. CASE UNCHANGED <<pc, call>>
  BY <1>2 DEF WalkKind
<1>3. CASE Climb(g)
  BY <1>1, <1>3 DEF Climb, WalkKind
<1>4. ASSUME NEW label, Goto(g, label), label \notin Dimension, h # g => call'[h] = call[h]
      PROVE  WalkKind(h)
  BY <1>1, <1>4 DEF Goto, WalkKind
<1>5. ASSUME NEW label, Goto(g, label), label # pc[g], UNCHANGED treeVars,
             h # g => call'[h] = call[h],
             call'[g].at = call'[g].logger, call'[g].logger \in created
      PROVE  WalkKind(h)
  BY <1>1, <1>5 DEF Goto, WalkKind, Starts
<1>6. Sane(call[g], pc[g]) /\ Standing(call[g], pc[g])
  BY DEF Inv, Calls
<1>7. CASE PassGate(g)
  <2>1. call'[g].at = call[g].logger /\ call'[g].logger = call[g].logger
    BY <1>1, <1>6, <1>7, NoCallFields DEF PassGate, Sane
  <2>2. call[g].logger \in created
    BY <1>6, <1>7, Dimensions DEF PassGate, Standing
  <2> QED BY <1>1, <1>5, <1>7, <2>1, <2>2 DEF PassGate
<1>8. CASE Resolve(g)
  <2>1. call'[g].at = call[g].logger /\ call'[g].logger = call[g].logger
    BY <1>1, <1>6, <1>8, NoCallFields, Dimensions DEF Resolve, Sane
  <2>2. call[g].logger \in created /\ Following(g) # pc[g]
    BY <1>6, <1>8, Dimensions DEF Resolve, Standing, Following
  <2> QED BY <1>1, <1>5, <1>8, <2>1, <2>2 DEF Resolve
<1>9. ASSUME NEW l \in created, NEW n \in SeverityNumber, Emit(g, l, n) PROVE WalkKind(h)
  <2>1. call'[g].at = l /\ call'[g].logger = l
    BY <1>1, <1>9, NoCallFields DEF Emit
  <2> QED BY <1>1, <1>5, <1>9, <2>1 DEF Emit, Idle
<1>10. CASE BeginAppend(g)
  <2>1. PICK l \in created, s \in Override :
           call' = [call EXCEPT ![g] = [NoCall EXCEPT !.op = "append", !.logger = l,
                                                      !.at = l, !.extra = s]]
    BY <1>10 DEF BeginAppend
  <2>2. call'[g].at = l /\ call'[g].logger = l
    BY <1>1, <2>1, NoCallFields
  <2> QED BY <1>1, <1>5, <1>10, <2>1, <2>2 DEF BeginAppend, Idle
<1>11. CASE WarnDisabled(g)
  <2>1. call'[g].at = Internal /\ call'[g].logger = Internal /\ Internal \in created
    BY <1>1, <1>11, NoCallFields, LoggerAssumption DEF WarnDisabled, Inv, Family
  <2> QED BY <1>1, <1>5, <1>11, <2>1 DEF WarnDisabled
<1>12. CASE Drop(g) \/ EmitReturn(g) \/ AppendReturn(g)
  BY <1>1, <1>4, <1>12, LabelFacts DEF Drop, EmitReturn, AppendReturn
<1>13. CASE Configure(g) \/ ConfigureReturn(g)
  BY <1>4, <1>13, LabelFacts DEF Configure, ConfigureReturn
<1>14. CASE Apply(g)
  BY <1>2, <1>4, <1>14, LabelFacts DEF Apply, WalkKind
<1>15. CASE Deliver(g)
  <2>1. pc[g] \notin Dimension /\ UNCHANGED pc
    BY <1>15, LabelFacts DEF Deliver
  <2>2. h # g => call'[h] = call[h]
    BY <1>1, <1>15 DEF Deliver
  <2> QED BY <2>1, <2>2 DEF WalkKind
<1> QED
  BY <1>2, <1>3, <1>7, <1>8, <1>9, <1>10, <1>11, <1>12, <1>13, <1>14, <1>15
  DEF Acts, Progress, Mutate, Detach, BeginScope, EndScope

(* One more logger passed.                                                 *)
LEMMA PathExtends ==
    ASSUME NEW o, NEW p, NEW d, NEW P, NEW l, NEW a \in Logger, Path(o, p, d, P, l, a),
           o[a][d] = Inherit, p[a] # Nil
    PROVE  Path(o, p, d, P \cup {a}, l, p[a])
BY DEF Path

-----------------------------------------------------------------------------
(* One goroutine opens scopes, and nobody sets or configures sinks.        *)
OneScoper ==
    \A g, h \in Goroutine : "scope" \in Role[g] /\ "scope" \in Role[h] => g = h

SinksUnset == \A u \in Settings \cup UNION Configurations : u.dim # "sinks"

(* The open scopes of a logger form a stack: its own sinks are those of    *)
(* the last one, and each remembers those of the one before.               *)
OnSame(i, j) == scopes[i].logger = scopes[j].logger

Nested ==
    /\ \A i \in DOMAIN scopes :
          (\A j \in DOMAIN scopes : OnSame(i, j) => j <= i)
             => own[scopes[i].logger]["sinks"] = scopes[i].sinks
    /\ \A i, j \in DOMAIN scopes :
          OnSame(i, j) /\ i < j /\ (\A k \in DOMAIN scopes : OnSame(i, k) => k <= i \/ j <= k)
             => scopes[j].prev = scopes[i].sinks

(* An emit of the scoping goroutine on its way to the sinks, and at them.  *)
Captured(g) ==
    /\ pc[g] = "sinks" =>
          \E P \in SUBSET created : Path(own, parent, "sinks", P, call[g].logger, call[g].at)
    /\ pc[g] = "deliver" =>
          /\ call[g].logger \in created
          /\ call[g].sinks = ValueOf(own, parent, "sinks", call[g].logger)

ScopeInv ==
    /\ Inv /\ IsTree(parent) /\ Nested
    /\ \A g \in Goroutine : \A u \in pending[g] : u.dim # "sinks"
    /\ \A i \in DOMAIN scopes : "scope" \in Role[scopes[i].by] /\ scopes[i].sinks \in Override
    /\ \A g \in Goroutine : "scope" \in Role[g] => Captured(g)

(* The sinks of the loggers that exist, and the way up, are left alone.    *)
Kept ==
    /\ created \subseteq created' /\ UNCHANGED scopes
    /\ \A m \in created : own'[m]["sinks"] = own[m]["sinks"] /\ parent'[m] = parent[m]

LEMMA TreeStays ==
    ASSUME Inv, Inv', IsTree(parent), NEW g \in Goroutine, Acts(g)
    PROVE  IsTree(parent')
<1>1. CASE UNCHANGED parent
  BY <1>1 DEF IsTree
<1>2. CASE Branches
  <2>1. PICK l \in created, s \in Own("sinks") : Branch(l, s)
    BY <1>2 DEF Branches
  <2>2. PICK m \in Detached \ created :
           parent'[m] = l /\ \A k \in Logger \ {m} : parent'[k] = parent[k]
    BY <2>1, BranchTyped DEF Inv
  <2>3. m \in Logger \ created /\ parent' \in [Logger -> Logger \cup {Nil}]
    BY DEF Logger, Inv, Family
  <2>4. PICK top, rank : top \in Nat /\ Tree(parent, rank, top)
    BY DEF IsTree, Tree
  <2>5. Tree(parent', [rank EXCEPT ![m] = top + 1], top + 1) /\ top + 1 \in Nat
    BY <2>2, <2>3, <2>4, TreeGrows
  <2> QED BY <2>5 DEF IsTree
<1> QED BY <1>1, <1>2, TreeKinds DEF Changes, treeVars

LEMMA KeptUnlessScoped ==
    ASSUME Inv, NEW g \in Goroutine, Acts(g), SinksUnset,
           \A h \in Goroutine : \A u \in pending[h] : u.dim # "sinks",
           ~EndScope(g), \A l \in created, s \in Override : ~BeginScope(g, l, s)
    PROVE  Kept
<1>1. UNCHANGED scopes
  BY DEF Acts, Progress, Emit, Mutate, Detach, BeginAppend, Configure, Climb, Drop, PassGate,
         Resolve, Deliver, EmitReturn, AppendReturn, Apply, WarnDisabled, ConfigureReturn
<1>2. CASE UNCHANGED treeVars
  BY <1>1, <1>2 DEF treeVars, Kept
<1>3. CASE Branches
  <2>1. PICK l \in created, s \in Own("sinks") : Branch(l, s)
    BY <1>3 DEF Branches
  <2>2. PICK m \in Detached \ created :
           /\ created' = created \cup {m}
           /\ \A k \in Logger \ {m} : own'[k] = own[k] /\ parent'[k] = parent[k]
    BY <2>1, BranchTyped DEF Inv
  <2> QED BY <1>1, <2>2 DEF Kept, Inv, Family
<1>4. ASSUME NEW u, u.logger \in created, IsUpdate(u), u.dim # "sinks",
             Set(u.logger, u.dim, u.value), UNCHANGED <<parent, created>>
      PROVE  Kept
  <2>1. \A m \in Logger : own'[m]["sinks"] = own[m]["sinks"]
    BY <1>4, SetTyped, Dimensions DEF IsUpdate, Inv, Family
  <2> QED BY <1>1, <1>4, <2>1 DEF Kept, Inv, Family
<1>5. CASE Mutate(g)
  <2>1. PICK u \in Settings : u.logger \in created /\ Set(u.logger, u.dim, u.value)
    BY <1>5 DEF Mutate
  <2> QED BY <1>4, <1>5, <2>1, LoggerAssumption DEF Mutate, SinksUnset
<1>6. CASE Apply(g)
  <2>1. PICK u \in pending[g] : Set(u.logger, u.dim, u.value)
    BY <1>6 DEF Apply, NextUpdates
  <2>2. IsUpdate(u) /\ IsConfigured(u)
    BY DEF Inv, Work
  <2>3. u.logger \in created
    BY <2>2, LoggerAssumption DEF IsConfigured, Inv, Family
  <2> QED BY <1>4, <1>6, <2>1, <2>2, <2>3 DEF Apply
<1>7. CASE Mutate(g) \/ Apply(g)
  BY <1>5, <1>6, <1>7
<1>8. CASE ~Mutate(g) /\ ~Apply(g)
  <2>1. UNCHANGED treeVars \/ Branches
    <3>1. CASE Detach(g) \/ AppendReturn(g)
      <4>1. \E l, s : Branch(l, s)
        BY <3>1 DEF Detach, AppendReturn
      <4>2. created' # created
        BY <4>1 DEF Branch
      <4> QED BY <4>2, TreeKinds DEF Changes, treeVars
    <3> QED
      BY <1>8, <3>1
      DEF Acts, Progress, Emit, BeginAppend, Configure, Climb, Drop, PassGate, Resolve, Deliver,
          EmitReturn, WarnDisabled, ConfigureReturn
  <2> QED BY <1>2, <1>3, <2>1
<1> QED BY <1>7, <1>8

(* An emit comes to the sinks with the list it has just resolved.          *)
Arrives(h) ==
    /\ pc[h] = "sinks" /\ WalkEnds(h) /\ UNCHANGED treeVars
    /\ call'[h].sinks = Value(h) /\ call'[h].logger = call[h].logger

LEMMA DeliverKinds ==
    ASSUME Inv, NEW g \in Goroutine, Acts(g), NEW h \in Goroutine, pc'[h] = "deliver"
    PROVE  \/ pc[h] = "deliver" /\ call'[h].sinks = call[h].sinks
                                /\ call'[h].logger = call[h].logger
           \/ Arrives(h)
<1>1. /\ pc \in [Goroutine -> Labels] /\ DOMAIN call = Goroutine
      /\ DOMAIN call[h] = DOMAIN NoCall
  BY DEF Inv, Calls, Sane
<1>2. CASE UNCHANGED <<pc, call>>
  BY <1>2
<1>3. CASE Deliver(g)
  BY <1>1, <1>3, NoCallFields DEF Deliver
<1>4. CASE Resolve(g) /\ g = h
  <2>1. pc[h] \in {"suffixes", "resource", "sinks"} /\ Following(h) = "deliver"
    BY <1>1, <1>4, Dimensions DEF Resolve, Goto
  <2>2. pc[h] = "sinks"
    BY <2>1 DEF Following
  <2>3. call' = [call EXCEPT ![h]["sinks"] = Value(h), ![h].at = call[h].logger]
    BY <1>4, <2>2 DEF Resolve
  <2>4. call'[h].sinks = Value(h) /\ call'[h].logger = call[h].logger
    BY <1>1, <2>3, NoCallFields
  <2> QED BY <1>4, <2>2, <2>4 DEF Resolve, Arrives
<1>5. CASE pc'[h] = pc[h] /\ call'[h] = call[h]
  BY <1>5
<1>6. ASSUME NEW label, Goto(g, label), label # "deliver", h # g => call'[h] = call[h]
      PROVE  pc'[h] = pc[h] /\ call'[h] = call[h]
  BY <1>1, <1>6 DEF Goto
<1>7. CASE Climb(g)
  BY <1>1, <1>7, NoCallFields DEF Climb
<1>8. CASE Resolve(g) /\ g # h
  BY <1>1, <1>8 DEF Resolve, Goto
<1>9. CASE Apply(g)
  BY <1>5, <1>6, <1>9 DEF Apply
<1>10. ASSUME NEW l \in created, NEW n \in SeverityNumber, Emit(g, l, n)
       PROVE  pc'[h] = pc[h] /\ call'[h] = call[h]
  BY <1>1, <1>6, <1>10 DEF Emit
<1>11. CASE PassGate(g) \/ Drop(g) \/ EmitReturn(g) \/ AppendReturn(g) \/ BeginAppend(g)
            \/ WarnDisabled(g)
  BY <1>1, <1>5, <1>6, <1>11
     DEF PassGate, Drop, EmitReturn, AppendReturn, BeginAppend, WarnDisabled
<1>12. CASE Configure(g) \/ ConfigureReturn(g)
  BY <1>5, <1>6, <1>12 DEF Configure, ConfigureReturn
<1> QED
  BY <1>2, <1>3, <1>4, <1>5, <1>7, <1>8, <1>9, <1>10, <1>11, <1>12
  DEF Acts, Progress, Mutate, Detach, BeginScope, EndScope

LEMMA CapturedKept ==
    ASSUME Inv, IsTree(parent), IsTree(parent'), Kept, NEW g \in Goroutine, Acts(g),
           NEW h \in Goroutine, Captured(h)
    PROVE  Captured(h)'
<1>1. \A P \in SUBSET created : P \in SUBSET created'
  BY DEF Kept
<1>2. ASSUME NEW P \in SUBSET created, NEW l, NEW a, Path(own, parent, "sinks", P, l, a)
      PROVE  Path(own', parent', "sinks", P, l, a)
  BY <1>2 DEF Path, Kept
<1>3. ASSUME NEW m \in created
      PROVE  ValueOf(own', parent', "sinks", m) = ValueOf(own, parent, "sinks", m)
  <2>1. Closed(created, parent) /\ Agree(own, parent, own', parent', "sinks", created)
    BY DEF Closed, Agree, Kept, Inv, Family
  <2> QED BY <2>1, ValueSame
<1>4. ASSUME pc'[h] = "sinks"
      PROVE  \E P \in SUBSET created' :
                Path(own', parent', "sinks", P, call'[h].logger, call'[h].at)
  <2>1. CASE pc'[h] = pc[h] /\ call'[h] = call[h]
    <3>1. PICK P \in SUBSET created :
             Path(own, parent, "sinks", P, call[h].logger, call[h].at)
      BY <1>4, <2>1 DEF Captured
    <3> QED BY <1>1, <1>2, <2>1, <3>1
  <2>2. CASE Starts(h)
    <3>1. Path(own', parent', "sinks", {}, call'[h].logger, call'[h].at)
      BY <2>2 DEF Starts, Path
    <3> QED BY <3>1
  <2>3. CASE Climb(h)
    <3> DEFINE a == call[h].at
    <3>1. /\ pc[h] = "sinks" /\ own[a]["sinks"] = Inherit /\ parent[a] # Nil
          /\ own' = own /\ parent' = parent /\ created' = created /\ pc[h] \in Dimension
      BY <1>4, <2>3 DEF Climb, WalkEnds, OwnValue, treeVars
    <3>2. a \in created /\ a \in Logger /\ DOMAIN call = Goroutine /\ DOMAIN call[h] = DOMAIN NoCall
      BY <3>1 DEF Inv, Calls, Sane, Standing, Family
    <3>3. call'[h].at = parent[a] /\ call'[h].logger = call[h].logger
      BY <2>3, <3>2, NoCallFields DEF Climb
    <3>4. PICK P \in SUBSET created : Path(own, parent, "sinks", P, call[h].logger, a)
      BY <3>1 DEF Captured
    <3>5. Path(own, parent, "sinks", P \cup {a}, call[h].logger, parent[a])
      BY <3>1, <3>2, <3>4, PathExtends
    <3> QED BY <3>1, <3>2, <3>3, <3>5
  <2> QED BY <1>4, <2>1, <2>2, <2>3, WalkKinds, Dimensions DEF WalkKind
<1>5. ASSUME pc'[h] = "deliver"
      PROVE  /\ call'[h].logger \in created'
             /\ call'[h].sinks = ValueOf(own', parent', "sinks", call'[h].logger)
  <2>1. CASE pc[h] = "deliver" /\ call'[h].sinks = call[h].sinks
                               /\ call'[h].logger = call[h].logger
    BY <1>3, <2>1 DEF Captured, Kept
  <2>2. CASE Arrives(h)
    <3>1. pc[h] = "sinks" /\ pc[h] \in Dimension
      BY <2>2, Dimensions DEF Arrives
    <3>2. Value(h) = ValueOf(own, parent, "sinks", call[h].at)
      BY <2>2, <3>1, ValueAtEnd DEF Arrives
    <3>3. PICK P \in SUBSET created : Path(own, parent, "sinks", P, call[h].logger, call[h].at)
      BY <3>1 DEF Captured
    <3>4. ValueOf(own, parent, "sinks", call[h].logger) = ValueOf(own, parent, "sinks", call[h].at)
      BY <3>3, ValueAlong
    <3>5. call[h].logger \in created
      BY <3>1 DEF Inv, Calls, Standing
    <3> QED BY <1>3, <2>2, <3>2, <3>4, <3>5 DEF Arrives, Kept
  <2> QED BY <1>5, <2>1, <2>2, DeliverKinds
<1> QED BY <1>4, <1>5 DEF Captured

LEMMA NestedKept ==
    ASSUME Inv, Nested, Kept
    PROVE  Nested'
<1>1. \A i \in DOMAIN scopes : scopes[i].logger \in created
  BY DEF Inv, Work
<1>2. \A i \in DOMAIN scopes : own'[scopes[i].logger]["sinks"] = own[scopes[i].logger]["sinks"]
  BY <1>1 DEF Kept
<1> QED BY <1>2 DEF Nested, OnSame, Kept

(* A scope is pushed: it remembers the sinks of the one below.             *)
LEMMA Pushed ==
    ASSUME Inv, NEW g \in Goroutine, NEW l \in created, NEW s \in Override, BeginScope(g, l, s),
           NEW n, n = Len(scopes) + 1
    PROVE  /\ DOMAIN scopes = 1..(n - 1) /\ DOMAIN scopes' = 1..n /\ n \in Nat
           /\ \A i \in 1..(n - 1) : scopes'[i] = scopes[i]
           /\ scopes'[n] = [by |-> g, logger |-> l, sinks |-> s, prev |-> own[l]["sinks"]]
           /\ own'[l]["sinks"] = s
           /\ \A m \in Logger : m # l => own'[m]["sinks"] = own[m]["sinks"]
<1> DEFINE r == [by |-> g, logger |-> l, sinks |-> s, prev |-> own[l]["sinks"]]
<1>1. scopes \in Seq(Scope) /\ scopes' = Append(scopes, r)
  BY DEF BeginScope, Inv, Work
<1>2. l \in Logger /\ "sinks" \in Dimension /\ s \in Own("sinks")
  BY LoggerAssumption, Dimensions DEF Inv, Family
<1>3. /\ own'[l]["sinks"] = s
      /\ \A m \in Logger : m # l => own'[m]["sinks"] = own[m]["sinks"]
  BY <1>2, SetTyped DEF BeginScope, Inv, Family
<1>4. r \in Scope
  <2>1. s \in Seq(Sink) /\ own[l]["sinks"] \in Own("sinks")
    BY <1>2, LoggerAssumption DEF Inv, Family, OwnTyped
  <2> QED BY <1>2, <2>1 DEF Scope
<1> HIDE DEF r
<1>5. /\ DOMAIN scopes = 1..(n - 1) /\ DOMAIN scopes' = 1..n /\ n \in Nat
      /\ \A i \in 1..(n - 1) : scopes'[i] = scopes[i]
      /\ scopes'[n] = r
  BY <1>1, <1>4, AppendProperties
<1> QED BY <1>3, <1>5 DEF r

LEMMA NestedPushed ==
    ASSUME Inv, Nested, NEW g \in Goroutine, NEW l \in created, NEW s \in Override,
           BeginScope(g, l, s)
    PROVE  /\ Nested'
           /\ \A i \in DOMAIN scopes' : \/ i \in DOMAIN scopes /\ scopes'[i] = scopes[i]
                                        \/ scopes'[i].by = g /\ scopes'[i].sinks = s
<1> DEFINE n == Len(scopes) + 1
           r == [by |-> g, logger |-> l, sinks |-> s, prev |-> own[l]["sinks"]]
<1>1. \A i \in DOMAIN scopes : scopes[i].logger \in created
  BY DEF Inv, Work
<1>2. r.logger = l /\ r.sinks = s /\ r.prev = own[l]["sinks"] /\ r.by = g
  OBVIOUS
<1>3. l \in Logger /\ created \subseteq Logger
  BY DEF Inv, Family
<1>4. /\ DOMAIN scopes = 1..(n - 1) /\ DOMAIN scopes' = 1..n /\ n \in Nat
      /\ \A i \in 1..(n - 1) : scopes'[i] = scopes[i]
      /\ scopes'[n] = r
      /\ own'[l]["sinks"] = s
      /\ \A m \in Logger : m # l => own'[m]["sinks"] = own[m]["sinks"]
  BY Pushed
<1> HIDE DEF n, r
<1>5. ASSUME NEW i \in DOMAIN scopes', \A j \in DOMAIN scopes' : OnSame(i, j)' => j <= i
      PROVE  own'[scopes'[i].logger]["sinks"] = scopes'[i].sinks
  <2>1. CASE i = n
    BY <1>2, <1>4, <2>1
  <2>2. CASE i # n
    <3>1. i \in DOMAIN scopes /\ scopes'[i] = scopes[i]
      BY <1>4, <1>5, <2>2
    <3>2. scopes[i].logger # l
      BY <1>2, <1>4, <1>5, <2>2, <3>1 DEF OnSame
    <3>3. \A j \in DOMAIN scopes : OnSame(i, j) => j <= i
      BY <1>4, <1>5, <3>1 DEF OnSame
    <3>4. own[scopes[i].logger]["sinks"] = scopes[i].sinks
      BY <3>1, <3>3 DEF Nested
    <3> QED BY <1>1, <1>3, <1>4, <3>1, <3>2, <3>4
  <2> QED BY <2>1, <2>2
<1>6. ASSUME NEW i \in DOMAIN scopes', NEW j \in DOMAIN scopes', OnSame(i, j)', i < j,
             \A k \in DOMAIN scopes' : OnSame(i, k)' => k <= i \/ j <= k
      PROVE  scopes'[j].prev = scopes'[i].sinks
  <2>1. i \in DOMAIN scopes /\ scopes'[i] = scopes[i]
    BY <1>4, <1>6
  <2>2. CASE j = n
    <3>1. scopes[i].logger = l
      BY <1>2, <1>4, <1>6, <2>1, <2>2 DEF OnSame
    <3>2. \A k \in DOMAIN scopes : OnSame(i, k) => k <= i
      BY <1>4, <1>6, <2>1, <2>2 DEF OnSame
    <3>3. own[l]["sinks"] = scopes[i].sinks
      BY <2>1, <3>1, <3>2 DEF Nested
    <3> QED BY <1>2, <1>4, <2>1, <2>2, <3>3
  <2>3. CASE j # n
    <3>1. j \in DOMAIN scopes /\ scopes'[j] = scopes[j]
      BY <1>4, <1>6, <2>3
    <3>2. OnSame(i, j) /\ \A k \in DOMAIN scopes : OnSame(i, k) => k <= i \/ j <= k
      BY <1>4, <1>6, <2>1, <3>1 DEF OnSame
    <3> QED BY <1>6, <2>1, <3>1, <3>2 DEF Nested
  <2> QED BY <2>2, <2>3
<1>7. Nested'
  BY <1>5, <1>6 DEF Nested
<1> QED BY <1>2, <1>4, <1>7

LEMMA WithoutLast ==
    ASSUME NEW S, NEW seq \in Seq(S), seq # <<>>
    PROVE  LET rest == RemoveAt(seq, Len(seq))
           IN  rest \in Seq(S) /\ DOMAIN rest = 1..(Len(seq) - 1)
               /\ \A k \in 1..(Len(seq) - 1) : rest[k] = seq[k]
<1> DEFINE n == Len(seq)
           a == SubSeq(seq, 1, n - 1)
           b == SubSeq(seq, n + 1, Len(seq))
<1>1. n \in 1..Len(seq) /\ Len(seq) \in Nat /\ DOMAIN seq = 1..Len(seq)
  OBVIOUS
<1>2. a \in Seq(S) /\ Len(a) = n - 1 /\ \A k \in 1..(n - 1) : a[k] = seq[k]
  BY <1>1, SubSeqProperties
<1>3. b \in Seq(S) /\ Len(b) = 0
  BY <1>1, SubSeqProperties
<1> HIDE DEF a, b
<1>4. /\ a \o b \in Seq(S) /\ Len(a \o b) = Len(a) + Len(b)
      /\ \A k \in 1..(Len(a) + Len(b)) : (a \o b)[k] = IF k <= Len(a) THEN a[k] ELSE b[k - Len(a)]
  BY <1>2, <1>3, ConcatProperties, Zenon
<1>5. Len(a) + Len(b) = n - 1 /\ Len(a) = n - 1
  BY <1>1, <1>2, <1>3
<1>6. DOMAIN (a \o b) = 1..(n - 1)
  BY <1>4, <1>5
<1>7. ASSUME NEW k \in 1..(n - 1) PROVE (a \o b)[k] = seq[k]
  BY <1>1, <1>2, <1>4, <1>5
<1> QED BY <1>4, <1>6, <1>7 DEF RemoveAt, a, b

(* The last scope is popped: what it remembers is restored.                *)
LEMMA Popped ==
    ASSUME Inv, OneScoper, NEW g \in Goroutine, EndScope(g),
           \A i \in DOMAIN scopes : "scope" \in Role[scopes[i].by], NEW n, n = Len(scopes)
    PROVE  /\ n \in DOMAIN scopes /\ DOMAIN scopes = 1..n /\ n \in Nat /\ "scope" \in Role[g]
           /\ scopes' = RemoveAt(scopes, n) /\ DOMAIN scopes' = 1..(n - 1)
           /\ \A i \in 1..(n - 1) : scopes'[i] = scopes[i]
           /\ own'[scopes[n].logger]["sinks"] = scopes[n].prev
           /\ \A m \in Logger : m # scopes[n].logger => own'[m]["sinks"] = own[m]["sinks"]
<1>1. /\ scopes \in Seq(Scope) /\ DOMAIN scopes = 1..n /\ n \in Nat
      /\ \A i \in DOMAIN scopes : scopes[i] \in Scope
  BY DEF Inv, Work
<1>2. PICK e \in LastScope(g) : /\ Set(scopes[e].logger, "sinks", scopes[e].prev)
                                /\ scopes' = RemoveAt(scopes, e)
  BY DEF EndScope
<1>3. e \in DOMAIN scopes /\ scopes[e].by = g /\ "scope" \in Role[g] /\ n \in DOMAIN scopes
  BY <1>1, <1>2 DEF LastScope
<1>4. scopes[n].by = g
  BY <1>1, <1>3 DEF OneScoper, Scope
<1>5. e = n
  BY <1>1, <1>2, <1>3, <1>4 DEF LastScope
<1>6. DOMAIN scopes' = 1..(n - 1) /\ \A i \in 1..(n - 1) : scopes'[i] = scopes[i]
  BY <1>1, <1>2, <1>3, <1>5, WithoutLast
<1>7. /\ own'[scopes[n].logger]["sinks"] = scopes[n].prev
      /\ \A m \in Logger : m # scopes[n].logger => own'[m]["sinks"] = own[m]["sinks"]
  <2>1. /\ scopes[n].logger \in Logger /\ scopes[n].prev \in Own("sinks")
        /\ "sinks" \in Dimension
    BY <1>1, <1>3, Dimensions DEF Scope
  <2> QED BY <1>2, <1>5, <2>1, SetTyped DEF Inv, Family
<1> QED BY <1>1, <1>2, <1>3, <1>5, <1>6, <1>7

LEMMA NestedPopped ==
    ASSUME Inv, Nested, OneScoper, NEW g \in Goroutine, EndScope(g),
           \A i \in DOMAIN scopes : "scope" \in Role[scopes[i].by]
    PROVE  /\ Nested'
           /\ \A i \in DOMAIN scopes' : i \in DOMAIN scopes /\ scopes'[i] = scopes[i]
           /\ "scope" \in Role[g]
<1> DEFINE n == Len(scopes)
           l == scopes[n].logger
<1>1. \A i \in DOMAIN scopes : scopes[i] \in Scope
  BY DEF Inv, Work
<1>2. /\ n \in DOMAIN scopes /\ DOMAIN scopes = 1..n /\ n \in Nat /\ "scope" \in Role[g]
      /\ DOMAIN scopes' = 1..(n - 1) /\ \A i \in 1..(n - 1) : scopes'[i] = scopes[i]
      /\ own'[l]["sinks"] = scopes[n].prev
      /\ \A m \in Logger : m # l => own'[m]["sinks"] = own[m]["sinks"]
  BY Popped
<1> HIDE DEF n, l
<1>3. ASSUME NEW i \in DOMAIN scopes', \A j \in DOMAIN scopes' : OnSame(i, j)' => j <= i
      PROVE  own'[scopes'[i].logger]["sinks"] = scopes'[i].sinks
  <2>1. i \in DOMAIN scopes /\ scopes'[i] = scopes[i] /\ scopes[i].logger \in Logger /\ i < n
    BY <1>1, <1>2, <1>3 DEF Scope
  <2>2. \A j \in DOMAIN scopes : j # n /\ OnSame(i, j) => j <= i
    BY <1>2, <1>3, <2>1 DEF OnSame
  <2>3. CASE OnSame(i, n)
    <3>1. scopes[n].prev = scopes[i].sinks
      BY <1>2, <2>1, <2>2, <2>3 DEF Nested
    <3> QED BY <1>2, <2>1, <2>3, <3>1 DEF OnSame, l
  <2>4. CASE ~OnSame(i, n)
    <3>1. own[scopes[i].logger]["sinks"] = scopes[i].sinks
      BY <2>1, <2>2, <2>4 DEF Nested
    <3> QED BY <1>2, <2>1, <2>4, <3>1 DEF OnSame, l
  <2> QED BY <2>3, <2>4
<1>4. ASSUME NEW i \in DOMAIN scopes', NEW j \in DOMAIN scopes', OnSame(i, j)', i < j,
             \A k \in DOMAIN scopes' : OnSame(i, k)' => k <= i \/ j <= k
      PROVE  scopes'[j].prev = scopes'[i].sinks
  <2>1. /\ i \in DOMAIN scopes /\ scopes'[i] = scopes[i]
        /\ j \in DOMAIN scopes /\ scopes'[j] = scopes[j] /\ j < n
    BY <1>2, <1>4
  <2>2. OnSame(i, j) /\ \A k \in DOMAIN scopes : OnSame(i, k) => k <= i \/ j <= k
    BY <1>2, <1>4, <2>1 DEF OnSame
  <2> QED BY <1>4, <2>1, <2>2 DEF Nested
<1>5. Nested'
  BY <1>3, <1>4 DEF Nested
<1> QED BY <1>2, <1>5

-----------------------------------------------------------------------------
LEMMA ScopeInit == Init => ScopeInv
<1> SUFFICES ASSUME Init PROVE ScopeInv
  OBVIOUS
<1>1. Inv /\ IsTree(parent)
  BY InitInv, TreeInit DEF IsTree
<1>2. scopes = <<>> /\ \A g \in Goroutine : pc[g] = "idle" /\ pending[g] = {}
  BY DEF Init
<1> QED BY <1>1, <1>2 DEF ScopeInv, Nested, Captured

LEMMA ScopeStep == OneScoper /\ SinksUnset /\ ScopeInv /\ [Next]_vars => ScopeInv'
<1> SUFFICES ASSUME OneScoper, SinksUnset, ScopeInv, [Next]_vars PROVE ScopeInv'
  OBVIOUS
<1>1. Inv /\ Inv' /\ Nested /\ IsTree(parent)
  BY InvStep DEF ScopeInv
<1>2. CASE UNCHANGED vars
  BY <1>1, <1>2 DEF vars, treeVars, ScopeInv, Nested, OnSame, Captured, IsTree
<1>3. CASE Next
  <2>1. PICK g \in Goroutine : Acts(g)
    BY <1>3 DEF Next, Acts
  <2>2. IsTree(parent')
    BY <1>1, <2>1, TreeStays
  <2>3. \A h \in Goroutine : \A u \in pending'[h] : u.dim # "sinks"
    <3>1. CASE UNCHANGED pending
      BY <3>1 DEF ScopeInv
    <3>2. CASE Configure(g)
      BY <3>2 DEF Configure, SinksUnset, ScopeInv, Inv, Work
    <3>3. CASE Apply(g)
      BY <3>3 DEF Apply, ScopeInv, Inv, Work
    <3> QED
      BY <2>1, <3>1, <3>2, <3>3
      DEF Acts, Progress, Emit, Mutate, Detach, BeginAppend, Climb, Drop, PassGate, Resolve,
          Deliver, EmitReturn, AppendReturn, WarnDisabled, ConfigureReturn, BeginScope, EndScope
  <2>4. CASE ~EndScope(g) /\ \A l \in created, s \in Override : ~BeginScope(g, l, s)
    <3>1. Kept
      BY <1>1, <2>1, <2>4, KeptUnlessScoped DEF ScopeInv
    <3>2. Nested'
      BY <1>1, <3>1, NestedKept
    <3>3. \A h \in Goroutine : "scope" \in Role[h] => Captured(h)'
      BY <1>1, <2>1, <2>2, <3>1, CapturedKept DEF ScopeInv
    <3>4. scopes' = scopes
      BY <3>1 DEF Kept
    <3> QED BY <1>1, <2>2, <2>3, <3>2, <3>3, <3>4 DEF ScopeInv
  <2>5. ASSUME "scope" \in Role[g], pc'[g] = "idle",
               NEW h \in Goroutine, "scope" \in Role[h]
        PROVE  Captured(h)'
    BY <2>5 DEF OneScoper, Captured
  <2>6. ASSUME NEW l \in created, NEW s \in Override, BeginScope(g, l, s) PROVE ScopeInv'
    <3>1. Nested' /\ \A i \in DOMAIN scopes' : \/ i \in DOMAIN scopes /\ scopes'[i] = scopes[i]
                                               \/ scopes'[i].by = g /\ scopes'[i].sinks = s
      BY <1>1, <2>6, NestedPushed
    <3>2. "scope" \in Role[g] /\ pc'[g] = "idle"
      BY <2>6 DEF BeginScope, Idle
    <3> QED BY <1>1, <2>2, <2>3, <2>5, <3>1, <3>2 DEF ScopeInv
  <2>7. CASE EndScope(g)
    <3>1. /\ Nested' /\ "scope" \in Role[g]
          /\ \A i \in DOMAIN scopes' : i \in DOMAIN scopes /\ scopes'[i] = scopes[i]
      BY <1>1, <2>7, NestedPopped DEF ScopeInv
    <3>2. pc'[g] = "idle"
      BY <2>7 DEF EndScope
    <3> QED BY <1>1, <2>2, <2>3, <2>5, <3>1, <3>2 DEF ScopeInv
  <2> QED BY <2>4, <2>6, <2>7
<1> QED BY <1>2, <1>3

(* The invariant holds in every reachable state.                           *)
THEOREM ScopeInvariance == OneScoper /\ SinksUnset => (Spec => []ScopeInv)
<1> SUFFICES ASSUME OneScoper, SinksUnset PROVE Spec => []ScopeInv
  OBVIOUS
<1>1. ScopeInv /\ [Next]_vars => ScopeInv'
  BY ScopeStep
<1> QED BY <1>1, ScopeInit, PTL DEF Spec

(* An emit made inside ScopeSinks callbacks goes to the sinks of the       *)
(* innermost one on the logger it climbs to (logger.go:488-495): in any    *)
(* tree, with scopes nested to any depth on any loggers, whoever else      *)
(* emits, makes children or changes other settings, if one goroutine opens *)
(* scopes and sinks are not set or configured meanwhile.                   *)
THEOREM ScopeCapturesCorrect == OneScoper /\ SinksUnset => (Spec => []ScopeCaptures)
<1> SUFFICES ASSUME OneScoper, SinksUnset PROVE Spec => []ScopeCaptures
  OBVIOUS
<1>1. ASSUME ScopeInv PROVE ScopeCaptures
  <2> SUFFICES ASSUME NEW g \in Goroutine, pc[g] = "deliver",
                      NEW i \in InnermostOn(g, Source(call[g].logger, "sinks"))
               PROVE  call[g].sinks = scopes[i].sinks
    BY DEF ScopeCaptures
  <2> DEFINE l == call[g].logger
             m == Up(own, parent, "sinks")[l]
  <2>1. m = Source(l, "sinks")
    BY SourceIsUp
  <2>2. /\ i \in DOMAIN scopes /\ scopes[i].by = g /\ scopes[i].logger = m
        /\ \A j \in DOMAIN scopes : scopes[j].by = g /\ scopes[j].logger = m => j <= i
    BY <2>1 DEF InnermostOn
  <2>3. "scope" \in Role[g] /\ scopes[i].sinks \in Override
    BY <1>1, <2>2 DEF ScopeInv
  <2>4. ASSUME NEW j \in DOMAIN scopes PROVE scopes[j].by = g
    <3>1. scopes[j] \in Scope
      BY <1>1 DEF ScopeInv, Inv, Work
    <3>2. scopes[j].by \in Goroutine /\ "scope" \in Role[scopes[j].by]
      BY <1>1, <3>1 DEF ScopeInv, Scope
    <3> QED BY <2>3, <3>2 DEF OneScoper
  <2>5. own[m]["sinks"] = scopes[i].sinks
    BY <1>1, <2>2, <2>4 DEF ScopeInv, Nested, OnSame
  <2>6. call[g].sinks = ValueOf(own, parent, "sinks", l)
    BY <1>1, <2>3 DEF ScopeInv, Captured
  <2>7. own[m]["sinks"] # Inherit
    BY <2>3, <2>5, LoggerAssumption
  <2> QED BY <2>5, <2>6, <2>7 DEF ValueOf
<1> QED BY <1>1, ScopeInvariance, PTL

-----------------------------------------------------------------------------
(* Nested scopes implement the overrides of ScopedSinks: the sinks outside *)
(* every scope are those the outermost one remembers.                      *)
First(sc, l) == {i \in DOMAIN sc : /\ sc[i].logger = l
                                   /\ \A j \in DOMAIN sc : sc[j].logger = l => i <= j}

BaseIn(o, sc, l) == IF First(sc, l) = {} THEN o[l]["sinks"]
                    ELSE sc[CHOOSE i \in First(sc, l) : TRUE].prev

Bases(o, sc) == [l \in Logger |-> BaseIn(o, sc, l)]
Opened(sc) == [i \in DOMAIN sc |-> [logger |-> sc[i].logger, sinks |-> sc[i].sinks]]

ShownInnermost == \A l \in Logger : Scoped!Visible(l) = own[l]["sinks"]

LEMMA MappedChange ==
    ASSUME Bases(own', scopes') \in [Logger -> Own("sinks")], UNCHANGED scopes,
           \A i \in DOMAIN scopes :
              BaseIn(own', scopes', scopes[i].logger) = BaseIn(own, scopes, scopes[i].logger),
           ShownInnermost'
    PROVE  Scoped!Change
<1> DEFINE b == [l \in Logger |-> IF Outermost(l) = {} THEN own[l]["sinks"]
                                  ELSE scopes[CHOOSE i \in Outermost(l) : TRUE].prev]
<1>1. Scoped!Show
  BY DEF Scoped!Show, ShownInnermost
<1>2. \A l \in Logger : Scoped!On(l) # {} => \E i \in DOMAIN scopes : scopes[i].logger = l
  BY DEF Scoped!On
<1>3. b = Bases(own, scopes)
  BY DEF Bases, BaseIn, First, Outermost
<1>4. b' = Bases(own', scopes')
  BY DEF Bases, BaseIn, First, Outermost
<1>5. \A l \in Logger : Scoped!On(l) # {} => b'[l] = b[l]
  BY <1>2, <1>3, <1>4 DEF Bases
<1>6. b' \in [Logger -> Own("sinks")]
  BY <1>4
<1> QED BY <1>1, <1>5, <1>6 DEF Scoped!Change

LEMMA MappedBegin ==
    ASSUME NEW l \in Logger, NEW s \in Override,
           Opened(scopes') = Append(Opened(scopes), [logger |-> l, sinks |-> s]),
           Bases(own', scopes') = Bases(own, scopes), ShownInnermost'
    PROVE  Scoped!Begin(l, s)
<1>1. Scoped!Show
  BY DEF Scoped!Show, ShownInnermost
<1> QED BY <1>1 DEF Scoped!Begin, Opened, Bases, BaseIn, First, Outermost

LEMMA MappedEnd ==
    ASSUME NEW i \in DOMAIN scopes, Opened(scopes') = RemoveAt(Opened(scopes), i),
           Bases(own', scopes') = Bases(own, scopes), ShownInnermost'
    PROVE  Scoped!End(i)
<1>1. Scoped!Show
  BY DEF Scoped!Show, ShownInnermost
<1> QED BY <1>1 DEF Scoped!End, Scoped!RemoveAt, RemoveAt, Opened, Bases, BaseIn, First, Outermost

LEMMA Ends ==
    ASSUME NEW n \in Nat, NEW S \in SUBSET (1..n), S # {}
    PROVE  /\ \E k \in S : \A j \in S : k <= j
           /\ \E k \in S : \A j \in S : j <= k
           /\ Max(S) \in S /\ \A j \in S : j <= Max(S)
<1>1. \E k \in S : \A j \in S : k <= j
  BY Least
<1>2. PICK k \in S : \A j \in S : j <= k
  <2> DEFINE R == {n - j : j \in S}
  <2>1. R \in SUBSET Nat /\ R # {}
    <3>1. \A j \in S : n - j \in Nat
      OBVIOUS
    <3> QED BY <3>1
  <2>2. PICK r \in R : \A j \in R : r <= j
    <3> HIDE DEF R
    <3> QED BY <2>1, Least
  <2>3. PICK k \in S : r = n - k
    BY <2>2
  <2>4. \A j \in S : n - k <= n - j
    BY <2>2, <2>3
  <2>5. \A j \in S : j <= k
    BY <2>4
  <2> QED BY <2>5
<1>3. \A j \in S : k >= j
  BY <1>2
<1>4. Max(S) \in S /\ \A j \in S : Max(S) >= j
  BY <1>3 DEF Max
<1>5. \A j \in S : j <= Max(S)
  BY <1>4
<1> QED BY <1>1, <1>2, <1>4, <1>5

LEMMA VisibleShown == ScopeInv => ShownInnermost
<1> SUFFICES ASSUME ScopeInv, NEW l \in Logger PROVE Scoped!Visible(l) = own[l]["sinks"]
  BY DEF ShownInnermost
<1> DEFINE n == Len(scopes)
           S == {i \in DOMAIN scopes : scopes[i].logger = l}
           b == [m \in Logger |-> IF Outermost(m) = {} THEN own[m]["sinks"]
                                  ELSE scopes[CHOOSE i \in Outermost(m) : TRUE].prev]
<1>1. n \in Nat /\ DOMAIN scopes = 1..n /\ Nested
  BY DEF ScopeInv, Inv, Work
<1>2. Scoped!On(l) = S
  BY DEF Scoped!On
<1>3. CASE S = {}
  <2>1. Scoped!Visible(l) = b[l]
    BY <1>2, <1>3 DEF Scoped!Visible
  <2>2. Outermost(l) = {}
    BY <1>3 DEF Outermost
  <2> QED BY <2>1, <2>2
<1>4. CASE S # {}
  <2>1. Max(S) \in S /\ \A j \in S : j <= Max(S)
    <3>1. S \in SUBSET (1..n)
      BY <1>1
    <3> HIDE DEF S
    <3> QED BY <1>1, <1>4, <3>1, Ends
  <2>2. own[l]["sinks"] = scopes[Max(S)].sinks
    BY <1>1, <2>1 DEF Nested, OnSame
  <2>3. Scoped!Visible(l) = scopes[Max(S)].sinks
    <3>1. Scoped!Max(S) = Max(S)
      BY DEF Scoped!Max, Max
    <3> QED BY <1>2, <1>4, <2>1, <3>1 DEF Scoped!Visible
  <2> QED BY <2>2, <2>3
<1> QED BY <1>3, <1>4

LEMMA NoneFirst ==
    ASSUME NEW sc, NEW n \in Nat, DOMAIN sc = 1..n, NEW l, First(sc, l) = {}
    PROVE  \A i \in 1..n : sc[i].logger # l
<1> DEFINE S == {i \in 1..n : sc[i].logger = l}
<1>1. CASE S # {}
  <2>1. S \in SUBSET (1..n)
    OBVIOUS
  <2>2. PICK k \in S : \A j \in S : k <= j
    <3> HIDE DEF S
    <3> QED BY <1>1, <2>1, Ends
  <2>3. k \in First(sc, l)
    BY <2>2 DEF First
  <2> QED BY <2>3
<1> QED BY <1>1

(* The outermost scope on a logger is the one its base is read from.       *)
LEMMA BaseAt ==
    ASSUME NEW sc, NEW n \in Nat, DOMAIN sc = 1..n, NEW o, NEW l
    PROVE  /\ \A i \in First(sc, l) : BaseIn(o, sc, l) = sc[i].prev
           /\ First(sc, l) = {} => BaseIn(o, sc, l) = o[l]["sinks"]
<1>1. ASSUME NEW i \in First(sc, l) PROVE BaseIn(o, sc, l) = sc[i].prev
  <2>1. \A j \in First(sc, l) : j = i
    BY DEF First
  <2>2. (CHOOSE j \in First(sc, l) : TRUE) = i
    BY <2>1
  <2> QED BY <2>2 DEF BaseIn
<1> QED BY <1>1 DEF BaseIn

LEMMA BasesTyped ==
    ASSUME NEW sc \in Seq(Scope), NEW o, OwnTyped(o)
    PROVE  Bases(o, sc) \in [Logger -> Own("sinks")]
<1> SUFFICES ASSUME NEW l \in Logger PROVE BaseIn(o, sc, l) \in Own("sinks")
  BY DEF Bases
<1>1. DOMAIN sc = 1..Len(sc) /\ Len(sc) \in Nat /\ \A i \in DOMAIN sc : sc[i] \in Scope
  OBVIOUS
<1>2. \A i \in DOMAIN sc : sc[i].prev \in Own("sinks")
  BY <1>1 DEF Scope
<1>3. o[l]["sinks"] \in Own("sinks")
  BY Dimensions DEF OwnTyped
<1>4. CASE First(sc, l) = {}
  BY <1>1, <1>3, <1>4, BaseAt
<1>5. CASE First(sc, l) # {}
  <2>1. PICK i \in First(sc, l) : TRUE
    BY <1>5
  <2>2. i \in DOMAIN sc
    BY DEF First
  <2> QED BY <1>1, <1>2, <2>1, <2>2, BaseAt
<1> QED BY <1>4, <1>5

OpenScope == [logger : Logger, sinks : Seq(Sink)]

LEMMA OpenedTyped ==
    ASSUME NEW sc \in Seq(Scope)
    PROVE  /\ Opened(sc) \in Seq(OpenScope) /\ Len(Opened(sc)) = Len(sc)
           /\ \A i \in 1..Len(sc) : /\ Opened(sc)[i].logger = sc[i].logger
                                    /\ Opened(sc)[i].sinks = sc[i].sinks
                                    /\ Opened(sc)[i] =
                                         [logger |-> sc[i].logger, sinks |-> sc[i].sinks]
<1>1. DOMAIN sc = 1..Len(sc) /\ Len(sc) \in Nat
  OBVIOUS
<1>2. ASSUME NEW i \in 1..Len(sc)
      PROVE  [logger |-> sc[i].logger, sinks |-> sc[i].sinks] \in OpenScope
  <2>1. sc[i] \in Scope
    OBVIOUS
  <2> QED BY <2>1 DEF Scope, OpenScope
<1>3. Opened(sc) \in [1..Len(sc) -> OpenScope]
  BY <1>1, <1>2 DEF Opened
<1>4. Opened(sc) \in Seq(OpenScope) /\ Len(Opened(sc)) = Len(sc)
  BY <1>1, <1>3
<1> QED BY <1>1, <1>4 DEF Opened

LEMMA RefineOther ==
    ASSUME Inv, Inv', ShownInnermost', UNCHANGED scopes
    PROVE  Scoped!Change
<1> DEFINE n == Len(scopes)
<1>1. scopes \in Seq(Scope) /\ DOMAIN scopes = 1..n /\ n \in Nat
  BY DEF Inv, Work
<1> HIDE DEF n
<1>2. Bases(own', scopes') \in [Logger -> Own("sinks")]
  BY <1>1, BasesTyped DEF Inv, Family
<1>3. ASSUME NEW i \in DOMAIN scopes
      PROVE  BaseIn(own', scopes', scopes[i].logger) = BaseIn(own, scopes, scopes[i].logger)
  <2>1. First(scopes, scopes[i].logger) # {}
    BY <1>1, NoneFirst
  <2>2. PICK k \in First(scopes, scopes[i].logger) : TRUE
    BY <2>1
  <2>3. /\ BaseIn(own, scopes, scopes[i].logger) = scopes[k].prev
        /\ BaseIn(own', scopes, scopes[i].logger) = scopes[k].prev
    BY <1>1, <2>2, BaseAt
  <2> QED BY <2>3
<1> QED BY <1>2, <1>3, MappedChange

LEMMA RefineBegin ==
    ASSUME Inv, Inv', ShownInnermost', NEW g \in Goroutine, NEW l \in created, NEW s \in Override,
           BeginScope(g, l, s)
    PROVE  Scoped!Begin(l, s)
<1> DEFINE n == Len(scopes) + 1
           r == [by |-> g, logger |-> l, sinks |-> s, prev |-> own[l]["sinks"]]
           rec == [logger |-> l, sinks |-> s]
<1>1. /\ DOMAIN scopes = 1..(n - 1) /\ DOMAIN scopes' = 1..n /\ n \in Nat
      /\ \A i \in 1..(n - 1) : scopes'[i] = scopes[i]
      /\ scopes'[n] = r
      /\ own'[l]["sinks"] = s
      /\ \A m \in Logger : m # l => own'[m]["sinks"] = own[m]["sinks"]
  BY Pushed
<1>2. r.logger = l /\ r.sinks = s /\ r.prev = own[l]["sinks"] /\ l \in Logger
  BY DEF Inv, Family
<1>3. /\ Opened(scopes) \in Seq(OpenScope) /\ Opened(scopes') \in Seq(OpenScope)
      /\ Len(Opened(scopes)) = n - 1 /\ Len(Opened(scopes')) = n /\ rec \in OpenScope
      /\ \A i \in 1..(n - 1) : Opened(scopes')[i] = Opened(scopes)[i]
      /\ Opened(scopes')[n] = rec
  <2>1. scopes \in Seq(Scope) /\ scopes' \in Seq(Scope) /\ s \in Seq(Sink)
    BY LoggerAssumption DEF Inv, Work
  <2>2. Len(scopes) = n - 1 /\ Len(scopes') = n
    BY <1>1, <2>1
  <2>3. /\ Opened(scopes) \in Seq(OpenScope) /\ Opened(scopes') \in Seq(OpenScope)
        /\ Len(Opened(scopes)) = n - 1 /\ Len(Opened(scopes')) = n
    BY <2>1, <2>2, OpenedTyped
  <2>4. rec \in OpenScope
    BY <1>2, <2>1 DEF OpenScope
  <2>5. \A i \in 1..n : Opened(scopes')[i] = [logger |-> scopes'[i].logger,
                                              sinks |-> scopes'[i].sinks]
    BY <1>1 DEF Opened
  <2>6. \A i \in 1..(n - 1) : Opened(scopes)[i] = [logger |-> scopes[i].logger,
                                                   sinks |-> scopes[i].sinks]
    BY <1>1 DEF Opened
  <2> QED BY <1>1, <1>2, <2>3, <2>4, <2>5, <2>6
<1> HIDE DEF n, r, rec
<1>4. Opened(scopes') = Append(Opened(scopes), rec)
  <2>1. /\ Append(Opened(scopes), rec) \in Seq(OpenScope)
        /\ Len(Append(Opened(scopes), rec)) = n
        /\ \A i \in 1..(n - 1) : Append(Opened(scopes), rec)[i] = Opened(scopes)[i]
        /\ Append(Opened(scopes), rec)[n] = rec
    BY <1>1, <1>3, AppendProperties
  <2>2. \A i \in 1..n : Opened(scopes')[i] = Append(Opened(scopes), rec)[i]
    BY <1>1, <1>3, <2>1
  <2> QED BY <1>3, <2>1, <2>2, SeqEqual
<1>5. ASSUME NEW k \in Logger PROVE BaseIn(own', scopes', k) = BaseIn(own, scopes, k)
  <2>1. CASE First(scopes, k) # {}
    <3>1. PICK i \in First(scopes, k) : TRUE
      BY <2>1
    <3>2. i \in First(scopes', k) /\ i \in 1..(n - 1)
      BY <1>1 DEF First
    <3>3. BaseIn(own', scopes', k) = scopes'[i].prev /\ BaseIn(own, scopes, k) = scopes[i].prev
      <4>1. n - 1 \in Nat
        BY <1>1, <3>2
      <4> QED BY <1>1, <3>1, <3>2, <4>1, BaseAt
    <3> QED BY <1>1, <3>2, <3>3
  <2>2. CASE First(scopes, k) = {}
    <3>1. /\ \A i \in 1..(n - 1) : scopes[i].logger # k
          /\ BaseIn(own, scopes, k) = own[k]["sinks"]
      <4>1. n - 1 \in Nat
        BY DEF n, Inv, Work
      <4> QED BY <1>1, <2>2, <4>1, BaseAt, NoneFirst
    <3>2. CASE k = l
      <4>1. n \in First(scopes', k)
        BY <1>1, <1>2, <3>1, <3>2 DEF First, n, Inv, Work
      <4>2. BaseIn(own', scopes', k) = scopes'[n].prev
        BY <1>1, <4>1, BaseAt
      <4> QED BY <1>1, <1>2, <3>1, <3>2, <4>2
    <3>3. CASE k # l
      <4>1. First(scopes', k) = {}
        BY <1>1, <1>2, <3>1, <3>3 DEF First
      <4>2. BaseIn(own', scopes', k) = own'[k]["sinks"]
        BY <1>1, <4>1, BaseAt
      <4> QED BY <1>1, <3>1, <3>3, <4>2
    <3> QED BY <3>2, <3>3
  <2> QED BY <2>1, <2>2
<1>6. Bases(own', scopes') = Bases(own, scopes)
  BY <1>5 DEF Bases
<1> QED BY <1>2, <1>4, <1>6, MappedBegin DEF rec

LEMMA RefineEnd ==
    ASSUME ScopeInv, Inv', OneScoper, ShownInnermost', NEW g \in Goroutine, EndScope(g)
    PROVE  \E i \in DOMAIN scopes : Scoped!End(i)
<1> DEFINE n == Len(scopes)
           l == scopes[n].logger
<1>1. /\ n \in DOMAIN scopes /\ DOMAIN scopes = 1..n /\ n \in Nat
      /\ DOMAIN scopes' = 1..(n - 1) /\ \A i \in 1..(n - 1) : scopes'[i] = scopes[i]
      /\ own'[l]["sinks"] = scopes[n].prev
      /\ \A m \in Logger : m # l => own'[m]["sinks"] = own[m]["sinks"]
  BY Popped DEF ScopeInv
<1>2. /\ Opened(scopes) \in Seq(OpenScope) /\ Opened(scopes') \in Seq(OpenScope)
      /\ Len(Opened(scopes)) = n /\ Len(Opened(scopes')) = n - 1 /\ Opened(scopes) # <<>>
      /\ \A i \in 1..(n - 1) : Opened(scopes')[i] = Opened(scopes)[i]
  <2>1. scopes \in Seq(Scope) /\ scopes' \in Seq(Scope)
    BY DEF ScopeInv, Inv, Work
  <2>2. Len(scopes') = n - 1
    <3>1. DOMAIN scopes' = 1..Len(scopes') /\ Len(scopes') \in Nat
      BY <2>1
    <3>2. n - 1 \in Nat /\ DOMAIN scopes' = 1..(n - 1)
      BY <1>1
    <3> HIDE DEF n
    <3> QED BY <3>1, <3>2
  <2>3. /\ Opened(scopes) \in Seq(OpenScope) /\ Opened(scopes') \in Seq(OpenScope)
        /\ Len(Opened(scopes)) = n /\ Len(Opened(scopes')) = n - 1
    BY <2>1, <2>2, OpenedTyped
  <2>4. \A i \in 1..(n - 1) : Opened(scopes')[i] = Opened(scopes)[i]
    BY <1>1 DEF Opened
  <2>5. Opened(scopes) # <<>>
    BY <1>1, <2>3
  <2> QED BY <2>3, <2>4, <2>5
<1> HIDE DEF n, l
<1>3. Opened(scopes') = RemoveAt(Opened(scopes), n)
  <2> DEFINE rest == RemoveAt(Opened(scopes), n)
  <2>1. /\ rest \in Seq(OpenScope) /\ DOMAIN rest = 1..(n - 1)
        /\ \A k \in 1..(n - 1) : rest[k] = Opened(scopes)[k]
    BY <1>2, WithoutLast
  <2> HIDE DEF rest
  <2>2. Len(rest) = n - 1
    BY <1>1, <2>1
  <2>3. Opened(scopes') = rest
    BY <1>2, <2>1, <2>2, SeqEqual
  <2> QED BY <2>3 DEF rest
<1>4. n - 1 \in Nat
  BY <1>1
<1>5. ASSUME NEW k \in Logger PROVE BaseIn(own', scopes', k) = BaseIn(own, scopes, k)
  <2>1. CASE First(scopes', k) # {}
    <3>1. PICK i \in First(scopes', k) : TRUE
      BY <2>1
    <3>2. i \in First(scopes, k) /\ i \in 1..(n - 1)
      BY <1>1, <3>1 DEF First
    <3>3. BaseIn(own', scopes', k) = scopes'[i].prev /\ BaseIn(own, scopes, k) = scopes[i].prev
      BY <1>1, <1>4, <3>1, <3>2, BaseAt
    <3> QED BY <1>1, <3>2, <3>3
  <2>2. CASE First(scopes', k) = {}
    <3>1. /\ \A i \in 1..(n - 1) : scopes[i].logger # k
          /\ BaseIn(own', scopes', k) = own'[k]["sinks"]
      BY <1>1, <1>4, <2>2, BaseAt, NoneFirst
    <3>2. CASE k = l
      <4>1. n \in First(scopes, k)
        BY <1>1, <3>1, <3>2 DEF First, l
      <4>2. BaseIn(own, scopes, k) = scopes[n].prev
        BY <1>1, <4>1, BaseAt
      <4> QED BY <1>1, <3>1, <3>2, <4>2
    <3>3. CASE k # l
      <4>1. First(scopes, k) = {}
        BY <1>1, <3>1, <3>3 DEF First, l
      <4>2. BaseIn(own, scopes, k) = own[k]["sinks"]
        BY <1>1, <4>1, BaseAt
      <4> QED BY <1>1, <3>1, <3>3, <4>2
    <3> QED BY <3>2, <3>3
  <2> QED BY <2>1, <2>2
<1>6. Bases(own', scopes') = Bases(own, scopes)
  BY <1>5 DEF Bases
<1>7. PICK i \in DOMAIN scopes : Opened(scopes') = RemoveAt(Opened(scopes), i)
  BY <1>1, <1>3
<1>8. Scoped!End(i)
  BY <1>6, <1>7, MappedEnd
<1> QED BY <1>8

LEMMA RefineInit == ScopeInv /\ Init => Scoped!Init
<1> SUFFICES ASSUME ScopeInv, Init PROVE Scoped!Init
  OBVIOUS
<1>1. scopes = <<>> /\ scopes \in Seq(Scope) /\ OwnTyped(own)
  BY DEF Init, ScopeInv, Inv, Work, Family
<1>2. Bases(own, scopes) \in [Logger -> Own("sinks")]
  BY <1>1, BasesTyped
<1>3. \A l \in Logger : Outermost(l) = {}
  BY <1>1 DEF Outermost
<1>4. Opened(scopes) = <<>>
  BY <1>1 DEF Opened
<1> QED BY <1>2, <1>3, <1>4 DEF Scoped!Init, Opened, Bases, BaseIn, First, Outermost

LEMMA RefineStep ==
    OneScoper /\ SinksUnset /\ ScopeInv /\ ScopeInv' /\ [Next]_vars => [Scoped!Next]_(Scoped!vars)
<1> SUFFICES ASSUME OneScoper, SinksUnset, ScopeInv, ScopeInv', [Next]_vars
             PROVE  Scoped!Next \/ UNCHANGED Scoped!vars
  OBVIOUS
<1>1. Inv /\ Inv' /\ IsTree(parent)
  BY DEF ScopeInv
<1>2. ShownInnermost'
  BY VisibleShown, PTL
<1>3. CASE UNCHANGED vars
  <2>1. UNCHANGED scopes
    BY <1>3 DEF vars
  <2> QED BY <1>1, <1>2, <2>1, RefineOther DEF Scoped!Next
<1>4. CASE Next
  <2>1. PICK g \in Goroutine : Acts(g)
    BY <1>4 DEF Next, Acts
  <2>2. ASSUME NEW l \in created, NEW s \in Override, BeginScope(g, l, s) PROVE Scoped!Next
    <3>1. Scoped!Begin(l, s) /\ l \in Logger
      BY <1>1, <1>2, <2>2, RefineBegin DEF Inv, Family
    <3> QED BY <3>1 DEF Scoped!Next
  <2>3. CASE EndScope(g)
    <3>1. PICK i \in DOMAIN scopes : Scoped!End(i)
      BY <1>1, <1>2, <2>3, RefineEnd
    <3> QED BY <3>1 DEF Scoped!Next
  <2>4. CASE ~EndScope(g) /\ \A l \in created, s \in Override : ~BeginScope(g, l, s)
    <3>1. UNCHANGED scopes
      BY <1>1, <2>1, <2>4, KeptUnlessScoped DEF ScopeInv, Kept
    <3> QED BY <1>1, <1>2, <3>1, RefineOther DEF Scoped!Next
  <2> QED BY <2>2, <2>3, <2>4
<1> QED BY <1>3, <1>4

(* ScopeSinks implements the overrides of ScopedSinks: a logger shows the  *)
(* sinks of the scope opened last among the open ones on it and, once all  *)
(* have ended, the ones it had before, which no scope on this or any other *)
(* logger disturbs (logger.go:488-504).  In any tree and for any nesting,  *)
(* if one goroutine opens scopes and sinks are not set or configured       *)
(* meanwhile.                                                              *)
THEOREM ScopedSinksCorrect == OneScoper /\ SinksUnset => (Spec => ScopedSinksSpec)
<1> SUFFICES ASSUME OneScoper, SinksUnset PROVE Spec => ScopedSinksSpec
  OBVIOUS
<1>1. ScopeInv /\ Init => Scoped!Init
  BY RefineInit
<1>2. ScopeInv /\ ScopeInv' /\ [Next]_vars => [Scoped!Next]_(Scoped!vars)
  BY RefineStep
<1> QED BY <1>1, <1>2, ScopeInvariance, PTL DEF Spec, ScopedSinksSpec, Scoped!Spec
=============================================================================
