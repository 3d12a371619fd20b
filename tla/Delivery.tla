------------------------------- MODULE Delivery -------------------------------
(***************************************************************************)
(* One logger with a sink list of its own, the goroutines that emit        *)
(* through it, flush it, close it and replace its sinks (logger.go), and   *)
(* the in-memory sinks that the records end in (in_memory_sink.go).        *)
(*                                                                         *)
(* Emit, Flush and Close take a snapshot of the sink list and then call    *)
(* the sinks one by one; each call of a sink is one critical section of    *)
(* the sink's mutex.  Everything else may come in between.                 *)
(***************************************************************************)
EXTENDS Integers, Sequences

CONSTANTS
    Goroutine,
    Role,        \* the kinds of calls each goroutine makes
    Sink,
    RingSize,    \* the capacity each sink is constructed with
    MinSeverity, \* the severity threshold of each sink
    Severity,    \* the severities of records
    Lists,       \* the sink lists given to SetSinks
    MayErr,      \* sinks whose Flush and Close may return an error
    MaxEmits     \* bound: emits of each goroutine

ASSUME DeliveryAssumption ==
    /\ RingSize \in [Sink -> Int]
    /\ MinSeverity \in [Sink -> Int]
    /\ Severity \subseteq Int
    /\ Lists \subseteq Seq(Sink)
    /\ MayErr \subseteq Sink
    /\ MaxEmits \in Nat

Record == [by : Goroutine, number : Nat, severity : Int]

(* The record being emitted; the snapshot of the sinks and the position in *)
(* it; for Flush and Close the positions that failed and the number that   *)
(* did not; the position whose error Close returns, 0 for the nil error;   *)
(* the outcome that Flush reports.                                         *)
Call == [record : Record, list : Seq(Sink), next : Nat, failed : SUBSET Nat,
         worked : Nat, first : Nat,
         outcome : {"none", "success", "partial", "failure"}]

VARIABLES
    sinks,     \* the sink list of the logger
    records,   \* the records each sink holds, oldest first
    closed,    \* which sinks are closed
    pc, call,  \* per goroutine: what it is doing, the call in progress
    emitted,   \* how many emits each goroutine has begun
    accepted,  \* history: all records each sink ever took, oldest first
    cleared    \* history: how many of them the last Clear took away

sinkVars == <<records, closed, accepted, cleared>>
vars == <<sinks, sinkVars, pc, call, emitted>>

Idle(g) == [record |-> [by |-> g, number |-> 0, severity |-> 0],
            list |-> <<>>, next |-> 1, failed |-> {}, worked |-> 0,
            first |-> 0, outcome |-> "none"]

TypeOK ==
    /\ sinks \in Seq(Sink)
    /\ records \in [Sink -> Seq(Record)]
    /\ closed \in SUBSET Sink
    /\ pc \in [Goroutine -> {"idle", "emit", "flush", "flushed", "close", "closed"}]
    /\ call \in [Goroutine -> Call]
    /\ \A g \in Goroutine : call[g].next \in 1..(Len(call[g].list) + 1)
    /\ emitted \in [Goroutine -> Nat]
    /\ accepted \in [Sink -> Seq(Record)]
    /\ cleared \in [Sink -> Nat]

Init ==
    /\ sinks \in Lists
    /\ records = [s \in Sink |-> <<>>]
    /\ closed = {}
    /\ pc = [g \in Goroutine |-> "idle"]
    /\ call = [g \in Goroutine |-> Idle(g)]
    /\ emitted = [g \in Goroutine |-> 0]
    /\ accepted = [s \in Sink |-> <<>>]
    /\ cleared = [s \in Sink |-> 0]

-----------------------------------------------------------------------------
(* NewInMemorySink keeps a sink with no room alive.                        *)
Capacity(s) == IF RingSize[s] <= 0 THEN 1 ELSE RingSize[s]

SupportsSeverity(s, n) == n >= MinSeverity[s]

(* At capacity the records move down by one slot, over the oldest.         *)
PushedLate(s, r, rec) ==
    Append(IF Len(r) > Capacity(s) THEN [k \in 1..(Capacity(s) - 1) |-> r[k + 1]]
                                   ELSE r, rec)

PushedInPlace(s, r, rec) ==
    IF Len(r) >= Capacity(s) THEN [r EXCEPT ![1] = rec] ELSE Append(r, rec)

Pushed(s, r, rec) ==
    Append(IF Len(r) >= Capacity(s) THEN [k \in 1..(Capacity(s) - 1) |-> r[k + 1]]
                                    ELSE r, rec)

Goto(g, label) == pc' = [pc EXCEPT ![g] = label]
Free(g, role) == pc[g] = "idle" /\ role \in Role[g]

(* The snapshot of the sinks; the record has passed the logger's gate.     *)
BeginEmit(g, n) ==
    /\ Free(g, "emit") /\ emitted[g] < MaxEmits
    /\ emitted' = [emitted EXCEPT ![g] = @ + 1]
    /\ call' = [call EXCEPT ![g].list = sinks,
          ![g].record = [by |-> g, number |-> emitted[g] + 1, severity |-> n]]
    /\ Goto(g, "emit")
    /\ UNCHANGED <<sinks, sinkVars>>

Current(g) == call[g].list[call[g].next]
More(g, op) == pc[g] = op /\ call[g].next <= Len(call[g].list)
Done(g, op) == pc[g] = op /\ call[g].next > Len(call[g].list)

AcceptsClosed(s, rec) == SupportsSeverity(s, rec.severity)

Accepts(s, rec) == SupportsSeverity(s, rec.severity) /\ s \notin closed

EmitToUntilClosed(g) ==
    /\ More(g, "emit")
    /\ IF Accepts(Current(g), call[g].record)
         THEN /\ records' = [records EXCEPT
                    ![Current(g)] = Pushed(Current(g), @, call[g].record)]
              /\ accepted' = [accepted EXCEPT ![Current(g)] = Append(@, call[g].record)]
              /\ call' = [call EXCEPT ![g].next = @ + 1]
         ELSE /\ call' = [call EXCEPT ![g].next = Len(call[g].list) + 1]
              /\ UNCHANGED <<records, accepted>>
    /\ UNCHANGED <<sinks, closed, cleared, pc, emitted>>

EmitToSkipping(g) ==
    /\ More(g, "emit")
    /\ LET rec == call[g].record
           taken == Accepts(Current(g), rec)
       IN  /\ records' = [records EXCEPT
                    ![Current(g)] = IF taken THEN Pushed(Current(g), @, rec) ELSE @]
           /\ accepted' = [accepted EXCEPT
                    ![Current(g)] = IF taken THEN Append(@, rec) ELSE @]
           /\ call' = [call EXCEPT ![g].next = IF taken THEN @ + 2 ELSE @ + 1]
    /\ UNCHANGED <<sinks, closed, cleared, pc, emitted>>

(* InMemorySink.Emit on the next sink of the snapshot.                     *)
EmitTo(g) ==
    /\ More(g, "emit")
    /\ IF Accepts(Current(g), call[g].record)
         THEN /\ records' = [records EXCEPT
                    ![Current(g)] = Pushed(Current(g), @, call[g].record)]
              /\ accepted' = [accepted EXCEPT ![Current(g)] = Append(@, call[g].record)]
         ELSE UNCHANGED <<records, accepted>>
    /\ call' = [call EXCEPT ![g].next = @ + 1]
    /\ UNCHANGED <<sinks, closed, cleared, pc, emitted>>

EmitReturn(g) ==
    /\ Done(g, "emit")
    /\ call' = [call EXCEPT ![g] = Idle(g)]
    /\ Goto(g, "idle")
    /\ UNCHANGED <<sinks, sinkVars, emitted>>

-----------------------------------------------------------------------------
(* Flush and Close of the logger.                                          *)
Begin(g, op) ==
    /\ Free(g, op)
    /\ call' = [call EXCEPT ![g].list = sinks]
    /\ Goto(g, op)
    /\ UNCHANGED <<sinks, sinkVars, emitted>>

(* The next sink fails, or not; a closed sink has nothing to fail at.      *)
Fails(g, firstErr) ==
    /\ Current(g) \in MayErr \ closed
    /\ call' = [call EXCEPT ![g].next = @ + 1, ![g].first = firstErr,
                            ![g].failed = @ \cup {call[g].next}]

Works(g) == call' = [call EXCEPT ![g].next = @ + 1, ![g].worked = @ + 1]

FlushNext(g) ==
    /\ More(g, "flush")
    /\ Fails(g, call[g].first) \/ Works(g)
    /\ UNCHANGED <<sinks, sinkVars, pc, emitted>>

FlushEndPartial(g) ==
    /\ Done(g, "flush")
    /\ call' = [call EXCEPT ![g].outcome =
                  IF call[g].worked = Len(call[g].list) THEN "success" ELSE "partial"]
    /\ Goto(g, "flushed")
    /\ UNCHANGED <<sinks, sinkVars, emitted>>

(* The outcome goes by the number of sinks that did not fail; a logger     *)
(* without sinks reports success.                                          *)
FlushEnd(g) ==
    /\ Done(g, "flush")
    /\ call' = [call EXCEPT ![g].outcome =
                  IF call[g].worked = Len(call[g].list) THEN "success"
                  ELSE IF call[g].worked = 0 THEN "failure" ELSE "partial"]
    /\ Goto(g, "flushed")
    /\ UNCHANGED <<sinks, sinkVars, emitted>>

CloseUntilError(g) ==
    /\ More(g, "close")
    /\ \/ Works(g)
       \/ /\ Current(g) \in MayErr \ closed
          /\ call' = [call EXCEPT ![g].next = Len(call[g].list) + 1,
                                  ![g].first = call[g].next,
                                  ![g].failed = @ \cup {call[g].next}]
    /\ closed' = closed \cup {Current(g)}
    /\ UNCHANGED <<sinks, records, accepted, cleared, pc, emitted>>

(* A sink is closed also when its Close returns an error.  The logger      *)
(* keeps the first of the errors.                                          *)
CloseNext(g) ==
    /\ More(g, "close")
    /\ Fails(g, IF call[g].first = 0 THEN call[g].next ELSE call[g].first) \/ Works(g)
    /\ closed' = closed \cup {Current(g)}
    /\ UNCHANGED <<sinks, records, accepted, cleared, pc, emitted>>

CloseEnd(g) ==
    /\ Done(g, "close")
    /\ Goto(g, "closed")
    /\ UNCHANGED <<sinks, sinkVars, call, emitted>>

Return(g) ==
    /\ pc[g] \in {"flushed", "closed"}
    /\ call' = [call EXCEPT ![g] = Idle(g)]
    /\ Goto(g, "idle")
    /\ UNCHANGED <<sinks, sinkVars, emitted>>

-----------------------------------------------------------------------------
(* SetSinks does not close the sinks it replaces.                          *)
SetSinks(g, l) ==
    /\ Free(g, "set")
    /\ sinks' = l
    /\ UNCHANGED <<sinkVars, pc, call, emitted>>

Clear(g, s) ==
    /\ Free(g, "clear")
    /\ records' = [records EXCEPT ![s] = <<>>]
    /\ cleared' = [cleared EXCEPT ![s] = Len(accepted[s])]
    /\ UNCHANGED <<sinks, closed, accepted, pc, call, emitted>>

Next == \E g \in Goroutine :
    \/ \E n \in Severity : BeginEmit(g, n)
    \/ EmitTo(g) \/ EmitReturn(g)
    \/ Begin(g, "flush") \/ FlushNext(g) \/ FlushEnd(g)
    \/ Begin(g, "close") \/ CloseNext(g) \/ CloseEnd(g)
    \/ Return(g)
    \/ \E l \in Lists : SetSinks(g, l)
    \/ \E s \in Sink : Clear(g, s)

Spec == Init /\ [][Next]_vars

-----------------------------------------------------------------------------
(* Records shows the newest of the records a sink took since it was last   *)
(* cleared, as many as its capacity allows, in the order it took them      *)
(* (in_memory_sink.go:66-70): nothing but the oldest is dropped.           *)
RetainsNewest ==
    \A s \in Sink :
        LET kept == Len(records[s])
            all  == Len(accepted[s])
            new  == all - cleared[s]
        IN  /\ kept = IF new < Capacity(s) THEN new ELSE Capacity(s)
            /\ \A k \in 1..kept : records[s][k] = accepted[s][all - kept + k]

(* A sink holds the records of one goroutine in the order the goroutine    *)
(* emitted them, however its emits interleave with those of others and     *)
(* with SetSinks (logger.go:655-662, in_memory_sink.go:61-70).             *)
PerCallerOrder ==
    \A s \in Sink : \A j, k \in DOMAIN records[s] :
        j < k /\ records[s][j].by = records[s][k].by
           => records[s][j].number <= records[s][k].number

(* When an emit returns, each sink of its snapshot that would take the     *)
(* record and has not been closed meanwhile has taken it, though others of *)
(* the list were closed or replaced under way (logger.go:655-662).         *)
Took(s, rec) == \E k \in DOMAIN accepted[s] : accepted[s][k] = rec

EmitReachesOpen ==
    \A g \in Goroutine : Done(g, "emit") =>
        \A i \in DOMAIN call[g].list :
            Accepts(call[g].list[i], call[g].record) => Took(call[g].list[i], call[g].record)

(* Close closes every sink of its snapshot, also after one of them has     *)
(* returned an error, and returns the first of the errors: nil iff no sink *)
(* of the snapshot failed (logger.go:601-610).                             *)
CloseReachesAll ==
    \A g \in Goroutine : pc[g] = "closed" =>
        /\ \A i \in DOMAIN call[g].list : call[g].list[i] \in closed
        /\ IF call[g].failed = {} THEN call[g].first = 0
           ELSE /\ call[g].first \in call[g].failed
                /\ \A i \in call[g].failed : call[g].first <= i

(* A closed sink stays closed and takes no record, not even one of an emit *)
(* that took its snapshot before the Close; it can still be cleared        *)
(* (in_memory_sink.go:63-65, 76-77).                                       *)
ClosedTakesNothing ==
    [][\A s \in closed : /\ s \in closed'
                         /\ accepted'[s] = accepted[s]
                         /\ records'[s] \in {records[s], <<>>}]_vars

(* Flush reports success iff no sink failed, partial success iff some did  *)
(* and some did not (logger.go:545-551).                                   *)
FlushReported ==
    \A g \in Goroutine : pc[g] = "flushed" =>
        /\ call[g].outcome = "success" <=> call[g].failed = {}
        /\ call[g].outcome = "partial" <=>
              call[g].failed \notin {{}, DOMAIN call[g].list}
=============================================================================
