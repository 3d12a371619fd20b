----------------------------- MODULE ConsoleSink -----------------------------
(***************************************************************************)
(* A ConsoleSink and the goroutines that emit to it and close it           *)
(* (console_sink.go).                                                      *)
(*                                                                         *)
(* A record is formatted before the mutex is taken.  In mode auto the      *)
(* first emit looks whether the stream is a terminal and caches the        *)
(* answer in two fields, isTTY and ttyKnown, without a lock: a race.  The  *)
(* stores of a goroutine may reach the others in either order, so they are *)
(* kept in a set until they do; the goroutine itself sees them at once,    *)
(* and whoever locks the mutex after it has unlocked it sees them too.     *)
(***************************************************************************)
EXTENDS Naturals, Sequences

CONSTANTS
    Goroutine,
    Modes,        \* the modes a sink may have: "auto", "json", "pretty"
    Terminals,    \* may the stream be a terminal? a subset of BOOLEAN
    MinSeverity, Severity,
    Encodable,    \* may a record fail to encode as JSON? a subset of BOOLEAN
    Writes,       \* may a write to the stream fail? a subset of BOOLEAN
    MaxEmits      \* bound: emits of each goroutine

ASSUME ConsoleSinkAssumption ==
    /\ Modes \subseteq {"auto", "json", "pretty"}
    /\ Terminals \subseteq BOOLEAN
    /\ MinSeverity \in Nat /\ Severity \subseteq Nat
    /\ Encodable \subseteq BOOLEAN /\ Writes \subseteq BOOLEAN
    /\ MaxEmits \in Nat

Field == {"isTTY", "ttyKnown"}

VARIABLES
    mode, terminal,  \* of the sink and its stream, never changed
    cache,   \* isTTY and ttyKnown, as all goroutines see them
    stored,  \* per goroutine: its stores to them that others do not see yet
    closed,
    stream,  \* the lines written, each with the record and its style
    pc, call,
    emits    \* how many emits each goroutine has begun

vars == <<mode, terminal, cache, stored, closed, stream, pc, call, emits>>

Style == {"json", "pretty"}

(* The record, whether it can be encoded, its line, and (history) whether  *)
(* the cache held the answer when the emit began.                          *)
NoCall == [number |-> 0, encodable |-> TRUE, style |-> "none", settled |-> FALSE]

TypeOK ==
    /\ mode \in Modes /\ terminal \in Terminals
    /\ cache \in [Field -> BOOLEAN]
    /\ stored \in [Goroutine -> SUBSET (Field \X BOOLEAN)]
    /\ closed \in BOOLEAN
    /\ \A i \in DOMAIN stream : stream[i].by \in Goroutine /\ stream[i].style \in Style
    /\ pc \in [Goroutine -> {"idle", "mode", "probe", "style", "write"}]
    /\ \A g \in Goroutine : call[g].style \in Style \cup {"none"}
    /\ emits \in [Goroutine -> 0..MaxEmits]

Init ==
    /\ mode \in Modes /\ terminal \in Terminals
    /\ cache = [f \in Field |-> FALSE]
    /\ stored = [g \in Goroutine |-> {}]
    /\ closed = FALSE
    /\ stream = <<>>
    /\ pc = [g \in Goroutine |-> "idle"]
    /\ call = [g \in Goroutine |-> NoCall]
    /\ emits = [g \in Goroutine |-> 0]

-----------------------------------------------------------------------------
Goto(g, label) == pc' = [pc EXCEPT ![g] = label]
SupportsSeverity(n) == n >= MinSeverity

(* What goroutine g reads from a field: its own last store, or the cache.  *)
Load(g, f) == IF \E v \in BOOLEAN : <<f, v>> \in stored[g]
                THEN <<f, TRUE>> \in stored[g]
                ELSE cache[f]

(* A store reaches the other goroutines.                                   *)
Propagate(g) ==
    \E s \in stored[g] :
        /\ cache' = [cache EXCEPT ![s[1]] = s[2]]
        /\ stored' = [stored EXCEPT ![g] = @ \ {s}]
        /\ UNCHANGED <<mode, terminal, closed, stream, pc, call, emits>>

Settled == cache = [isTTY |-> terminal, ttyKnown |-> TRUE]

(* A record below the threshold is dropped and leaves no trace.            *)
Emit(g, n, encodable) ==
    /\ pc[g] = "idle" /\ emits[g] < MaxEmits
    /\ SupportsSeverity(n)
    /\ emits' = [emits EXCEPT ![g] = @ + 1]
    /\ call' = [call EXCEPT ![g] = [NoCall EXCEPT !.number = emits[g] + 1,
                     !.encodable = encodable, !.settled = Settled]]
    /\ Goto(g, "mode")
    /\ UNCHANGED <<mode, terminal, cache, stored, closed, stream>>

(* effectiveMode: a forced mode is taken as it is; auto probes the stream  *)
(* unless ttyKnown, then goes by isTTY.                                    *)
Forced(g) ==
    /\ pc[g] = "mode" /\ mode # "auto"
    /\ call' = [call EXCEPT ![g].style = mode]
    /\ Goto(g, "write")
    /\ UNCHANGED <<mode, terminal, cache, stored, closed, stream, emits>>

LoadKnownClearing(g) ==
    /\ pc[g] = "mode" /\ mode = "auto"
    /\ IF Load(g, "ttyKnown")
         THEN Goto(g, "style") /\ UNCHANGED stored
         ELSE Goto(g, "probe") /\ stored' = [stored EXCEPT ![g] = {<<"isTTY", FALSE>>}]
    /\ UNCHANGED <<mode, terminal, cache, closed, stream, call, emits>>

LoadKnown(g) ==
    /\ pc[g] = "mode" /\ mode = "auto"
    /\ Goto(g, IF Load(g, "ttyKnown") THEN "style" ELSE "probe")
    /\ UNCHANGED <<mode, terminal, cache, stored, closed, stream, call, emits>>

Probe(g) ==
    /\ pc[g] = "probe"
    /\ stored' = [stored EXCEPT ![g] = {<<"isTTY", terminal>>, <<"ttyKnown", TRUE>>}]
    /\ Goto(g, "style")
    /\ UNCHANGED <<mode, terminal, cache, closed, stream, call, emits>>

LoadTTYUnresolved(g) ==
    /\ pc[g] = "style"
    /\ call' = [call EXCEPT ![g].style = IF Load(g, "isTTY") THEN "pretty" ELSE mode]
    /\ Goto(g, "write")
    /\ UNCHANGED <<mode, terminal, cache, stored, closed, stream, emits>>

LoadTTY(g) ==
    /\ pc[g] = "style"
    /\ call' = [call EXCEPT ![g].style = IF Load(g, "isTTY") THEN "pretty" ELSE "json"]
    /\ Goto(g, "write")
    /\ UNCHANGED <<mode, terminal, cache, stored, closed, stream, emits>>

(* A record that cannot be encoded is dropped.                             *)
FormatFails(g) ==
    /\ pc[g] = "write" /\ call[g].style = "json" /\ ~call[g].encodable
    /\ Goto(g, "idle")
    /\ call' = [call EXCEPT ![g] = NoCall]
    /\ UNCHANGED <<mode, terminal, cache, stored, closed, stream, emits>>

Formatted(g) ==
    /\ pc[g] = "write" /\ (call[g].style = "pretty" \/ call[g].encodable)
    /\ stored[g] = {}

Line(g) == [by |-> g, number |-> call[g].number, style |-> call[g].style,
            settled |-> call[g].settled]

WriteUnchecked(g) ==
    /\ Formatted(g)
    /\ \E written \in Writes :
          stream' = IF written THEN Append(stream, Line(g)) ELSE stream
    /\ Goto(g, "idle")
    /\ call' = [call EXCEPT ![g] = NoCall]
    /\ UNCHANGED <<mode, terminal, cache, stored, closed, emits>>

(* Under the mutex: a closed sink drops the line; a write may fail, and    *)
(* nobody hears of it.                                                     *)
Write(g) ==
    /\ Formatted(g)
    /\ \E written \in Writes :
          stream' = IF written /\ ~closed THEN Append(stream, Line(g)) ELSE stream
    /\ Goto(g, "idle")
    /\ call' = [call EXCEPT ![g] = NoCall]
    /\ UNCHANGED <<mode, terminal, cache, stored, closed, emits>>

Close(g) ==
    /\ pc[g] = "idle" /\ stored[g] = {}
    /\ closed' = TRUE
    /\ UNCHANGED <<mode, terminal, cache, stored, stream, pc, call, emits>>

Next == \E g \in Goroutine :
    \/ Propagate(g)
    \/ \E n \in Severity, e \in Encodable : Emit(g, n, e)
    \/ Forced(g) \/ LoadKnown(g) \/ Probe(g) \/ LoadTTY(g)
    \/ FormatFails(g) \/ Write(g)
    \/ Close(g)

Spec == Init /\ [][Next]_vars

-----------------------------------------------------------------------------
Fitting == IF mode = "auto" THEN IF terminal THEN "pretty" ELSE "json" ELSE mode

(* Once the answer has reached the cache, every emit that begins writes in *)
(* the fitting style: no emit still looking takes the answer back          *)
(* (console_sink.go:172-179).                                              *)
StyleSettles ==
    \A i \in DOMAIN stream : stream[i].settled => stream[i].style = Fitting

(* Nothing is written after Close, not even by an emit that formatted its  *)
(* record before it (console_sink.go:114-122).                             *)
NothingAfterClose == [][closed => closed' /\ stream' = stream]_vars
=============================================================================
