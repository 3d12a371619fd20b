--------------------------- MODULE ConsoleSinkProofs ---------------------------
(***************************************************************************)
(* Theorems about ConsoleSink for any goroutines, thresholds, streams and  *)
(* numbers of emits.                                                       *)
(***************************************************************************)
EXTENDS ConsoleSink, SequenceTheorems, TLAPS

Lines == [by : Goroutine, number : Nat, style : Style, settled : BOOLEAN]
Calls == [number : Nat, encodable : BOOLEAN, style : Style \cup {"none"},
          settled : BOOLEAN]

Typed ==
    /\ TypeOK
    /\ stream \in Seq(Lines)
    /\ call \in [Goroutine -> Calls]
    /\ \A g \in Goroutine : /\ pc[g] = "write" => call[g].style \in Style
                            /\ pc[g] \in {"probe", "style"} => mode = "auto"

(* The only stores ever made are those of the answer.                      *)
Answer == {<<"isTTY", terminal>>, <<"ttyKnown", TRUE>>}

Probed == \A g \in Goroutine : stored[g] \subseteq Answer

(* What an emit that began with the answer in the cache relies on.         *)
Lasting ==
    \A g \in Goroutine : call[g].settled =>
        /\ Settled
        /\ pc[g] = "write" => call[g].style = Fitting

Inv == Typed /\ Probed /\ Lasting /\ StyleSettles

LEMMA NoCallTyped ==
    NoCall \in Calls /\ NoCall.settled = FALSE /\ NoCall.style = "none"
BY DEF NoCall, Calls

LEMMA BegunTyped ==
    ASSUME NEW k \in Nat, NEW x \in BOOLEAN, NEW y \in BOOLEAN,
           NEW c, c = [NoCall EXCEPT !.number = k, !.encodable = x, !.settled = y]
    PROVE  c \in Calls /\ c.settled = y
BY DEF NoCall, Calls

(* Whatever reaches the cache is the answer, which a settled cache keeps.  *)
LEMMA SettledStays ==
    ASSUME Typed, Probed, Settled, NEW g \in Goroutine, Propagate(g)
    PROVE  Settled'
<1>1. PICK s \in stored[g] : cache' = [cache EXCEPT ![s[1]] = s[2]]
  BY DEF Propagate
<1>2. s \in Answer
  BY DEF Probed
<1>3. cache = [isTTY |-> terminal, ttyKnown |-> TRUE] /\ terminal' = terminal
  BY DEF Settled, Propagate
<1>4. cache["isTTY"] = terminal /\ cache["ttyKnown"] = TRUE /\ cache \in [Field -> BOOLEAN]
  BY <1>3 DEF Typed, TypeOK
<1>5. s[1] \in Field /\ s[2] = cache[s[1]]
  <2>1. CASE s = <<"isTTY", terminal>>
    BY <1>4, <2>1 DEF Field
  <2>2. CASE s = <<"ttyKnown", TRUE>>
    <3>1. s[1] = "ttyKnown" /\ s[2] = TRUE
      BY <2>2
    <3> QED BY <1>4, <3>1, Zenon DEF Field
  <2> QED BY <1>2, <2>1, <2>2 DEF Answer
<1>6. cache' = cache
  BY <1>1, <1>4, <1>5
<1> QED BY <1>3, <1>6 DEF Settled

(* An emit that looks once the cache has settled finds the answer there or *)
(* among its own stores.                                                   *)
LEMMA SettledLoad ==
    ASSUME Typed, Probed, Settled, NEW g \in Goroutine
    PROVE  Load(g, "isTTY") <=> terminal
<1>1. terminal \in BOOLEAN /\ stored[g] \subseteq Answer
  BY ConsoleSinkAssumption DEF Typed, TypeOK, Probed
<1>2. cache["isTTY"] = terminal
  BY DEF Settled
<1>3. \A v \in BOOLEAN : <<"isTTY", v>> \in stored[g] => v = terminal
  BY <1>1 DEF Answer
<1>4. CASE \E v \in BOOLEAN : <<"isTTY", v>> \in stored[g]
  <2>1. <<"isTTY", terminal>> \in stored[g]
    BY <1>3, <1>4
  <2>2. Load(g, "isTTY") = (<<"isTTY", TRUE>> \in stored[g])
    BY <1>4 DEF Load
  <2> QED BY <1>1, <1>3, <2>1, <2>2
<1>5. CASE ~\E v \in BOOLEAN : <<"isTTY", v>> \in stored[g]
  BY <1>2, <1>5 DEF Load
<1> QED BY <1>4, <1>5

THEOREM InitInv == Init => Inv
<1> SUFFICES ASSUME Init PROVE Inv
  OBVIOUS
<1>1. call \in [Goroutine -> Calls] /\ \A g \in Goroutine : call[g] = NoCall
  BY NoCallTyped DEF Init
<1>2. Typed
  <2>1. TypeOK
    <3>1. /\ stored \in [Goroutine -> SUBSET (Field \X BOOLEAN)]
          /\ \A i \in DOMAIN stream : FALSE
          /\ pc \in [Goroutine -> {"idle", "mode", "probe", "style", "write"}]
      BY DEF Init
    <3>4. /\ mode \in Modes /\ terminal \in Terminals /\ closed \in BOOLEAN
          /\ cache \in [Field -> BOOLEAN]
      BY Zenon DEF Init
    <3>2. emits \in [Goroutine -> 0..MaxEmits]
      BY ConsoleSinkAssumption DEF Init
    <3>3. \A g \in Goroutine : call[g].style \in Style \cup {"none"}
      BY <1>1, NoCallTyped
    <3> QED BY <3>1, <3>2, <3>3, <3>4 DEF TypeOK
  <2> QED BY <1>1, <2>1 DEF Init, Typed
<1>3. Probed
  BY DEF Init, Probed
<1>4. Lasting
  BY <1>1, NoCallTyped DEF Lasting
<1>5. StyleSettles
  BY DEF Init, StyleSettles
<1> QED BY <1>2, <1>3, <1>4, <1>5 DEF Inv

-----------------------------------------------------------------------------
(* Steps that leave the sink alone keep what a settled cache promises.     *)
LEMMA SameSink ==
    ASSUME UNCHANGED <<mode, terminal, cache>>
    PROVE  Settled' = Settled /\ Fitting' = Fitting /\ Answer' = Answer
BY DEF Settled, Fitting, Answer

LEMMA CallTyped ==
    ASSUME Typed, NEW g \in Goroutine
    PROVE  /\ call[g] \in Calls /\ call[g].number \in Nat
           /\ call[g].encodable \in BOOLEAN /\ call[g].settled \in BOOLEAN
           /\ call[g].style \in Style \cup {"none"}
           /\ pc[g] = "write" => call[g].style \in Style
BY DEF Typed, Calls

(* A step of g that gives it the call c and the label p.                   *)
LEMMA CallStep ==
    ASSUME Typed, NEW g \in Goroutine, NEW c \in Calls,
           NEW p \in {"idle", "mode", "probe", "style", "write"},
           call' = [call EXCEPT ![g] = c], pc' = [pc EXCEPT ![g] = p],
           p = "write" => c.style \in Style,
           p \in {"probe", "style"} => mode = "auto",
           stored' \in [Goroutine -> SUBSET (Field \X BOOLEAN)],
           emits' \in [Goroutine -> 0..MaxEmits], stream' \in Seq(Lines),
           UNCHANGED <<mode, terminal, cache, closed>>
    PROVE  Typed'
<1>1. call' \in [Goroutine -> Calls] /\ call'[g] = c
      /\ \A h \in Goroutine \ {g} : call'[h] = call[h]
  BY DEF Typed
<1>2. pc' \in [Goroutine -> {"idle", "mode", "probe", "style", "write"}]
      /\ pc'[g] = p /\ \A h \in Goroutine \ {g} : pc'[h] = pc[h]
  BY DEF Typed, TypeOK
<1>3. \A h \in Goroutine : /\ call'[h].style \in Style \cup {"none"}
                           /\ pc'[h] = "write" => call'[h].style \in Style
                           /\ pc'[h] \in {"probe", "style"} => mode' = "auto"
  <2> SUFFICES ASSUME NEW h \in Goroutine
               PROVE  /\ call'[h].style \in Style \cup {"none"}
                      /\ pc'[h] = "write" => call'[h].style \in Style
                      /\ pc'[h] \in {"probe", "style"} => mode' = "auto"
    OBVIOUS
  <2>1. call'[h].style \in Style \cup {"none"}
    BY <1>1 DEF Calls
  <2> QED BY <1>1, <1>2, <2>1 DEF Typed
<1>4. \A i \in DOMAIN stream' : stream'[i].by \in Goroutine /\ stream'[i].style \in Style
  <2> SUFFICES ASSUME NEW i \in DOMAIN stream' PROVE stream'[i] \in Lines
    BY DEF Lines
  <2> QED BY LenProperties, ElementOfSeq
<1>5. /\ mode' \in Modes /\ terminal' \in Terminals /\ closed' \in BOOLEAN
      /\ cache' \in [Field -> BOOLEAN]
  BY DEF Typed, TypeOK
<1>6. TypeOK'
  BY <1>2, <1>3, <1>4, <1>5 DEF TypeOK
<1> QED BY <1>1, <1>3, <1>6 DEF Typed

(* The same for what a settled cache promises the call.                    *)
LEMMA CallLasts ==
    ASSUME Typed, Lasting, NEW g \in Goroutine, NEW c,
           NEW p \in {"idle", "mode", "probe", "style", "write"},
           call' = [call EXCEPT ![g] = c], pc' = [pc EXCEPT ![g] = p],
           c.settled => Settled /\ (p = "write" => c.style = Fitting),
           UNCHANGED <<mode, terminal, cache>>
    PROVE  Lasting'
<1>1. call'[g] = c /\ \A h \in Goroutine \ {g} : call'[h] = call[h]
  BY DEF Typed
<1>2. pc'[g] = p /\ \A h \in Goroutine \ {g} : pc'[h] = pc[h]
  BY DEF Typed, TypeOK
<1>3. Settled' = Settled /\ Fitting' = Fitting
  BY SameSink
<1> QED BY <1>1, <1>2, <1>3 DEF Lasting

(* The invariant is inductive, one step per action.                        *)
THEOREM InvStep == Inv /\ [Next]_vars => Inv'
<1> SUFFICES ASSUME Inv, [Next]_vars PROVE Inv'
  OBVIOUS
<1>i. Typed /\ Probed /\ Lasting /\ StyleSettles
  BY DEF Inv
<1>t. /\ stored \in [Goroutine -> SUBSET (Field \X BOOLEAN)]
      /\ emits \in [Goroutine -> 0..MaxEmits] /\ stream \in Seq(Lines)
  BY <1>i DEF Typed, TypeOK
<1>1. CASE UNCHANGED vars
  <2>1. Typed'
    BY <1>i, <1>1 DEF Typed, TypeOK, vars
  <2>2. Probed' /\ Lasting' /\ StyleSettles'
    BY <1>i, <1>1 DEF Probed, Answer, Lasting, Settled, Fitting, StyleSettles, vars
  <2> QED BY <2>1, <2>2 DEF Inv
<1>2. ASSUME NEW g \in Goroutine, Propagate(g) PROVE Inv'
  <2>1. PICK s \in stored[g] : /\ cache' = [cache EXCEPT ![s[1]] = s[2]]
                               /\ stored' = [stored EXCEPT ![g] = @ \ {s}]
    BY <1>2 DEF Propagate
  <2>2. UNCHANGED <<mode, terminal, closed, stream, pc, call, emits>>
    BY <1>2 DEF Propagate
  <2>3. s \in Field \X BOOLEAN
    BY <1>t
  <2>4. stored' \in [Goroutine -> SUBSET (Field \X BOOLEAN)]
    BY <1>t, <2>1
  <2>5. cache' \in [Field -> BOOLEAN]
    <3>1. s[1] \in Field /\ s[2] \in BOOLEAN
      BY <2>3
    <3>2. cache \in [Field -> BOOLEAN]
      BY <1>i DEF Typed, TypeOK
    <3> QED BY <2>1, <3>1, <3>2, Zenon
  <2>6. Typed'
    <3>1. TypeOK'
      BY <1>i, <2>2, <2>4, <2>5 DEF Typed, TypeOK
    <3> QED BY <1>i, <2>2, <3>1 DEF Typed
  <2>7. Probed'
    BY <1>i, <1>t, <2>1, <2>2 DEF Probed, Answer
  <2>8. Lasting'
    <3>1. Settled => Settled'
      BY <1>2, <1>i, SettledStays
    <3> QED BY <1>i, <2>2, <3>1 DEF Lasting, Fitting
  <2>9. StyleSettles'
    BY <1>i, <2>2 DEF StyleSettles, Fitting
  <2> QED BY <2>6, <2>7, <2>8, <2>9 DEF Inv
<1>3. ASSUME NEW g \in Goroutine, NEW n \in Severity, NEW e \in Encodable,
             Emit(g, n, e)
      PROVE  Inv'
  <2> DEFINE c == [NoCall EXCEPT !.number = emits[g] + 1, !.encodable = e,
                                 !.settled = Settled]
  <2>1. /\ call' = [call EXCEPT ![g] = c] /\ pc' = [pc EXCEPT ![g] = "mode"]
        /\ emits' = [emits EXCEPT ![g] = @ + 1] /\ emits[g] < MaxEmits
        /\ UNCHANGED <<mode, terminal, cache, stored, closed, stream>>
    BY <1>3 DEF Emit, Goto
  <2>2. c \in Calls /\ (c.settled => Settled)
    <3>1. emits[g] + 1 \in Nat /\ e \in BOOLEAN /\ Settled \in BOOLEAN
      BY <1>t, ConsoleSinkAssumption DEF Settled
    <3>2. c \in Calls /\ c.settled = Settled
      BY <3>1, BegunTyped
    <3> QED BY <3>2
  <2>3. emits' \in [Goroutine -> 0..MaxEmits]
    BY <1>t, <2>1, ConsoleSinkAssumption
  <2> HIDE DEF c
  <2>4. Typed'
    BY <1>i, <1>t, <2>1, <2>2, <2>3, CallStep
  <2>5. Lasting'
    BY <1>i, <2>1, <2>2, CallLasts
  <2>6. Probed' /\ StyleSettles'
    BY <1>i, <2>1 DEF Probed, Answer, StyleSettles, Fitting
  <2> QED BY <2>4, <2>5, <2>6 DEF Inv
<1>4. ASSUME NEW g \in Goroutine, Forced(g) \/ LoadTTY(g) PROVE Inv'
  <2>1. PICK w \in Style : call' = [call EXCEPT ![g].style = w]
                           /\ (Settled /\ call[g].settled => w = Fitting)
    <3>1. CASE Forced(g)
      <4>1. mode \in Style
        BY <1>i, <3>1, ConsoleSinkAssumption DEF Forced, Typed, TypeOK, Style
      <4> QED BY <3>1, <4>1 DEF Forced, Fitting
    <3>2. CASE LoadTTY(g)
      <4>1. mode = "auto"
        BY <1>i, <3>2 DEF LoadTTY, Typed
      <4>2. Settled => (Load(g, "isTTY") <=> terminal)
        BY <1>i, SettledLoad
      <4> DEFINE v == IF Load(g, "isTTY") THEN "pretty" ELSE "json"
      <4>3. v \in Style /\ call' = [call EXCEPT ![g].style = v]
        BY <3>2 DEF LoadTTY, Style
      <4>4. Settled => v = Fitting
        BY <4>1, <4>2 DEF Fitting
      <4> QED BY <4>3, <4>4
    <3> QED BY <1>4, <3>1, <3>2
  <2> DEFINE c == [call[g] EXCEPT !.style = w]
  <2>2. /\ call' = [call EXCEPT ![g] = c] /\ pc' = [pc EXCEPT ![g] = "write"]
        /\ UNCHANGED <<mode, terminal, cache, stored, closed, stream, emits>>
    BY <1>4, <2>1 DEF Forced, LoadTTY, Goto
  <2>3. c \in Calls /\ c.style = w /\ c.settled = call[g].settled
    <3>1. call[g] \in Calls
      BY <1>i, CallTyped
    <3> QED BY <3>1 DEF Calls, Style
  <2> HIDE DEF c
  <2>4. Typed'
    BY <1>i, <1>t, <2>2, <2>3, CallStep
  <2>5. Lasting'
    <3>1. call[g].settled => Settled
      BY <1>i DEF Lasting
    <3> QED BY <1>i, <2>1, <2>2, <2>3, <3>1, CallLasts
  <2>6. Probed' /\ StyleSettles'
    BY <1>i, <2>2 DEF Probed, Answer, StyleSettles, Fitting
  <2> QED BY <2>4, <2>5, <2>6 DEF Inv
<1>5. ASSUME NEW g \in Goroutine, LoadKnown(g) \/ Probe(g) PROVE Inv'
  <2>1. PICK p \in {"probe", "style"} : pc' = [pc EXCEPT ![g] = p]
    BY <1>5 DEF LoadKnown, Probe, Goto
  <2>2. UNCHANGED <<mode, terminal, cache, closed, stream, call, emits>>
    BY <1>5 DEF LoadKnown, Probe
  <2>3. stored' = stored \/ stored' = [stored EXCEPT ![g] = Answer]
    BY <1>5 DEF LoadKnown, Probe, Answer
  <2>4. mode = "auto"
    BY <1>i, <1>5 DEF LoadKnown, Probe, Typed
  <2>5. Answer \in SUBSET (Field \X BOOLEAN)
    <3>1. terminal \in BOOLEAN
      BY <1>i, ConsoleSinkAssumption DEF Typed, TypeOK
    <3>2. "isTTY" \in Field /\ "ttyKnown" \in Field
      BY DEF Field
    <3>3. <<"isTTY", terminal>> \in Field \X BOOLEAN /\ <<"ttyKnown", TRUE>> \in Field \X BOOLEAN
      BY <3>1, <3>2, Zenon
    <3> QED BY <3>3 DEF Answer
  <2>6. stored' \in [Goroutine -> SUBSET (Field \X BOOLEAN)]
    BY <1>t, <2>3, <2>5
  <2>7. call' = [call EXCEPT ![g] = call[g]] /\ call[g] \in Calls
    BY <1>i, <2>2 DEF Typed
  <2>8. Typed'
    BY <1>i, <1>t, <2>1, <2>2, <2>4, <2>6, <2>7, CallStep
  <2>9. Lasting'
    <3>1. call[g].settled => Settled
      BY <1>i DEF Lasting
    <3> QED BY <1>i, <2>1, <2>2, <2>7, <3>1, CallLasts
  <2>10. Probed'
    <3>1. Answer' = Answer
      BY <2>2 DEF Answer
    <3> QED BY <1>i, <1>t, <2>3, <3>1 DEF Probed
  <2>11. StyleSettles'
    BY <1>i, <2>2 DEF StyleSettles, Fitting
  <2> QED BY <2>8, <2>9, <2>10, <2>11 DEF Inv
<1>6. ASSUME NEW g \in Goroutine, FormatFails(g) \/ Write(g) PROVE Inv'
  <2>1. /\ call' = [call EXCEPT ![g] = NoCall] /\ pc' = [pc EXCEPT ![g] = "idle"]
        /\ UNCHANGED <<mode, terminal, cache, stored, closed, emits>>
        /\ pc[g] = "write" /\ stream' \in {stream, Append(stream, Line(g))}
    BY <1>6 DEF FormatFails, Write, Formatted, Goto
  <2>2. Line(g) \in Lines /\ (Line(g).settled => Line(g).style = Fitting)
    <3>1. call[g] \in Calls /\ call[g].style \in Style
      BY <1>i, <2>1, CallTyped
    <3>2. call[g].settled => call[g].style = Fitting
      BY <1>i, <2>1 DEF Lasting
    <3> QED BY <3>1, <3>2 DEF Line, Lines, Calls
  <2> DEFINE line == Line(g)
  <2> HIDE DEF line
  <2>3. /\ stream' \in Seq(Lines)
        /\ \A i \in DOMAIN stream' :
              \/ stream'[i] = line
              \/ i \in DOMAIN stream /\ stream'[i] = stream[i]
    <3>1. CASE stream' = stream
      BY <1>t, <3>1
    <3>2. CASE stream' = Append(stream, line)
      BY <1>t, <2>2, <3>2, AppendProperties, LenProperties DEF line
    <3> QED BY <2>1, <3>1, <3>2 DEF line
  <2>4. Typed'
    BY <1>i, <1>t, <2>1, <2>3, NoCallTyped, CallStep
  <2>5. Lasting'
    BY <1>i, <2>1, NoCallTyped, CallLasts
  <2>6. Fitting' = Fitting /\ Answer' = Answer
    BY <2>1, SameSink
  <2>7. Probed'
    BY <1>i, <2>1, <2>6 DEF Probed
  <2>8. StyleSettles'
    BY <1>i, <2>2, <2>3, <2>6 DEF StyleSettles, line
  <2> QED BY <2>4, <2>5, <2>7, <2>8 DEF Inv
<1>7. ASSUME NEW g \in Goroutine, Close(g) PROVE Inv'
  <2>1. /\ closed' = TRUE
        /\ UNCHANGED <<mode, terminal, cache, stored, stream, pc, call, emits>>
    BY <1>7 DEF Close
  <2>2. Typed'
    <3>1. closed' \in BOOLEAN
      BY <2>1
    <3> QED BY <1>i, <2>1, <3>1 DEF Typed, TypeOK
  <2>3. Probed' /\ Lasting' /\ StyleSettles'
    BY <1>i, <2>1 DEF Probed, Answer, Lasting, Settled, Fitting, StyleSettles
  <2> QED BY <2>2, <2>3 DEF Inv
<1> QED
  BY <1>1, <1>2, <1>3, <1>4, <1>5, <1>6, <1>7 DEF Next

(* The invariant holds in every reachable state.                           *)
THEOREM Invariance == Spec => []Inv
BY InitInv, InvStep, PTL DEF Spec

(* The sink, the stores under way and the emits keep their types           *)
(* (console_sink.go:20-44).                                                *)
THEOREM TypeCorrect == Spec => []TypeOK
<1>1. Inv => TypeOK
  BY DEF Inv, Typed
<1> QED BY <1>1, Invariance, PTL

(* An emit that begins once the cache holds the answer writes in the style *)
(* that fits the stream, however many goroutines still probe it and in     *)
(* whatever order their stores arrive (console_sink.go:172-179).           *)
THEOREM StyleSettlesCorrect == Spec => []StyleSettles
<1>1. Inv => StyleSettles
  BY DEF Inv
<1> QED BY <1>1, Invariance, PTL

(* A closed sink stays closed and no step writes to its stream, not even   *)
(* that of an emit under way (console_sink.go:114-122).                    *)
THEOREM NothingAfterCloseCorrect == Spec => NothingAfterClose
<1>1. Inv /\ [Next]_vars => [closed => closed' /\ stream' = stream]_vars
  <2> SUFFICES ASSUME Next, closed PROVE closed' /\ stream' = stream
    OBVIOUS
  <2> QED BY DEF Next, Propagate, Emit, Forced, LoadKnown, Probe, LoadTTY,
             FormatFails, Write, Close
<1> QED BY <1>1, Invariance, PTL DEF Spec, NothingAfterClose
=============================================================================
