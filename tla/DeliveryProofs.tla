---------------------------- MODULE DeliveryProofs ----------------------------
(***************************************************************************)
(* Theorems about Delivery for any sinks, capacities, thresholds and       *)
(* callers.                                                                *)
(***************************************************************************)
EXTENDS Delivery, SequenceTheorems, TLAPS

Suffix(r, a) ==
    /\ Len(r) <= Len(a)
    /\ \A k \in 1..Len(r) : r[k] = a[Len(a) - Len(r) + k]

(* What RetainsNewest says of a sink s with records r, when it took a and  *)
(* the first c of them were cleared.                                       *)
Newest(s, r, a, c) ==
    /\ Len(r) = IF Len(a) - c < Capacity(s) THEN Len(a) - c ELSE Capacity(s)
    /\ Suffix(r, a)

(* A sink took the records of a goroutine in the order of their numbers.   *)
InOrder(a) ==
    \A j, k \in DOMAIN a : j < k /\ a[j].by = a[k].by => a[j].number <= a[k].number

Numbered ==
    /\ \A g \in Goroutine : /\ call[g].record.by = g
                            /\ pc[g] = "idle" => call[g].next = 1
                            /\ pc[g] = "emit" => call[g].record.number = emitted[g]
    /\ \A s \in Sink : \A k \in DOMAIN accepted[s] :
          accepted[s][k].number <= emitted[accepted[s][k].by]

Taken ==
    \A s \in Sink : /\ cleared[s] <= Len(accepted[s])
                    /\ Newest(s, records[s], accepted[s], cleared[s])
                    /\ InOrder(accepted[s])

Inv == TypeOK /\ Numbered /\ Taken

LEMMA CapacityPositive == \A s \in Sink : Capacity(s) \in Nat \ {0}
BY DeliveryAssumption DEF Capacity

(* A function on an initial segment of the numbers is a sequence.          *)
LEMMA FunctionIsSequence ==
    ASSUME NEW S, NEW n \in Nat, NEW f \in [1..n -> S]
    PROVE  f \in Seq(S) /\ Len(f) = n
<1>1. f \in Seq(S)
  BY SeqDef
<1>2. DOMAIN f = 1..Len(f) /\ Len(f) \in Nat /\ DOMAIN f = 1..n
  BY <1>1, LenProperties
<1> QED BY <1>1, <1>2

LEMMA CallTyped ==
    ASSUME TypeOK, NEW g \in Goroutine
    PROVE  /\ call[g] \in Call /\ call[g].record \in Record /\ call[g].list \in Seq(Sink)
           /\ Len(call[g].list) \in Nat /\ call[g].next \in Nat
           /\ call[g].next \in 1..(Len(call[g].list) + 1)
           /\ \A i \in 1..Len(call[g].list) : call[g].list[i] \in Sink
<1>1. /\ call[g] \in Call /\ call[g].record \in Record /\ call[g].list \in Seq(Sink)
      /\ call[g].next \in Nat /\ call[g].next \in 1..(Len(call[g].list) + 1)
  BY DEF TypeOK, Call
<1> QED BY <1>1, LenProperties, ElementOfSeq

LEMMA IdleTyped ==
    \A g \in Goroutine : /\ Idle(g) \in Call /\ Idle(g).record.by = g
                         /\ Idle(g).list = <<>> /\ Idle(g).next = 1
BY DEF Idle, Record, Call

(* The error that a failing sink leaves behind: Close keeps the first one. *)
Returned(g) == IF pc[g] = "close" /\ call[g].first = 0 THEN call[g].next
               ELSE call[g].first

(* Updates of a call.                                                      *)
LEMMA NextUpdate ==
    ASSUME NEW c \in Call, NEW d, d = [c EXCEPT !.next = c.next + 1]
    PROVE  d \in Call /\ d.record = c.record /\ d.list = c.list /\ d.next = c.next + 1
<1>1. c.next + 1 \in Nat
  BY DEF Call
<1> QED BY <1>1 DEF Call

LEMMA FailedUpdate ==
    ASSUME NEW c \in Call, NEW e \in Nat, NEW d,
           d = [c EXCEPT !.next = c.next + 1, !.first = e,
                         !.failed = c.failed \cup {c.next}]
    PROVE  d \in Call /\ d.record = c.record /\ d.list = c.list /\ d.next = c.next + 1
<1>1. c.next + 1 \in Nat /\ c.failed \cup {c.next} \in SUBSET Nat
  BY DEF Call
<1> QED BY <1>1 DEF Call

LEMMA WorkedUpdate ==
    ASSUME NEW c \in Call, NEW d,
           d = [c EXCEPT !.next = c.next + 1, !.worked = c.worked + 1]
    PROVE  d \in Call /\ d.record = c.record /\ d.list = c.list /\ d.next = c.next + 1
<1>1. c.next + 1 \in Nat /\ c.worked + 1 \in Nat
  BY DEF Call
<1> QED BY <1>1 DEF Call

LEMMA ListUpdate ==
    ASSUME NEW c \in Call, NEW l \in Seq(Sink), NEW d, d = [c EXCEPT !.list = l]
    PROVE  d \in Call /\ d.record = c.record /\ d.list = l /\ d.next = c.next
BY DEF Call

LEMMA RecordUpdate ==
    ASSUME NEW c \in Call, NEW rec \in Record, NEW d, d = [c EXCEPT !.record = rec]
    PROVE  d \in Call /\ d.record = rec /\ d.list = c.list /\ d.next = c.next
BY DEF Call

LEMMA OutcomeUpdate ==
    ASSUME NEW c \in Call, NEW o \in {"none", "success", "partial", "failure"},
           NEW d, d = [c EXCEPT !.outcome = o]
    PROVE  d \in Call /\ d.record = c.record /\ d.list = c.list /\ d.next = c.next
BY DEF Call

(* Moving on to the next sink of the snapshot.                             *)
LEMMA NextTyped ==
    ASSUME TypeOK, NEW g \in Goroutine, call[g].next <= Len(call[g].list), NEW c \in Call,
           call' = [call EXCEPT ![g] = c],
           c.record = call[g].record, c.list = call[g].list, c.next = call[g].next + 1
    PROVE  /\ call' \in [Goroutine -> Call]
           /\ \A h \in Goroutine : /\ call'[h].record = call[h].record
                                   /\ call'[h].list = call[h].list
                                   /\ call'[h].next \in 1..(Len(call[h].list) + 1)
<1>1. /\ call \in [Goroutine -> Call]
      /\ \A h \in Goroutine : call[h].next \in 1..(Len(call[h].list) + 1)
  BY DEF TypeOK
<1>2. call[g].next \in Nat /\ Len(call[g].list) \in Nat
  BY CallTyped
<1> QED BY <1>1, <1>2

(* Records moved down by one slot are those without the oldest.            *)
LEMMA ShiftedIsSuffix ==
    ASSUME NEW r \in Seq(Record), NEW a \in Seq(Record), Suffix(r, a),
           NEW m \in Nat, Len(r) = m + 1,
           NEW f, f = [k \in 1..m |-> r[k + 1]]
    PROVE  f \in Seq(Record) /\ Len(f) = m /\ Suffix(f, a)
<1>1. Len(a) \in Nat /\ Len(r) <= Len(a)
  BY LenProperties DEF Suffix
<1>2. \A k \in 1..m : k + 1 \in 1..Len(r)
  OBVIOUS
<1>3. f \in [1..m -> Record]
  BY <1>2, ElementOfSeq
<1>4. f \in Seq(Record) /\ Len(f) = m
  BY <1>3, FunctionIsSequence
<1>5. ASSUME NEW k \in 1..m PROVE f[k] = a[Len(a) - m + k]
  <2>1. f[k] = r[k + 1] /\ k + 1 \in 1..Len(r)
    BY <1>2
  <2>2. r[k + 1] = a[Len(a) - Len(r) + (k + 1)]
    BY <2>1 DEF Suffix
  <2>3. Len(a) - Len(r) + (k + 1) = Len(a) - m + k
    BY <1>1
  <2> QED BY <2>1, <2>2, <2>3
<1> QED BY <1>1, <1>4, <1>5 DEF Suffix

LEMMA AppendedIsSuffix ==
    ASSUME NEW r \in Seq(Record), NEW a \in Seq(Record), Suffix(r, a),
           NEW rec \in Record
    PROVE  /\ Append(r, rec) \in Seq(Record) /\ Len(Append(r, rec)) = Len(r) + 1
           /\ Append(a, rec) \in Seq(Record) /\ Len(Append(a, rec)) = Len(a) + 1
           /\ Suffix(Append(r, rec), Append(a, rec))
<1> DEFINE q == Append(r, rec)
           b == Append(a, rec)
<1>1. Len(a) \in Nat /\ Len(r) \in Nat /\ Len(r) <= Len(a)
  BY LenProperties DEF Suffix
<1>2. /\ q \in Seq(Record) /\ Len(q) = Len(r) + 1 /\ q[Len(r) + 1] = rec
      /\ \A k \in 1..Len(r) : q[k] = r[k]
  BY AppendProperties
<1>3. /\ b \in Seq(Record) /\ Len(b) = Len(a) + 1 /\ b[Len(a) + 1] = rec
      /\ \A k \in 1..Len(a) : b[k] = a[k]
  BY AppendProperties
<1> HIDE DEF q, b
<1>4. ASSUME NEW k \in 1..Len(q) PROVE q[k] = b[Len(b) - Len(q) + k]
  <2>1. Len(b) - Len(q) + k = Len(a) - Len(r) + k
    BY <1>1, <1>2, <1>3
  <2>2. CASE k = Len(r) + 1
    <3>1. Len(a) - Len(r) + k = Len(a) + 1
      BY <1>1, <2>2
    <3> QED BY <1>2, <1>3, <2>1, <2>2, <3>1
  <2>3. CASE k # Len(r) + 1
    <3>1. k \in 1..Len(r) /\ Len(a) - Len(r) + k \in 1..Len(a)
      BY <1>1, <1>2, <2>3
    <3>2. r[k] = a[Len(a) - Len(r) + k]
      BY <3>1 DEF Suffix
    <3> QED BY <1>2, <1>3, <2>1, <3>1, <3>2
  <2> QED BY <2>2, <2>3
<1>5. Suffix(q, b)
  BY <1>1, <1>2, <1>3, <1>4 DEF Suffix
<1> QED BY <1>2, <1>3, <1>5 DEF q, b

(* Pushing a record onto a sink's records keeps the newest.                *)
LEMMA PushKeepsNewest ==
    ASSUME NEW s \in Sink, NEW r \in Seq(Record), NEW a \in Seq(Record),
           NEW c \in Nat, c <= Len(a), NEW rec \in Record, Newest(s, r, a, c)
    PROVE  /\ Pushed(s, r, rec) \in Seq(Record)
           /\ Newest(s, Pushed(s, r, rec), Append(a, rec), c)
<1>1. /\ Capacity(s) \in Nat /\ Capacity(s) >= 1
      /\ Len(a) \in Nat /\ Len(r) \in Nat
  BY CapacityPositive, LenProperties
<1>2. Suffix(r, a) /\ Len(r) = IF Len(a) - c < Capacity(s) THEN Len(a) - c ELSE Capacity(s)
  BY DEF Newest
<1>3. CASE Len(r) >= Capacity(s)
  <2> DEFINE f == [k \in 1..(Capacity(s) - 1) |-> r[k + 1]]
  <2>1. Len(r) = (Capacity(s) - 1) + 1 /\ Capacity(s) - 1 \in Nat
    BY <1>1, <1>2, <1>3
  <2>2. f \in Seq(Record) /\ Len(f) = Capacity(s) - 1 /\ Suffix(f, a)
    BY <1>2, <2>1, ShiftedIsSuffix
  <2>3. Pushed(s, r, rec) = Append(f, rec)
    BY <1>3 DEF Pushed
  <2> HIDE DEF f
  <2>4. /\ Append(f, rec) \in Seq(Record) /\ Len(Append(f, rec)) = Len(f) + 1
        /\ Len(Append(a, rec)) = Len(a) + 1
        /\ Suffix(Append(f, rec), Append(a, rec))
    BY <2>2, AppendedIsSuffix
  <2>5. Len(f) + 1 = IF Len(a) + 1 - c < Capacity(s) THEN Len(a) + 1 - c ELSE Capacity(s)
    BY <1>1, <1>2, <2>1, <2>2
  <2> QED BY <2>3, <2>4, <2>5 DEF Newest
<1>4. CASE Len(r) < Capacity(s)
  <2>1. Pushed(s, r, rec) = Append(r, rec)
    BY <1>1, <1>4 DEF Pushed
  <2>2. /\ Append(r, rec) \in Seq(Record) /\ Len(Append(r, rec)) = Len(r) + 1
        /\ Len(Append(a, rec)) = Len(a) + 1
        /\ Suffix(Append(r, rec), Append(a, rec))
    BY <1>2, AppendedIsSuffix
  <2>3. Len(r) + 1 = IF Len(a) + 1 - c < Capacity(s) THEN Len(a) + 1 - c ELSE Capacity(s)
    BY <1>1, <1>2, <1>4
  <2> QED BY <2>1, <2>2, <2>3 DEF Newest
<1> QED BY <1>1, <1>3, <1>4

(* A record no older than those of its goroutine keeps the order.          *)
LEMMA AppendKeepsOrder ==
    ASSUME NEW a \in Seq(Record), NEW rec \in Record, InOrder(a),
           \A k \in DOMAIN a : a[k].by = rec.by => a[k].number <= rec.number
    PROVE  InOrder(Append(a, rec))
BY DEF InOrder, Record

(* Nothing is taken or emitted yet.                                        *)
THEOREM InitInv == Init => Inv
<1> SUFFICES ASSUME Init PROVE Inv
  OBVIOUS
<1>1. TypeOK
  BY IdleTyped, DeliveryAssumption DEF Init, TypeOK
<1>2. Numbered
  BY IdleTyped DEF Init, Numbered
<1>3. Taken
  BY CapacityPositive DEF Init, Taken, Newest, Suffix, InOrder
<1> QED BY <1>1, <1>2, <1>3 DEF Inv

-----------------------------------------------------------------------------
(* What EmitTo does to the sink it calls.                                  *)
LEMMA EmitToStep ==
    ASSUME Inv, NEW g \in Goroutine, EmitTo(g)
    PROVE  Inv'
<1> DEFINE x == Current(g)
           rec == call[g].record
<1>1. /\ x \in Sink /\ rec \in Record /\ rec.by = g /\ rec.number = emitted[g]
  BY CallTyped DEF Inv, Numbered, EmitTo, More, Current
<1>2. /\ call' = [call EXCEPT ![g].next = @ + 1]
      /\ UNCHANGED <<sinks, closed, cleared, pc, emitted>>
  BY DEF EmitTo
<1>3. /\ call' \in [Goroutine -> Call]
      /\ \A h \in Goroutine : /\ call'[h].record = call[h].record
                              /\ call'[h].list = call[h].list
                              /\ call'[h].next \in 1..(Len(call[h].list) + 1)
  <2> DEFINE c == [call[g] EXCEPT !.next = call[g].next + 1]
  <2>1. call[g] \in Call
    BY CallTyped DEF Inv
  <2>2. /\ c \in Call /\ c.record = call[g].record /\ c.list = call[g].list
        /\ c.next = call[g].next + 1
    BY <2>1, NextUpdate
  <2>3. call' = [call EXCEPT ![g] = c] /\ call[g].next <= Len(call[g].list)
    BY <1>2 DEF EmitTo, More
  <2> HIDE DEF c
  <2>4. TypeOK
    BY DEF Inv
  <2> QED BY <2>2, <2>3, <2>4, NextTyped
<1>6. \A h \in Goroutine : pc[h] = "idle" => call'[h].next = 1
  <2>1. pc[g] = "emit"
    BY DEF EmitTo, More
  <2>2. \A h \in Goroutine \ {g} : call'[h] = call[h]
    BY <1>2 DEF Inv, TypeOK
  <2> QED BY <2>1, <2>2 DEF Inv, Numbered
<1>7. /\ sinks' \in Seq(Sink) /\ closed' \in SUBSET Sink /\ cleared' \in [Sink -> Nat]
      /\ pc' \in [Goroutine -> {"idle", "emit", "flush", "flushed", "close", "closed"}]
      /\ call' \in [Goroutine -> Call] /\ emitted' \in [Goroutine -> Nat]
      /\ \A h \in Goroutine : call'[h].next \in 1..(Len(call'[h].list) + 1)
  BY <1>2, <1>3 DEF Inv, TypeOK
<1>8. \A h \in Goroutine : /\ call'[h].record.by = h
                           /\ pc'[h] = "idle" => call'[h].next = 1
                           /\ pc'[h] = "emit" => call'[h].record.number = emitted'[h]
  BY <1>2, <1>3, <1>6 DEF Inv, Numbered
<1>4. CASE UNCHANGED <<records, accepted>>
  <2>1. TypeOK'
    BY <1>4, <1>7 DEF Inv, TypeOK
  <2>2. Numbered'
    BY <1>2, <1>4, <1>8 DEF Inv, Numbered
  <2>3. Taken'
    BY <1>2, <1>4 DEF Inv, Taken
  <2> QED BY <2>1, <2>2, <2>3 DEF Inv
<1>5. CASE /\ records' = [records EXCEPT ![x] = Pushed(x, @, rec)]
           /\ accepted' = [accepted EXCEPT ![x] = Append(@, rec)]
  <2>1. /\ records[x] \in Seq(Record) /\ accepted[x] \in Seq(Record)
        /\ cleared[x] \in Nat /\ cleared[x] <= Len(accepted[x])
        /\ Newest(x, records[x], accepted[x], cleared[x]) /\ InOrder(accepted[x])
        /\ \A k \in DOMAIN accepted[x] :
              accepted[x][k].number <= emitted[accepted[x][k].by]
    BY <1>1 DEF Inv, TypeOK, Taken, Numbered
  <2>2. /\ records'[x] = Pushed(x, records[x], rec)
        /\ accepted'[x] = Append(accepted[x], rec)
        /\ \A s \in Sink \ {x} : records'[s] = records[s] /\ accepted'[s] = accepted[s]
    BY <1>1, <1>5 DEF Inv, TypeOK
  <2>3. /\ records'[x] \in Seq(Record)
        /\ Newest(x, records'[x], accepted'[x], cleared[x])
    BY <1>1, <2>1, <2>2, PushKeepsNewest
  <2>4. InOrder(accepted'[x])
    BY <1>1, <2>1, <2>2, AppendKeepsOrder
  <2>5. /\ accepted'[x] \in Seq(Record) /\ Len(accepted'[x]) = Len(accepted[x]) + 1
        /\ \A k \in DOMAIN accepted'[x] :
              \/ accepted'[x][k] = rec
              \/ k \in DOMAIN accepted[x] /\ accepted'[x][k] = accepted[x][k]
    BY <1>1, <2>1, <2>2, AppendProperties, LenProperties
  <2> HIDE DEF x, rec
  <2>6. TypeOK'
    <3>1. records' \in [Sink -> Seq(Record)] /\ accepted' \in [Sink -> Seq(Record)]
      BY <1>1, <1>5, <2>2, <2>3, <2>5 DEF Inv, TypeOK
    <3> QED BY <1>7, <3>1 DEF TypeOK
  <2>7. Numbered'
    <3>1. ASSUME NEW s \in Sink, NEW k \in DOMAIN accepted'[s]
          PROVE  accepted'[s][k].number <= emitted[accepted'[s][k].by]
      <4>1. CASE s = x /\ accepted'[s][k] = rec
        <5>1. emitted[g] \in Nat
          BY DEF Inv, TypeOK
        <5> QED BY <1>1, <4>1, <5>1
      <4>2. CASE s = x /\ accepted'[s][k] # rec
        BY <2>1, <2>5, <4>2
      <4>3. CASE s # x
        BY <2>2, <4>3 DEF Inv, Numbered
      <4> QED BY <4>1, <4>2, <4>3
    <3> QED BY <1>2, <1>8, <3>1 DEF Numbered
  <2>8. Taken'
    <3>1. ASSUME NEW s \in Sink
          PROVE  /\ cleared[s] <= Len(accepted'[s])
                 /\ Newest(s, records'[s], accepted'[s], cleared[s])
                 /\ InOrder(accepted'[s])
      <4>1. CASE s = x
        BY <2>1, <2>3, <2>4, <2>5, <4>1
      <4>2. CASE s # x
        BY <2>2, <4>2 DEF Inv, Taken
      <4> QED BY <4>1, <4>2
    <3> QED BY <1>2, <3>1 DEF Taken
  <2> QED BY <2>6, <2>7, <2>8 DEF Inv
<1> QED BY <1>4, <1>5 DEF EmitTo

(* The invariant is inductive, one step per action.                        *)
THEOREM InvStep == Inv /\ [Next]_vars => Inv'
<1> SUFFICES ASSUME Inv, [Next]_vars PROVE Inv'
  OBVIOUS
<1>i. TypeOK /\ Numbered /\ Taken
  BY DEF Inv
<1>1. CASE UNCHANGED vars
  BY <1>i, <1>1 DEF Inv, TypeOK, Numbered, Taken, vars, sinkVars
<1>2. ASSUME NEW g \in Goroutine, NEW n \in Severity, BeginEmit(g, n) PROVE Inv'
  <2> DEFINE rec == [by |-> g, number |-> emitted[g] + 1, severity |-> n]
             c == [call[g] EXCEPT !.list = sinks, !.record = rec]
  <2>1. rec \in Record /\ rec.by = g /\ rec.number = emitted[g] + 1
    BY <1>i, DeliveryAssumption DEF TypeOK, Record
  <2>2. call' = [call EXCEPT ![g] = c] /\ emitted' = [emitted EXCEPT ![g] = @ + 1]
    BY <1>2 DEF BeginEmit
  <2>3. /\ pc[g] = "idle" /\ pc' = [pc EXCEPT ![g] = "emit"]
        /\ UNCHANGED <<sinks, records, closed, accepted, cleared>>
    BY <1>2 DEF BeginEmit, Free, Goto, sinkVars
  <2> HIDE DEF rec
  <2>4. c \in Call /\ c.record = rec /\ c.list = sinks /\ c.next = 1
    <3>1. call[g] \in Call /\ sinks \in Seq(Sink) /\ call[g].next = 1
      BY <1>i, <2>3, CallTyped DEF TypeOK, Numbered
    <3> DEFINE b == [call[g] EXCEPT !.list = sinks]
    <3>2. c = [b EXCEPT !.record = rec]
      BY <3>1 DEF Call
    <3>3. b \in Call /\ b.list = sinks /\ b.next = call[g].next
      BY <3>1, ListUpdate
    <3> HIDE DEF b, c
    <3> QED BY <2>1, <3>1, <3>2, <3>3, RecordUpdate
  <2> HIDE DEF c
  <2>5. TypeOK'
    BY <1>i, <2>2, <2>3, <2>4, LenProperties DEF TypeOK
  <2>6. Numbered'
    <3>1. \A h \in Goroutine : emitted'[h] \in Nat /\ emitted[h] \in Nat /\ emitted[h] <= emitted'[h]
      BY <1>i, <2>2 DEF TypeOK
    <3>2. \A s \in Sink : \A k \in DOMAIN accepted[s] :
             /\ accepted[s][k].by \in Goroutine /\ accepted[s][k].number \in Nat
      <4> SUFFICES ASSUME NEW s \in Sink, NEW k \in DOMAIN accepted[s]
                   PROVE  accepted[s][k] \in Record
        BY DEF Record
      <4>1. accepted[s] \in Seq(Record)
        BY <1>i DEF TypeOK
      <4> QED BY <4>1, LenProperties, ElementOfSeq
    <3>3. \A h \in Goroutine : /\ call'[h].record.by = h
                               /\ pc'[h] = "idle" => call'[h].next = 1
                               /\ pc'[h] = "emit" => call'[h].record.number = emitted'[h]
      BY <1>i, <2>1, <2>2, <2>3, <2>4 DEF TypeOK, Numbered
    <3>4. ASSUME NEW s \in Sink, NEW k \in DOMAIN accepted[s]
          PROVE  accepted[s][k].number <= emitted'[accepted[s][k].by]
      BY <1>i, <3>1, <3>2 DEF Numbered
    <3> QED BY <2>3, <3>3, <3>4 DEF Numbered
  <2>7. Taken'
    BY <1>i, <2>3 DEF Taken
  <2> QED BY <2>5, <2>6, <2>7 DEF Inv
<1>3. ASSUME NEW g \in Goroutine, EmitTo(g) PROVE Inv'
  BY <1>3, EmitToStep
<1>4. ASSUME NEW g \in Goroutine, EmitReturn(g) \/ Return(g) PROVE Inv'
  <2>1. /\ call' = [call EXCEPT ![g] = Idle(g)] /\ pc' = [pc EXCEPT ![g] = "idle"]
        /\ UNCHANGED <<sinks, sinkVars, emitted>>
    BY <1>4 DEF EmitReturn, Return, Goto
  <2> QED BY <1>i, <2>1, IdleTyped DEF Inv, TypeOK, Numbered, Taken, sinkVars
<1>5. ASSUME NEW g \in Goroutine, Begin(g, "flush") \/ Begin(g, "close") PROVE Inv'
  <2> DEFINE c == [call[g] EXCEPT !.list = sinks]
  <2>1. /\ call' = [call EXCEPT ![g] = c] /\ pc[g] = "idle"
        /\ pc' = [pc EXCEPT ![g] = "flush"] \/ pc' = [pc EXCEPT ![g] = "close"]
        /\ UNCHANGED <<sinks, records, closed, accepted, cleared, emitted>>
    BY <1>5 DEF Begin, Free, Goto, sinkVars
  <2>2. c \in Call /\ c.record = call[g].record /\ c.list = sinks /\ c.next = 1
    <3>1. call[g] \in Call /\ sinks \in Seq(Sink) /\ call[g].next = 1
      BY <1>i, <2>1, CallTyped DEF TypeOK, Numbered
    <3> QED BY <3>1, ListUpdate
  <2> HIDE DEF c
  <2>3. TypeOK'
    BY <1>i, <2>1, <2>2, LenProperties DEF TypeOK
  <2>4. Numbered' /\ Taken'
    BY <1>i, <2>1, <2>2 DEF TypeOK, Numbered, Taken
  <2> QED BY <2>3, <2>4 DEF Inv
<1>6. ASSUME NEW g \in Goroutine, FlushNext(g) \/ CloseNext(g) PROVE Inv'
  <2> DEFINE e == Returned(g)
             c == [call[g] EXCEPT !.next = call[g].next + 1, !.first = e,
                                  !.failed = call[g].failed \cup {call[g].next}]
             d == [call[g] EXCEPT !.next = call[g].next + 1, !.worked = call[g].worked + 1]
  <2>1. /\ call' = [call EXCEPT ![g] = c] \/ call' = [call EXCEPT ![g] = d]
        /\ call[g].next <= Len(call[g].list) /\ pc[g] \in {"flush", "close"}
    BY <1>6 DEF FlushNext, CloseNext, Fails, Works, More, Returned
  <2>2. /\ c \in Call /\ c.record = call[g].record /\ c.list = call[g].list
        /\ c.next = call[g].next + 1
    <3>1. call[g] \in Call
      BY <1>i, CallTyped
    <3>2. e \in Nat
      BY <3>1 DEF Call, Returned
    <3> HIDE DEF e
    <3> QED BY <3>1, <3>2, FailedUpdate
  <2>3. /\ d \in Call /\ d.record = call[g].record /\ d.list = call[g].list
        /\ d.next = call[g].next + 1
    <3>1. call[g] \in Call
      BY <1>i, CallTyped
    <3> QED BY <3>1, WorkedUpdate
  <2> HIDE DEF e, c, d
  <2>4. /\ call' \in [Goroutine -> Call]
        /\ \A h \in Goroutine : /\ call'[h].record = call[h].record
                                /\ call'[h].list = call[h].list
                                /\ call'[h].next \in 1..(Len(call[h].list) + 1)
    BY <1>i, <2>1, <2>2, <2>3, NextTyped
  <2>5. \A h \in Goroutine \ {g} : call'[h] = call[h]
    BY <1>i, <2>1 DEF TypeOK
  <2>6. /\ closed' \in SUBSET Sink
        /\ UNCHANGED <<sinks, records, accepted, cleared, pc, emitted>>
    <3>1. Current(g) \in Sink
      BY <1>i, <2>1, CallTyped DEF Current
    <3> QED BY <1>i, <1>6, <3>1 DEF FlushNext, CloseNext, TypeOK, sinkVars
  <2>7. TypeOK'
    BY <1>i, <2>4, <2>6 DEF TypeOK
  <2>8. Numbered' /\ Taken'
    BY <1>i, <2>1, <2>4, <2>5, <2>6 DEF Numbered, Taken
  <2> QED BY <2>7, <2>8 DEF Inv
<1>7. ASSUME NEW g \in Goroutine, FlushEnd(g) \/ CloseEnd(g) PROVE Inv'
  <2>1. /\ pc' = [pc EXCEPT ![g] = "flushed"] \/ pc' = [pc EXCEPT ![g] = "closed"]
        /\ UNCHANGED <<sinks, records, closed, accepted, cleared, emitted>>
    BY <1>7 DEF FlushEnd, CloseEnd, Goto, sinkVars
  <2>2. PICK o \in {"none", "success", "partial", "failure"} :
           call' = [call EXCEPT ![g].outcome = o]
    <3>1. CASE FlushEnd(g)
      BY <3>1 DEF FlushEnd
    <3>2. CASE CloseEnd(g)
      <4>1. call' = call /\ call \in [Goroutine -> Call] /\ call[g] \in Call
        BY <1>i, <3>2 DEF CloseEnd, TypeOK
      <4>2. call' = [call EXCEPT ![g].outcome = call[g].outcome]
        BY <4>1 DEF Call
      <4> QED BY <4>1, <4>2 DEF Call
    <3> QED BY <1>7, <3>1, <3>2
  <2> DEFINE c == [call[g] EXCEPT !.outcome = o]
  <2>3. /\ c \in Call /\ c.record = call[g].record /\ c.list = call[g].list
        /\ c.next = call[g].next
    <3>1. call[g] \in Call
      BY <1>i, CallTyped
    <3> QED BY <3>1, OutcomeUpdate
  <2>4. call' = [call EXCEPT ![g] = c]
    BY <2>2
  <2> HIDE DEF c
  <2>5. TypeOK'
    BY <1>i, <2>1, <2>3, <2>4 DEF TypeOK
  <2>6. Numbered' /\ Taken'
    BY <1>i, <2>1, <2>3, <2>4 DEF TypeOK, Numbered, Taken
  <2> QED BY <2>5, <2>6 DEF Inv
<1>8. ASSUME NEW g \in Goroutine, NEW l \in Lists, SetSinks(g, l) PROVE Inv'
  BY <1>i, <1>8, DeliveryAssumption DEF SetSinks, Inv, TypeOK, Numbered, Taken, sinkVars
<1>9. ASSUME NEW g \in Goroutine, NEW s \in Sink, Clear(g, s) PROVE Inv'
  <2>1. TypeOK' /\ Numbered'
    BY <1>i, <1>9 DEF Clear, TypeOK, Numbered
  <2>2. /\ records'[s] = <<>> /\ cleared'[s] = Len(accepted[s]) /\ accepted' = accepted
        /\ \A t \in Sink \ {s} : records'[t] = records[t] /\ cleared'[t] = cleared[t]
    BY <1>i, <1>9 DEF Clear, TypeOK
  <2>3. Newest(s, <<>>, accepted[s], Len(accepted[s])) /\ Len(accepted[s]) \in Nat
    <3>1. Len(accepted[s]) \in Nat
      BY <1>i, LenProperties DEF TypeOK
    <3> QED BY <3>1, CapacityPositive DEF Newest, Suffix
  <2>4. Taken'
    BY <1>i, <2>2, <2>3 DEF Taken
  <2> QED BY <2>1, <2>4 DEF Inv
<1> QED
  BY <1>1, <1>2, <1>3, <1>4, <1>5, <1>6, <1>7, <1>8, <1>9 DEF Next

(* The invariant holds in every reachable state.                           *)
THEOREM Invariance == Spec => []Inv
BY InitInv, InvStep, PTL DEF Spec

(* The logger, the sinks and the calls keep their types.                   *)
THEOREM TypeCorrect == Spec => []TypeOK
<1>1. Inv => TypeOK
  BY DEF Inv
<1> QED BY <1>1, Invariance, PTL

(* A sink shows the newest records it took, whatever its capacity, however *)
(* many goroutines emit and whenever it is cleared                         *)
(* (in_memory_sink.go:66-70).                                              *)
THEOREM RetainsNewestCorrect == Spec => []RetainsNewest
<1>1. Inv => RetainsNewest
  BY DEF Inv, Taken, Newest, Suffix, RetainsNewest
<1> QED BY <1>1, Invariance, PTL

(* A sink shows the records of a goroutine in the order of its emits       *)
(* (logger.go:655-662).                                                    *)
THEOREM PerCallerOrderCorrect == Spec => []PerCallerOrder
<1>1. Inv => PerCallerOrder
  <2> SUFFICES ASSUME Inv, NEW s \in Sink,
                      NEW j \in DOMAIN records[s], NEW k \in DOMAIN records[s],
                      j < k, records[s][j].by = records[s][k].by
               PROVE  records[s][j].number <= records[s][k].number
    BY DEF PerCallerOrder
  <2> DEFINE d == Len(accepted[s]) - Len(records[s])
  <2>1. /\ Len(records[s]) \in Nat /\ Len(accepted[s]) \in Nat
        /\ j \in 1..Len(records[s]) /\ k \in 1..Len(records[s])
        /\ DOMAIN accepted[s] = 1..Len(accepted[s])
    BY DEF Inv, TypeOK
  <2>2. Len(records[s]) <= Len(accepted[s])
    BY DEF Inv, Taken, Newest, Suffix
  <2>3. records[s][j] = accepted[s][d + j] /\ records[s][k] = accepted[s][d + k]
    BY <2>1 DEF Inv, Taken, Newest, Suffix
  <2>4. d + j \in DOMAIN accepted[s] /\ d + k \in DOMAIN accepted[s] /\ d + j < d + k
    <3>1. \A m, n \in Nat : m <= n =>
             \A x, y \in 1..m : x < y =>
                /\ n - m + x \in 1..n /\ n - m + y \in 1..n
                /\ n - m + x < n - m + y
      OBVIOUS
    <3> QED BY <2>1, <2>2, <3>1
  <2> HIDE DEF d
  <2> QED BY <2>3, <2>4 DEF Inv, Taken, InOrder
<1> QED BY <1>1, Invariance, PTL

(* No step adds a record to a closed sink or opens it again                *)
(* (in_memory_sink.go:63-65, 76-77).                                       *)
THEOREM ClosedTakesNothingCorrect == Spec => ClosedTakesNothing
<1> DEFINE Frozen == \A s \in closed : /\ s \in closed'
                                       /\ accepted'[s] = accepted[s]
                                       /\ records'[s] \in {records[s], <<>>}
<1>1. Inv /\ [Next]_vars => [Frozen]_vars
  <2> SUFFICES ASSUME Inv, Next, NEW s \in closed
               PROVE  /\ s \in closed' /\ accepted'[s] = accepted[s]
                      /\ records'[s] \in {records[s], <<>>}
    OBVIOUS
  <2>1. /\ s \in Sink /\ records \in [Sink -> Seq(Record)]
        /\ accepted \in [Sink -> Seq(Record)]
    BY DEF Inv, TypeOK
  <2>2. ASSUME NEW g \in Goroutine, EmitTo(g)
        PROVE  /\ s \in closed' /\ accepted'[s] = accepted[s]
               /\ records'[s] \in {records[s], <<>>}
    <3>1. CASE Accepts(Current(g), call[g].record)
      <4>1. Current(g) # s
        BY <3>1 DEF Accepts
      <4> QED BY <2>1, <2>2, <3>1, <4>1 DEF EmitTo
    <3>2. CASE ~Accepts(Current(g), call[g].record)
      BY <2>2, <3>2 DEF EmitTo
    <3> QED BY <3>1, <3>2
  <2>3. ASSUME NEW g \in Goroutine, NEW x \in Sink, Clear(g, x)
        PROVE  /\ s \in closed' /\ accepted'[s] = accepted[s]
               /\ records'[s] \in {records[s], <<>>}
    BY <2>1, <2>3 DEF Clear
  <2> QED BY <2>2, <2>3 DEF Next, BeginEmit, EmitReturn, Return, Begin, FlushNext,
             FlushEnd, CloseNext, CloseEnd, SetSinks, sinkVars
<1> QED BY <1>1, Invariance, PTL DEF Spec, ClosedTakesNothing

-----------------------------------------------------------------------------
(* The calls under way: what the part of the snapshot that a call has      *)
(* worked through tells of the sinks and of the outcome.                   *)
Passed(g) == 1..(call[g].next - 1)

Reached(g) ==
    pc[g] = "emit" =>
        \A i \in Passed(g) : Accepts(call[g].list[i], call[g].record)
                                => Took(call[g].list[i], call[g].record)

Shut(g) ==
    /\ pc[g] \in {"close", "closed"} => \A i \in Passed(g) : call[g].list[i] \in closed
    /\ pc[g] \in {"flushed", "closed"} => call[g].next = Len(call[g].list) + 1

(* Without counting the failed: none failed iff all worked, and all failed *)
(* iff none worked.                                                        *)
Tally(g) ==
    /\ pc[g] = "idle" => call[g].failed = {} /\ call[g].worked = 0
    /\ pc[g] \in {"flush", "flushed"} =>
          /\ call[g].failed \subseteq Passed(g) /\ call[g].worked < call[g].next
          /\ call[g].failed = {} <=> call[g].worked = call[g].next - 1
          /\ call[g].failed = Passed(g) <=> call[g].worked = 0
    /\ pc[g] = "flushed" =>
          call[g].outcome = IF call[g].worked = Len(call[g].list) THEN "success"
                            ELSE IF call[g].worked = 0 THEN "failure" ELSE "partial"

(* Close keeps the first of the failures so far.                           *)
FirstKept(g) ==
    /\ pc[g] = "idle" => call[g].failed = {} /\ call[g].first = 0
    /\ pc[g] \in {"close", "closed"} =>
          /\ call[g].failed \subseteq Passed(g)
          /\ call[g].failed = {} => call[g].first = 0
          /\ call[g].failed # {} => /\ call[g].first \in call[g].failed
                                    /\ \A i \in call[g].failed : call[g].first <= i

Underway(g) == Reached(g) /\ Shut(g) /\ Tally(g) /\ FirstKept(g)

CallInv == Inv /\ \A g \in Goroutine : Underway(g)

LEMMA CallFields ==
    ASSUME TypeOK, NEW g \in Goroutine
    PROVE  /\ call[g].failed \in SUBSET Nat /\ call[g].worked \in Nat
           /\ call[g].first \in Nat
           /\ call[g].next \in Nat /\ call[g].next >= 1
           /\ Len(call[g].list) \in Nat /\ call[g].next <= Len(call[g].list) + 1
<1>1. call[g] \in Call /\ call[g].next \in 1..(Len(call[g].list) + 1)
      /\ Len(call[g].list) \in Nat
  BY CallTyped
<1> QED BY <1>1 DEF Call

(* Sinks only close and only take more.                                    *)
LEMMA SinksGrow ==
    ASSUME Inv, [Next]_vars, NEW s \in Sink, NEW rec
    PROVE  /\ Accepts(s, rec)' => Accepts(s, rec)
           /\ Took(s, rec) => Took(s, rec)'
           /\ s \in closed => s \in closed'
<1>1. closed \subseteq closed'
  BY DEF Next, vars, sinkVars, BeginEmit, EmitTo, EmitReturn, Begin, FlushNext, FlushEnd,
         CloseNext, CloseEnd, Return, SetSinks, Clear
<1>2. accepted'[s] = accepted[s] \/ \E r \in Record : accepted'[s] = Append(accepted[s], r)
  <2>1. accepted \in [Sink -> Seq(Record)]
    BY DEF Inv, TypeOK
  <2>2. ASSUME NEW g \in Goroutine, EmitTo(g)
        PROVE  accepted'[s] = accepted[s]
               \/ \E r \in Record : accepted'[s] = Append(accepted[s], r)
    <3>1. call[g].record \in Record
      BY CallTyped DEF Inv
    <3>2. \/ accepted' = accepted
          \/ accepted' = [accepted EXCEPT ![Current(g)] = Append(@, call[g].record)]
      BY <2>2 DEF EmitTo
    <3> QED BY <2>1, <3>1, <3>2
  <2>3. ASSUME ~\E g \in Goroutine : EmitTo(g) PROVE accepted' = accepted
    BY <2>3 DEF Next, vars, sinkVars, BeginEmit, EmitReturn, Begin, FlushNext, FlushEnd,
                CloseNext, CloseEnd, Return, SetSinks, Clear
  <2> QED BY <2>2, <2>3
<1>3. Took(s, rec) => Took(s, rec)'
  <2> SUFFICES ASSUME NEW k \in DOMAIN accepted[s], accepted[s][k] = rec
               PROVE  \E j \in DOMAIN accepted'[s] : accepted'[s][j] = rec
    BY DEF Took
  <2>1. accepted[s] \in Seq(Record)
    BY DEF Inv, TypeOK
  <2>2. CASE accepted'[s] = accepted[s]
    BY <2>2
  <2>3. ASSUME NEW r \in Record, accepted'[s] = Append(accepted[s], r)
        PROVE  \E j \in DOMAIN accepted'[s] : accepted'[s][j] = rec
    <3>1. k \in 1..Len(accepted[s]) /\ Len(accepted[s]) \in Nat
      BY <2>1, LenProperties
    <3>2. k \in DOMAIN accepted'[s] /\ accepted'[s][k] = rec
      BY <2>1, <2>3, <3>1, AppendProperties, LenProperties
    <3> QED BY <3>2
  <2> QED BY <1>2, <2>2, <2>3
<1>4. Accepts(s, rec)' => Accepts(s, rec)
  BY <1>1 DEF Accepts, SupportsSeverity
<1> QED BY <1>1, <1>3, <1>4

(* A call stays as it was while others take their steps.                   *)
LEMMA OthersKept ==
    ASSUME Inv, [Next]_vars, NEW h \in Goroutine, Underway(h),
           pc'[h] = pc[h], call'[h] = call[h]
    PROVE  Underway(h)'
<1>1. \A i \in Passed(h) : call[h].list[i] \in Sink
  <2>1. \A i \in Passed(h) : i \in 1..Len(call[h].list)
    BY CallFields DEF Inv, Passed
  <2> QED BY <2>1, CallTyped DEF Inv
<1>2. Passed(h)' = Passed(h)
  BY DEF Passed
<1>3. Reached(h)'
  <2> SUFFICES ASSUME pc[h] = "emit", NEW i \in Passed(h),
                      Accepts(call[h].list[i], call[h].record)'
               PROVE  Took(call[h].list[i], call[h].record)'
    BY <1>2 DEF Reached
  <2> DEFINE s == call[h].list[i]
             rec == call[h].record
  <2>1. s \in Sink /\ s' = s /\ rec' = rec
    BY <1>1
  <2>2. (Accepts(s, rec) => Took(s, rec))
    BY DEF Underway, Reached
  <2> QED BY <2>1, <2>2, SinksGrow DEF Accepts, Took
<1>4. Shut(h)'
  <2>1. \A i \in Passed(h) : call[h].list[i] \in closed => call[h].list[i] \in closed'
    BY <1>1, SinksGrow
  <2> QED BY <1>2, <2>1 DEF Underway, Shut
<1>5. Tally(h)' /\ FirstKept(h)'
  BY <1>2 DEF Underway, Tally, FirstKept
<1> QED BY <1>3, <1>4, <1>5 DEF Underway

(* The next position of the snapshot joins those worked through.           *)
LEMMA PassedNext ==
    ASSUME TypeOK, NEW g \in Goroutine, call'[g].next = call[g].next + 1
    PROVE  Passed(g)' = Passed(g) \cup {call[g].next} /\ call[g].next \notin Passed(g)
<1>1. call[g].next \in Nat /\ call[g].next >= 1
  BY CallFields
<1> QED BY <1>1 DEF Passed

(* A call that begins has worked through nothing.                          *)
LEMMA BeginUnderway ==
    ASSUME Inv, NEW g \in Goroutine, Underway(g), pc[g] = "idle",
           pc'[g] \in {"emit", "flush", "close"}, call'[g].next = 1,
           call'[g].failed = call[g].failed, call'[g].worked = call[g].worked,
           call'[g].first = call[g].first
    PROVE  Underway(g)'
<1>1. Passed(g)' = {} /\ call[g].failed = {} /\ call[g].worked = 0 /\ call[g].first = 0
  BY DEF Passed, Underway, Tally, FirstKept
<1> QED BY <1>1 DEF Underway, Reached, Shut, Tally, FirstKept

(* The sink that an emit has just called took the record, unless it is     *)
(* closed or does not want it.                                             *)
LEMMA EmitToUnderway ==
    ASSUME Inv, Inv', NEW g \in Goroutine, Underway(g), EmitTo(g)
    PROVE  Underway(g)'
<1> DEFINE x == Current(g)
           rec == call[g].record
<1>1. /\ pc[g] = "emit" /\ pc'[g] = "emit" /\ x \in Sink
      /\ call'[g].next = call[g].next + 1
      /\ call'[g].list = call[g].list /\ call'[g].record = rec
  <2>1. call[g].list[call[g].next] \in Sink /\ call[g] \in Call
    BY CallTyped DEF Inv, EmitTo, More
  <2>2. call \in [Goroutine -> Call] /\ call' = [call EXCEPT ![g].next = @ + 1]
    BY DEF EmitTo, Inv, TypeOK
  <2>3. call'[g] = [call[g] EXCEPT !.next = call[g].next + 1]
    BY <2>2
  <2> HIDE DEF rec
  <2>4. call'[g].next = call[g].next + 1 /\ call'[g].list = call[g].list
        /\ call'[g].record = call[g].record
    BY <2>1, <2>3, NextUpdate
  <2> QED BY <2>1, <2>4 DEF EmitTo, More, Current, rec
<1>2. Passed(g)' = Passed(g) \cup {call[g].next}
  BY <1>1, PassedNext DEF Inv
<1>3. \A i \in Passed(g) : call[g].list[i] \in Sink
  <2>1. \A i \in Passed(g) : i \in 1..Len(call[g].list)
    BY CallFields DEF Inv, Passed
  <2> QED BY <2>1, CallTyped DEF Inv
<1>4. [Next]_vars
  BY DEF Next
<1>5. ASSUME NEW i \in Passed(g), NEW s, s = call[g].list[i], NEW r, r = rec,
             Accepts(s, r)'
      PROVE  Took(s, r)'
  <2>1. s \in Sink
    BY <1>3, <1>5
  <2>2. Accepts(s, r) => Took(s, r)
    BY <1>1, <1>5 DEF Underway, Reached
  <2> QED BY <1>4, <1>5, <2>1, <2>2, SinksGrow
<1>6. Accepts(x, rec) => \E k \in DOMAIN accepted'[x] : accepted'[x][k] = rec
  <2> SUFFICES ASSUME Accepts(x, rec)
               PROVE  \E k \in DOMAIN accepted'[x] : accepted'[x][k] = rec
    OBVIOUS
  <2>1. accepted \in [Sink -> Seq(Record)] /\ rec \in Record
    BY CallTyped DEF Inv, TypeOK
  <2>2. accepted'[x] = Append(accepted[x], rec)
    BY <1>1, <2>1 DEF EmitTo
  <2>3. accepted[x] \in Seq(Record) /\ Len(accepted[x]) + 1 \in DOMAIN accepted'[x]
        /\ accepted'[x][Len(accepted[x]) + 1] = rec
    BY <1>1, <2>1, <2>2, AppendProperties, LenProperties
  <2> QED BY <2>3
<1>7. Reached(g)'
  <2> SUFFICES ASSUME NEW i \in Passed(g)', NEW s, s = call'[g].list[i],
                      NEW r, r = call'[g].record, Accepts(s, r)'
               PROVE  Took(s, r)'
    BY DEF Reached, Accepts, Took
  <2>1. CASE i \in Passed(g)
    BY <1>1, <1>5, <2>1
  <2>2. CASE i = call[g].next
    <3>1. s = x /\ r = rec
      BY <1>1, <2>2 DEF Current
    <3>2. Accepts(s, r)
      BY DEF Accepts, EmitTo
    <3> QED BY <1>6, <3>1, <3>2 DEF Took
  <2> QED BY <1>2, <2>1, <2>2
<1> QED BY <1>1, <1>7 DEF Underway, Shut, Tally, FirstKept

(* The sink just called failed or worked; Close has closed it either way.  *)
LEMMA NextUnderway ==
    ASSUME Inv, NEW g \in Goroutine, Underway(g), FlushNext(g) \/ CloseNext(g)
    PROVE  Underway(g)'
<1>1. call[g] \in Call /\ call \in [Goroutine -> Call] /\ pc'[g] = pc[g]
      /\ pc[g] \in {"flush", "close"}
  BY CallTyped DEF Inv, TypeOK, FlushNext, CloseNext, More
<1>2. \/ call'[g] = [call[g] EXCEPT !.next = call[g].next + 1, !.first = Returned(g),
                                    !.failed = call[g].failed \cup {call[g].next}]
      \/ call'[g] = [call[g] EXCEPT !.next = call[g].next + 1,
                                    !.worked = call[g].worked + 1]
  BY <1>1 DEF FlushNext, CloseNext, Fails, Works, More, Returned
<1>3. /\ call'[g].next = call[g].next + 1 /\ call'[g].list = call[g].list
      /\ \/ /\ call'[g].failed = call[g].failed \cup {call[g].next}
            /\ call'[g].worked = call[g].worked /\ call'[g].first = Returned(g)
         \/ /\ call'[g].failed = call[g].failed
            /\ call'[g].worked = call[g].worked + 1 /\ call'[g].first = call[g].first
  BY <1>1, <1>2 DEF Call
<1>4. Passed(g)' = Passed(g) \cup {call[g].next} /\ call[g].next \notin Passed(g)
  BY <1>3, PassedNext DEF Inv
<1>5. Shut(g)'
  <2>1. pc[g] = "close" => closed' = closed \cup {call[g].list[call[g].next]}
    BY DEF FlushNext, CloseNext, More, Current
  <2> QED BY <1>1, <1>3, <1>4, <2>1 DEF Underway, Shut
<1>6. Tally(g)'
  <2> SUFFICES ASSUME pc[g] = "flush"
               PROVE  /\ call'[g].failed \subseteq Passed(g)'
                      /\ call'[g].worked < call'[g].next
                      /\ call'[g].failed = {} <=> call'[g].worked = call'[g].next - 1
                      /\ call'[g].failed = Passed(g)' <=> call'[g].worked = 0
    BY <1>1 DEF Tally
  <2>1. /\ call[g].failed \subseteq Passed(g) /\ call[g].worked < call[g].next
        /\ call[g].failed = {} <=> call[g].worked = call[g].next - 1
        /\ call[g].failed = Passed(g) <=> call[g].worked = 0
    BY DEF Underway, Tally
  <2>2. call[g].worked \in Nat /\ call[g].next \in Nat
    BY CallFields DEF Inv
  <2>3. CASE /\ call'[g].failed = call[g].failed \cup {call[g].next}
             /\ call'[g].worked = call[g].worked
    <3>1. call'[g].failed = Passed(g)' <=> call[g].failed = Passed(g)
      BY <1>4, <2>1, <2>3
    <3> QED BY <1>3, <1>4, <2>1, <2>2, <2>3, <3>1
  <2>4. CASE /\ call'[g].failed = call[g].failed
             /\ call'[g].worked = call[g].worked + 1
    BY <1>3, <1>4, <2>1, <2>2, <2>4
  <2> QED BY <1>3, <2>3, <2>4
<1>7. FirstKept(g)'
  <2> SUFFICES ASSUME pc[g] = "close"
               PROVE  /\ call'[g].failed \subseteq Passed(g)'
                      /\ call'[g].failed = {} => call'[g].first = 0
                      /\ call'[g].failed # {} =>
                            /\ call'[g].first \in call'[g].failed
                            /\ \A i \in call'[g].failed : call'[g].first <= i
    BY <1>1 DEF FirstKept
  <2>1. /\ call[g].failed \subseteq Passed(g)
        /\ call[g].failed = {} => call[g].first = 0
        /\ call[g].failed # {} => /\ call[g].first \in call[g].failed
                                  /\ \A i \in call[g].failed : call[g].first <= i
    BY DEF Underway, FirstKept
  <2>2. call[g].next \in Nat /\ \A i \in call[g].failed : i \in Nat /\ 0 < i /\ i < call[g].next
    BY <2>1, CallFields DEF Inv, Passed
  <2>3. CASE /\ call'[g].failed = call[g].failed \cup {call[g].next}
             /\ call'[g].first = Returned(g)
    <3>1. CASE call[g].failed = {}
      BY <1>4, <2>1, <2>2, <2>3, <3>1 DEF Returned
    <3>2. CASE call[g].failed # {}
      BY <1>4, <2>1, <2>2, <2>3, <3>2 DEF Returned
    <3> QED BY <3>1, <3>2
  <2>4. CASE call'[g].failed = call[g].failed /\ call'[g].first = call[g].first
    BY <1>4, <2>1, <2>4
  <2> QED BY <1>3, <2>3, <2>4
<1> QED BY <1>1, <1>5, <1>6, <1>7 DEF Underway, Reached

(* Flush has called every sink of its snapshot and reports by the tally.   *)
LEMMA EndUnderway ==
    ASSUME Inv, NEW g \in Goroutine, Underway(g), FlushEnd(g) \/ CloseEnd(g)
    PROVE  Underway(g)'
<1>1. /\ call[g] \in Call /\ call \in [Goroutine -> Call]
      /\ pc \in [Goroutine -> {"idle", "emit", "flush", "flushed", "close", "closed"}]
  BY CallTyped DEF Inv, TypeOK
<1>2. call[g].next = Len(call[g].list) + 1
  BY CallFields DEF Inv, FlushEnd, CloseEnd, Done
<1>3. CASE FlushEnd(g)
  <2> DEFINE o == IF call[g].worked = Len(call[g].list) THEN "success"
                  ELSE IF call[g].worked = 0 THEN "failure" ELSE "partial"
  <2>1. /\ call'[g] = [call[g] EXCEPT !.outcome = o]
        /\ pc[g] = "flush" /\ pc'[g] = "flushed"
    BY <1>1, <1>3 DEF FlushEnd, Done, Goto
  <2>2. o \in {"none", "success", "partial", "failure"}
    OBVIOUS
  <2> HIDE DEF o
  <2>3. /\ call'[g].next = call[g].next /\ call'[g].list = call[g].list
        /\ call'[g].failed = call[g].failed /\ call'[g].worked = call[g].worked
        /\ call'[g].outcome = o
    BY <1>1, <2>1, <2>2 DEF Call
  <2>4. Passed(g)' = Passed(g)
    BY <2>3 DEF Passed
  <2> QED BY <1>2, <2>1, <2>3, <2>4 DEF Underway, Reached, Shut, Tally, FirstKept, o
<1>4. CASE CloseEnd(g)
  <2>1. pc[g] = "close" /\ pc'[g] = "closed" /\ UNCHANGED <<call, closed>>
    BY <1>1, <1>4 DEF CloseEnd, Done, Goto, sinkVars
  <2>2. Passed(g)' = Passed(g)
    BY <2>1 DEF Passed
  <2> QED BY <1>2, <2>1, <2>2 DEF Underway, Reached, Shut, Tally, FirstKept
<1> QED BY <1>3, <1>4

LEMMA ReturnUnderway ==
    ASSUME Inv, NEW g \in Goroutine, EmitReturn(g) \/ Return(g)
    PROVE  Underway(g)'
<1>1. call'[g] = Idle(g) /\ pc'[g] = "idle"
  BY DEF EmitReturn, Return, Goto, Inv, TypeOK
<1>2. Idle(g).failed = {} /\ Idle(g).worked = 0 /\ Idle(g).first = 0
  BY DEF Idle
<1> QED BY <1>1, <1>2 DEF Underway, Reached, Shut, Tally, FirstKept

THEOREM CallInvInit == Init => CallInv
<1> SUFFICES ASSUME Init PROVE CallInv
  OBVIOUS
<1>1. Inv
  BY InitInv
<1>2. \A g \in Goroutine : /\ pc[g] = "idle" /\ call[g].failed = {}
                            /\ call[g].worked = 0 /\ call[g].first = 0
  BY DEF Init, Idle
<1> QED BY <1>1, <1>2 DEF CallInv, Underway, Reached, Shut, Tally, FirstKept

(* A step of one goroutine keeps what its own call relies on, and leaves   *)
(* the calls of the others as they were.                                   *)
THEOREM CallInvStep == CallInv /\ [Next]_vars => CallInv'
<1> SUFFICES ASSUME CallInv, [Next]_vars PROVE CallInv'
  OBVIOUS
<1>i. Inv /\ Inv' /\ \A g \in Goroutine : Underway(g)
  BY InvStep DEF CallInv
<1>t. /\ call \in [Goroutine -> Call]
      /\ pc \in [Goroutine -> {"idle", "emit", "flush", "flushed", "close", "closed"}]
  BY <1>i DEF Inv, TypeOK
<1>1. ASSUME UNCHANGED <<pc, call>> PROVE CallInv'
  BY <1>i, <1>1, OthersKept DEF CallInv
<1>2. ASSUME NEW g \in Goroutine, Underway(g)',
             \A h \in Goroutine \ {g} : pc'[h] = pc[h] /\ call'[h] = call[h]
      PROVE  CallInv'
  <2> SUFFICES ASSUME NEW h \in Goroutine, h # g PROVE Underway(h)'
    BY <1>i, <1>2 DEF CallInv
  <2>1. pc'[h] = pc[h] /\ call'[h] = call[h]
    BY <1>2
  <2> QED BY <1>i, <2>1, OthersKept
<1>3. CASE UNCHANGED vars
  BY <1>1, <1>3 DEF vars
<1>4. ASSUME NEW g \in Goroutine, NEW n \in Severity, BeginEmit(g, n) PROVE CallInv'
  <2> DEFINE rec == [by |-> g, number |-> emitted[g] + 1, severity |-> n]
  <2>1. /\ call' = [call EXCEPT ![g].list = sinks, ![g].record = rec]
        /\ pc[g] = "idle" /\ pc' = [pc EXCEPT ![g] = "emit"]
    BY <1>4 DEF BeginEmit, Free, Goto
  <2> HIDE DEF rec
  <2>2. /\ call'[g].next = call[g].next /\ call'[g].failed = call[g].failed
        /\ call'[g].worked = call[g].worked /\ call'[g].first = call[g].first
        /\ pc'[g] = "emit"
        /\ \A h \in Goroutine \ {g} : pc'[h] = pc[h] /\ call'[h] = call[h]
    BY <1>t, <2>1 DEF Call
  <2>3. call[g].next = 1 /\ Underway(g)
    BY <1>i, <2>1 DEF Inv, Numbered
  <2>4. Underway(g)'
    BY <1>i, <2>1, <2>2, <2>3, BeginUnderway
  <2> QED BY <1>2, <2>2, <2>4
<1>5. ASSUME NEW g \in Goroutine, Begin(g, "flush") \/ Begin(g, "close") PROVE CallInv'
  <2>1. /\ call' = [call EXCEPT ![g].list = sinks] /\ pc[g] = "idle"
        /\ pc' = [pc EXCEPT ![g] = "flush"] \/ pc' = [pc EXCEPT ![g] = "close"]
    BY <1>5 DEF Begin, Free, Goto
  <2>2. /\ call'[g].next = call[g].next /\ call'[g].failed = call[g].failed
        /\ call'[g].worked = call[g].worked /\ call'[g].first = call[g].first
        /\ pc'[g] \in {"flush", "close"}
        /\ \A h \in Goroutine \ {g} : pc'[h] = pc[h] /\ call'[h] = call[h]
    BY <1>t, <2>1 DEF Call
  <2>3. call[g].next = 1 /\ Underway(g)
    BY <1>i, <2>1 DEF Inv, Numbered
  <2>4. Underway(g)'
    BY <1>i, <2>1, <2>2, <2>3, BeginUnderway
  <2> QED BY <1>2, <2>2, <2>4
<1>6. ASSUME NEW g \in Goroutine, EmitTo(g) PROVE CallInv'
  <2>1. \A h \in Goroutine \ {g} : pc'[h] = pc[h] /\ call'[h] = call[h]
    BY <1>t, <1>6 DEF EmitTo
  <2>2. Underway(g)'
    BY <1>i, <1>6, EmitToUnderway
  <2> QED BY <1>2, <2>1, <2>2
<1>7. ASSUME NEW g \in Goroutine, FlushNext(g) \/ CloseNext(g) PROVE CallInv'
  <2>1. \A h \in Goroutine \ {g} : pc'[h] = pc[h] /\ call'[h] = call[h]
    BY <1>t, <1>7 DEF FlushNext, CloseNext, Fails, Works
  <2>2. Underway(g)'
    BY <1>i, <1>7, NextUnderway
  <2> QED BY <1>2, <2>1, <2>2
<1>8. ASSUME NEW g \in Goroutine, FlushEnd(g) \/ CloseEnd(g) PROVE CallInv'
  <2>1. \A h \in Goroutine \ {g} : pc'[h] = pc[h] /\ call'[h] = call[h]
    BY <1>t, <1>8 DEF FlushEnd, CloseEnd, Goto
  <2>2. Underway(g)'
    BY <1>i, <1>8, EndUnderway
  <2> QED BY <1>2, <2>1, <2>2
<1>9. ASSUME NEW g \in Goroutine, EmitReturn(g) \/ Return(g) PROVE CallInv'
  <2>1. \A h \in Goroutine \ {g} : pc'[h] = pc[h] /\ call'[h] = call[h]
    BY <1>t, <1>9 DEF EmitReturn, Return, Goto
  <2>2. Underway(g)'
    BY <1>i, <1>9, ReturnUnderway
  <2> QED BY <1>2, <2>1, <2>2
<1>10. ASSUME NEW g \in Goroutine, \/ \E l \in Lists : SetSinks(g, l)
                                   \/ \E s \in Sink : Clear(g, s)
       PROVE  CallInv'
  BY <1>1, <1>10 DEF SetSinks, Clear
<1> QED
  BY <1>3, <1>4, <1>5, <1>6, <1>7, <1>8, <1>9, <1>10 DEF Next

THEOREM CallInvariance == Spec => []CallInv
BY CallInvInit, CallInvStep, PTL DEF Spec

(* An emit that has come to the end of its snapshot has handed its record  *)
(* to every sink that wants it and is still open, whoever closed, cleared  *)
(* or replaced sinks under way (logger.go:655-662).                        *)
THEOREM EmitReachesOpenCorrect == Spec => []EmitReachesOpen
<1>1. CallInv => EmitReachesOpen
  <2> SUFFICES ASSUME CallInv, NEW g \in Goroutine, Done(g, "emit"),
                      NEW i \in DOMAIN call[g].list,
                      Accepts(call[g].list[i], call[g].record)
               PROVE  Took(call[g].list[i], call[g].record)
    BY DEF EmitReachesOpen
  <2>1. i \in Passed(g)
    <3>1. i \in 1..Len(call[g].list) /\ Len(call[g].list) \in Nat /\ call[g].next \in Nat
      BY CallTyped, LenProperties DEF CallInv, Inv
    <3> QED BY <3>1 DEF Done, Passed
  <2> QED BY <2>1 DEF CallInv, Underway, Reached, Done
<1> QED BY <1>1, CallInvariance, PTL

(* When Close returns every sink of its snapshot is closed, those whose    *)
(* Close returned an error and those after them too, and the error it      *)
(* returns is the first of theirs (logger.go:601-610).                     *)
THEOREM CloseReachesAllCorrect == Spec => []CloseReachesAll
<1>1. CallInv => CloseReachesAll
  <2> SUFFICES ASSUME CallInv, NEW g \in Goroutine, pc[g] = "closed"
               PROVE  /\ \A i \in DOMAIN call[g].list : call[g].list[i] \in closed
                      /\ IF call[g].failed = {} THEN call[g].first = 0
                         ELSE /\ call[g].first \in call[g].failed
                              /\ \A i \in call[g].failed : call[g].first <= i
    BY DEF CloseReachesAll
  <2>1. ASSUME NEW i \in DOMAIN call[g].list PROVE call[g].list[i] \in closed
    <3>1. i \in 1..Len(call[g].list) /\ Len(call[g].list) \in Nat
      BY CallTyped, LenProperties DEF CallInv, Inv
    <3> QED BY <3>1 DEF CallInv, Underway, Shut, Passed
  <2> QED BY <2>1 DEF CallInv, Underway, FirstKept
<1> QED BY <1>1, CallInvariance, PTL

(* The outcome that Flush reports tells whether none, some or all of the   *)
(* sinks failed, for any number of sinks (logger.go:545-551).              *)
THEOREM FlushReportedCorrect == Spec => []FlushReported
<1>1. CallInv => FlushReported
  <2> SUFFICES ASSUME CallInv, NEW g \in Goroutine, pc[g] = "flushed"
               PROVE  /\ call[g].outcome = "success" <=> call[g].failed = {}
                      /\ call[g].outcome = "partial" <=>
                            call[g].failed \notin {{}, DOMAIN call[g].list}
    BY DEF FlushReported
  <2>1. DOMAIN call[g].list = 1..Len(call[g].list) /\ Len(call[g].list) \in Nat
    BY CallTyped, LenProperties DEF CallInv, Inv
  <2>2. call[g].next = Len(call[g].list) + 1
    BY DEF CallInv, Underway, Shut
  <2>3. Passed(g) = DOMAIN call[g].list
    BY <2>1, <2>2 DEF Passed
  <2>4. /\ call[g].failed = {} <=> call[g].worked = Len(call[g].list)
        /\ call[g].failed = DOMAIN call[g].list <=> call[g].worked = 0
    BY <2>1, <2>2, <2>3 DEF CallInv, Underway, Tally
  <2>5. call[g].outcome = IF call[g].worked = Len(call[g].list) THEN "success"
                          ELSE IF call[g].worked = 0 THEN "failure" ELSE "partial"
    BY DEF CallInv, Underway, Tally
  <2> QED BY <2>4, <2>5
<1> QED BY <1>1, CallInvariance, PTL
=============================================================================
