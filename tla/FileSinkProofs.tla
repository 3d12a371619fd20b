---------------------------- MODULE FileSinkProofs ----------------------------
(***************************************************************************)
(* Theorems about FileSink for any number of sinks on the path, any limit, *)
(* any number of archives, any set of failing system calls and any number  *)
(* of crashes; and about a sink that has its path to itself.               *)
(***************************************************************************)
EXTENDS FileSink, SequenceTheorems, TLAPS

Busy(s) == pc[s] \in {"release", "cascade", "move", "reopen", "write"}

(* Where a cascade stands is an archive slot; a sink has no file from the  *)
(* start of its rotation to the end; an open file with a name exists.      *)
Position ==
    \A s \in Sink :
        /\ pc[s] = "cascade" => at[s] \in Archive
        /\ pc[s] = "write" => file[s] # Nil
        /\ pc[s] \in {"cascade", "move", "reopen"} => file[s] = Nil
        /\ Busy(s) => line[s].number \in 1..lines
        /\ file[s] \in Slot => disk[file[s]] # Missing

(* The lines of a file are in each sink's order of emission.               *)
InOrder(f) ==
    f = Missing \/ \A j, k \in DOMAIN f.lines : j < k => Earlier(f.lines[j], f.lines[k])

Held(f) == IF f = Missing THEN {} ELSE {f.lines[k] : k \in DOMAIN f.lines}

(* The order of the archives, of any disk.                                 *)
Ordered(d) ==
    /\ \A i \in Slot : InOrder(d[i])
    /\ \A i, j \in Slot : i < j => \A m \in Held(d[i]), n \in Held(d[j]) : Earlier(n, m)

(* No file that is newer than the one a sink appends to has lines of it.   *)
Behind(d, open) ==
    \A s \in Sink : open[s] \in Slot =>
        \A i \in Slot : i < open[s] => \A m \in Held(d[i]) : m.by # s

(* Lines on disk have been emitted; those of a sink are older than the one *)
(* it is emitting.                                                         *)
Newest ==
    \A i \in Slot : \A m \in Held(disk[i]) :
        /\ m.number <= lines
        /\ Busy(m.by) => m.number < line[m.by].number

Inv == TypeOK /\ Position /\ Newest /\ Ordered(disk) /\ Behind(disk, file) /\ SizeNeverOver

LEMMA HeldOfNothing ==
    /\ InOrder(Empty) /\ Held(Empty) = {}
    /\ InOrder(Missing) /\ Held(Missing) = {}
BY DEF InOrder, Held, Empty

LEMMA HeldAreLines == ASSUME NEW f \in {Missing} \cup File PROVE Held(f) \subseteq Line
BY DEF Held, File

LEMMA OrderedDisk == ArchiveOrder <=> Ordered(disk)
<1>1. \A i \in Slot : LinesIn(i) = Held(disk[i])
  <2> SUFFICES ASSUME NEW i \in Slot PROVE LinesIn(i) = Held(disk[i])
    OBVIOUS
  <2>1. CASE disk[i] = Missing
    BY <2>1 DEF Held, LinesIn, Stored
  <2>2. CASE disk[i] # Missing
    BY <2>2 DEF Held, LinesIn, Stored
  <2> QED BY <2>1, <2>2
<1>2. ASSUME NEW i \in Slot
      PROVE  InOrder(disk[i]) <=>
               \A j, k \in DOMAIN Stored(i) : j < k => Earlier(Stored(i)[j], Stored(i)[k])
  <2>1. CASE disk[i] = Missing
    BY <2>1 DEF InOrder, Stored
  <2>2. CASE disk[i] # Missing
    BY <2>2 DEF InOrder, Stored
  <2> QED BY <2>1, <2>2
<1> QED BY <1>1, <1>2 DEF ArchiveOrder, Ordered

(* The invariant holds while no process has opened a sink.                 *)
THEOREM InitInv == Init => Inv
<1> SUFFICES ASSUME Init PROVE Inv
  OBVIOUS
<1>1. TypeOK
  BY FileSinkAssumption DEF Init, TypeOK, NoLine, Slot, Archive, Phase
<1>2. \A i \in Slot : InOrder(disk[i]) /\ Held(disk[i]) = {}
  BY HeldOfNothing DEF Init
<1>3. \A s \in Sink : pc[s] = "down" /\ file[s] = Nil /\ file[s] \notin Slot
  <2>1. Nil \notin Slot
    BY FileSinkAssumption DEF Nil, Slot, Archive
  <2> QED BY <2>1 DEF Init
<1> QED BY <1>1, <1>2, <1>3 DEF Inv, Position, Busy, Newest, Ordered, Behind, SizeNeverOver

-----------------------------------------------------------------------------
(* What a rename to the next slot and a removal do to the handles: each    *)
(* goes with its file, or its file has lost its name.                      *)
Follows ==
    \A s \in Sink :
        /\ file'[s] = Nil <=> file[s] = Nil
        /\ file'[s] \in Slot => file[s] \in Slot /\ disk'[file'[s]] = disk[file[s]]

(* No line comes from nowhere.                                             *)
NothingNew == \A i \in Slot : \A m \in Held(disk'[i]) : \E j \in Slot : m \in Held(disk[j])

Kept == Ordered(disk') /\ Behind(disk', file') /\ Follows /\ NothingNew

FilesTyped ==
    /\ disk \in [Slot -> {Missing} \cup File]
    /\ file \in [Sink -> Slot \cup {Nil, Unlinked}]

LEMMA NoChangeKeeps ==
    ASSUME UNCHANGED <<disk, file>>, Ordered(disk), Behind(disk, file)
    PROVE  Kept
BY DEF Kept, Ordered, Behind, Follows, NothingNew

LEMMA RenameKeeps ==
    ASSUME NEW i \in Slot, i + 1 \in Slot, FilesTyped, Rename(i, i + 1),
           Ordered(disk), Behind(disk, file)
    PROVE  Kept /\ FilesTyped'
<1> USE FileSinkAssumption DEF Slot, Archive, Nil, Unlinked
<1>1. CASE UNCHANGED <<disk, file>>
  BY <1>1, NoChangeKeeps DEF FilesTyped
<1>2. CASE /\ disk' = [disk EXCEPT ![i + 1] = disk[i], ![i] = Missing]
           /\ file' = [u \in Sink |-> IF file[u] = i THEN i + 1
                                      ELSE IF file[u] = i + 1 THEN Unlinked ELSE file[u]]
  <2>1. \A k \in Slot : disk'[k] = IF k = i THEN Missing
                                   ELSE IF k = i + 1 THEN disk[i] ELSE disk[k]
    BY <1>2 DEF FilesTyped
  <2>2. \A k \in Slot : InOrder(disk'[k])
    BY <2>1, HeldOfNothing DEF Ordered
  <2>3. ASSUME NEW j \in Slot, NEW k \in Slot, j < k,
               NEW m \in Held(disk'[j]), NEW n \in Held(disk'[k])
        PROVE  Earlier(n, m)
    <3>1. j # i /\ k # i
      BY <2>1, <2>3, HeldOfNothing
    <3>2. CASE j = i + 1
      BY <3>1, <3>2, <2>1, <2>3 DEF Ordered
    <3>3. CASE k = i + 1
      BY <3>1, <3>3, <2>1, <2>3 DEF Ordered
    <3>4. CASE j # i + 1 /\ k # i + 1
      BY <3>1, <3>4, <2>1, <2>3 DEF Ordered
    <3> QED BY <3>2, <3>3, <3>4
  <2>4. Ordered(disk')
    BY <2>2, <2>3 DEF Ordered
  <2>5. ASSUME NEW s \in Sink, file'[s] \in Slot, NEW j \in Slot, j < file'[s],
               NEW m \in Held(disk'[j])
        PROVE  m.by # s
    <3>1. j # i
      BY <2>1, <2>5, HeldOfNothing
    <3>2. file[s] \in Slot /\ file[s] # i + 1
      BY <1>2, <2>5 DEF FilesTyped
    <3>d. \A k \in Slot : k < file[s] => \A n \in Held(disk[k]) : n.by # s
      BY <3>2 DEF Behind
    <3>3. CASE file[s] = i
      <4>1. file'[s] = i + 1 /\ j # i + 1
        BY <1>2, <3>3, <2>5 DEF FilesTyped
      <4> QED BY <3>1, <3>3, <3>d, <4>1, <2>1, <2>5
    <3>4. CASE file[s] # i
      <4>1. file'[s] = file[s]
        BY <1>2, <3>2, <3>4 DEF FilesTyped
      <4>2. CASE j = i + 1
        BY <3>1, <3>d, <4>1, <4>2, <2>1, <2>5
      <4>3. CASE j # i + 1
        BY <3>1, <3>d, <4>1, <4>3, <2>1, <2>5
      <4> QED BY <4>2, <4>3
    <3> QED BY <3>3, <3>4
  <2>6. Follows
    BY <1>2, <2>1 DEF Follows, FilesTyped
  <2>7. NothingNew
    BY <2>1, HeldOfNothing DEF NothingNew
  <2>8. FilesTyped'
    BY <1>2 DEF FilesTyped
  <2> QED BY <2>4, <2>5, <2>6, <2>7, <2>8 DEF Kept, Behind
<1> QED BY <1>1, <1>2 DEF Rename

LEMMA RemoveKeeps ==
    ASSUME NEW i \in Slot, FilesTyped, Remove(i), Ordered(disk), Behind(disk, file)
    PROVE  Kept /\ FilesTyped'
<1> USE FileSinkAssumption DEF Slot, Archive, Nil, Unlinked
<1>1. CASE UNCHANGED <<disk, file>>
  BY <1>1, NoChangeKeeps DEF FilesTyped
<1>2. CASE /\ disk' = [disk EXCEPT ![i] = Missing]
           /\ file' = [u \in Sink |-> IF file[u] = i THEN Unlinked ELSE file[u]]
  <2>1. \A k \in Slot : disk'[k] = IF k = i THEN Missing ELSE disk[k]
    BY <1>2 DEF FilesTyped
  <2>2. Ordered(disk') /\ NothingNew
    BY <2>1, HeldOfNothing DEF Ordered, NothingNew
  <2>3. Behind(disk', file')
    BY <1>2, <2>1, HeldOfNothing DEF Behind, FilesTyped
  <2>4. Follows
    BY <1>2, <2>1 DEF Follows, FilesTyped
  <2>5. FilesTyped'
    BY <1>2 DEF FilesTyped
  <2> QED BY <2>2, <2>3, <2>4, <2>5 DEF Kept
<1> QED BY <1>1, <1>2 DEF Remove

(* Opening the path adds no line and disturbs no other handle.             *)
LEMMA OpenKeeps ==
    ASSUME NEW s \in Sink, FilesTyped, Open(s), Ordered(disk), Behind(disk, file)
    PROVE  /\ Ordered(disk') /\ Behind(disk', file') /\ NothingNew /\ FilesTyped'
           /\ file'[s] = 0 /\ disk'[0] \in File
           /\ \A u \in Sink \ {s} : file'[u] = file[u]
           /\ \A k \in Slot : disk[k] # Missing => disk'[k] = disk[k]
<1> USE FileSinkAssumption DEF Slot, Archive
<1>1. Empty \in File
  BY DEF Empty, File
<1>2. \A k \in Slot : disk'[k] = IF k = 0 /\ disk[0] = Missing THEN Empty ELSE disk[k]
  BY DEF Open, FilesTyped
<1>3. file'[s] = 0 /\ \A u \in Sink \ {s} : file'[u] = file[u]
  BY DEF Open, FilesTyped
<1>4. Ordered(disk') /\ NothingNew
  BY <1>2, HeldOfNothing DEF Ordered, NothingNew
<1>5. Behind(disk', file')
  BY <1>2, <1>3, HeldOfNothing DEF Behind
<1>6. FilesTyped' /\ disk'[0] \in File
  BY <1>1, <1>2 DEF Open, FilesTyped
<1> QED BY <1>2, <1>3, <1>4, <1>5, <1>6

(* What a file becomes when a line or a fragment is appended is a file.    *)
LEMMA AppendedIsFile ==
    ASSUME NEW f \in File, NEW s \in Sink, NEW l \in [number : Nat, bytes : Nat], NEW n \in Nat
    PROVE  /\ WithLine(f, s, l) \in File
           /\ WithLine(f, s, l).bytes = f.bytes + l.bytes
           /\ WithFragment(f, n) \in File
           /\ WithFragment(f, n).bytes = f.bytes + n
           /\ WithFragment(f, n).lines = f.lines
<1>1. /\ f.lines \in Seq(Line) /\ f.bytes \in Nat /\ f.torn \in BOOLEAN
      /\ f = [lines |-> f.lines, bytes |-> f.bytes, torn |-> f.torn]
  BY DEF File
<1> DEFINE new == [by |-> s, number |-> l.number]
<1>2. new \in Line
  BY DEF Line
<1>3. (IF f.torn THEN f.lines ELSE Append(f.lines, new)) \in Seq(Line)
  BY <1>1, <1>2
<1>4. WithLine(f, s, l) \in File /\ WithLine(f, s, l).bytes = f.bytes + l.bytes
  BY <1>1, <1>3 DEF WithLine, File
<1>5. (IF n > 0 THEN TRUE ELSE f.torn) \in BOOLEAN
  BY <1>1, Zenon
<1>6. /\ WithFragment(f, n).bytes = f.bytes + n
      /\ WithFragment(f, n).lines = f.lines
      /\ WithFragment(f, n) \in File
  <2> DEFINE t == IF n > 0 THEN TRUE ELSE f.torn
  <2>1. WithFragment(f, n) = [lines |-> f.lines, bytes |-> f.bytes + n, torn |-> t]
    BY DEF WithFragment
  <2>2. f.bytes + n \in Nat
    BY <1>1
  <2> HIDE DEF t
  <2>3. t \in BOOLEAN
    BY <1>5 DEF t
  <2> QED BY <1>1, <2>1, <2>2, <2>3 DEF File
<1> QED BY <1>4, <1>6

(* The lines of a file after an append, and their order.                   *)
LEMMA AppendKeepsOrder ==
    ASSUME NEW f \in File, NEW s \in Sink, NEW l \in [number : Nat, bytes : Nat],
           InOrder(f), f # Missing, WithLine(f, s, l) # Missing,
           \A m \in Held(f) : m.by = s => m.number < l.number
    PROVE  /\ InOrder(WithLine(f, s, l))
           /\ \A m \in Held(WithLine(f, s, l)) :
                 m \in Held(f) \/ m = [by |-> s, number |-> l.number]
<1> DEFINE h == WithLine(f, s, l)
           new == [by |-> s, number |-> l.number]
<1>1. f.lines \in Seq(Line)
  BY DEF File
<1>2. CASE f.torn
  BY <1>2 DEF WithLine, InOrder, Held
<1>3. CASE ~f.torn
  <2>1. h.lines = Append(f.lines, new)
    BY <1>3 DEF WithLine
  <2>2. /\ DOMAIN h.lines = 1..(Len(f.lines) + 1) /\ DOMAIN f.lines = 1..Len(f.lines)
        /\ \A k \in DOMAIN h.lines :
              h.lines[k] = IF k \in DOMAIN f.lines THEN f.lines[k] ELSE new
    BY <2>1, <1>1
  <2>3. \A k \in DOMAIN f.lines : Earlier(f.lines[k], new)
    BY DEF Held, Earlier
  <2>4. \A j, k \in DOMAIN f.lines : j < k => Earlier(f.lines[j], f.lines[k])
    BY DEF InOrder
  <2> HIDE DEF new, h
  <2>5. InOrder(h)
    BY <2>2, <2>3, <2>4, <1>1 DEF InOrder
  <2>6. \A m \in Held(h) : m \in Held(f) \/ m = new
    BY <2>2 DEF Held, h
  <2> QED BY <2>5, <2>6 DEF h, new
<1> QED BY <1>2, <1>3

-----------------------------------------------------------------------------
LEMMA TypeStep ==
    ASSUME TypeOK, Position, Ordered(disk), Behind(disk, file), [Next]_vars
    PROVE  TypeOK'
<1> USE FileSinkAssumption DEF Phase
<1>t. FilesTyped
  BY DEF TypeOK, FilesTyped
<1>e. NoLine \in [number : Nat, bytes : Nat] /\ 0 \in Slot /\ Nil \in Slot \cup {Nil, Unlinked}
  BY DEF NoLine, Slot
<1>1. CASE UNCHANGED vars
  BY <1>1 DEF TypeOK, vars, sinkVars
<1>s. SUFFICES ASSUME NEW s \in Sink,
                      \/ NewFileSink(s) \/ \E b \in LineBytes : Emit(s, b)
                      \/ Release(s) \/ Cascade(s) \/ MoveCurrent(s) \/ Reopen(s) \/ Write(s)
                      \/ Close(s) \/ Discard(s) \/ Crash(s)
               PROVE  TypeOK'
  BY <1>1 DEF Next
<1>2. CASE NewFileSink(s)
  <2>1. FilesTyped' /\ disk'[0] \in File
    BY <1>2, <1>t, OpenKeeps DEF NewFileSink
  <2>2. disk'[0].bytes \in Nat
    BY <2>1 DEF File
  <2> QED BY <1>2, <2>1, <2>2 DEF NewFileSink, Goto, TypeOK, FilesTyped
<1>3. ASSUME NEW b \in LineBytes, Emit(s, b) PROVE TypeOK'
  <2>1. lines' \in Nat /\ [number |-> lines + 1, bytes |-> b] \in [number : Nat, bytes : Nat]
    BY <1>3 DEF Emit, TypeOK
  <2>2. line' \in [Sink -> [number : Nat, bytes : Nat]] /\ pc' \in [Sink -> Phase]
    <3>1. CASE closed[s] \/ file[s] = Nil
      BY <1>3, <3>1 DEF Emit, TypeOK
    <3>2. CASE ~(closed[s] \/ file[s] = Nil)
      <4>1. line' = [line EXCEPT ![s] = [number |-> lines + 1, bytes |-> b]]
        BY <1>3, <3>2 DEF Emit
      <4>2. pc' = [pc EXCEPT ![s] = "release"] \/ pc' = [pc EXCEPT ![s] = "write"]
        BY <1>3, <3>2 DEF Emit, Goto
      <4> QED BY <2>1, <4>1, <4>2 DEF TypeOK
    <3> QED BY <3>1, <3>2
  <2> QED BY <1>3, <2>1, <2>2 DEF Emit, TypeOK, sinkVars
<1>4. CASE Release(s)
  BY <1>4, <1>e DEF Release, Goto, TypeOK, Slot, Archive
<1>5. CASE Cascade(s)
  <2>1. at[s] \in Archive
    BY <1>5 DEF Cascade, Position
  <2>2. FilesTyped'
    <3>1. CASE at[s] = Keep
      BY <1>5, <1>t, <2>1, <3>1, RemoveKeeps DEF Cascade, Slot
    <3>2. CASE at[s] # Keep
      <4>1. at[s] \in Slot /\ at[s] + 1 \in Slot
        BY <2>1, <3>2 DEF Slot, Archive
      <4> QED BY <1>5, <1>t, <3>2, <4>1, RenameKeeps DEF Cascade
    <3> QED BY <3>1, <3>2
  <2>3. at[s] - 1 \in {0} \cup Archive
    BY <2>1 DEF Archive
  <2> QED BY <1>5, <2>2, <2>3 DEF Cascade, Goto, TypeOK, FilesTyped
<1>6. CASE MoveCurrent(s)
  <2>1. FilesTyped'
    <3>1. CASE Keep > 0
      <4>1. 0 + 1 \in Slot /\ Rename(0, 0 + 1)
        BY <1>6, <3>1 DEF MoveCurrent, Slot, Archive
      <4> QED BY <1>t, <1>e, <4>1, RenameKeeps
    <3>2. CASE ~(Keep > 0)
      BY <1>6, <1>t, <1>e, <3>2, RemoveKeeps DEF MoveCurrent
    <3> QED BY <3>1, <3>2
  <2> QED BY <1>6, <2>1 DEF MoveCurrent, Goto, TypeOK, FilesTyped
<1>7. CASE Reopen(s)
  <2>1. CASE Open(s) /\ size' = [size EXCEPT ![s] = 0] /\ Goto(s, "write") /\ UNCHANGED line
    <3>1. FilesTyped'
      BY <2>1, <1>t, OpenKeeps
    <3> QED BY <1>7, <2>1, <3>1 DEF Reopen, Goto, TypeOK, FilesTyped
  <2>2. CASE Goto(s, "idle") /\ line' = [line EXCEPT ![s] = NoLine] /\ UNCHANGED <<disk, file, size>>
    BY <1>7, <2>2, <1>e DEF Reopen, Goto, TypeOK
  <2> QED BY <1>7, <2>1, <2>2 DEF Reopen
<1>8. CASE Write(s)
  <2>1. /\ line[s] \in [number : Nat, bytes : Nat] /\ line[s].bytes \in Nat
        /\ [by |-> s, number |-> line[s].number] \in Line
    BY DEF TypeOK, Line
  <2>2. file[s] # Unlinked => file[s] \in Slot /\ disk[file[s]] \in File
    BY <1>8 DEF Write, Position, TypeOK
  <2>3. disk' \in [Slot -> {Missing} \cup File]
    <3>1. CASE disk' = IF file[s] = Unlinked THEN disk
                       ELSE [disk EXCEPT ![file[s]] = WithLine(@, s, line[s])]
      BY <2>1, <2>2, <3>1, AppendedIsFile DEF TypeOK
    <3>2. ASSUME NEW n \in 0..(line[s].bytes - 1),
                 disk' = IF file[s] = Unlinked THEN disk
                         ELSE [disk EXCEPT ![file[s]] = WithFragment(@, n)]
          PROVE  disk' \in [Slot -> {Missing} \cup File]
      <4>1. n \in Nat
        BY <2>1
      <4> QED BY <2>1, <2>2, <3>2, <4>1, AppendedIsFile DEF TypeOK
    <3> QED BY <1>8, <3>1, <3>2 DEF Write
  <2>4. size' \in [Sink -> Nat] /\ written' \subseteq Line
    BY <1>8, <2>1 DEF Write, TypeOK
  <2> QED BY <1>8, <1>e, <2>3, <2>4 DEF Write, Goto, TypeOK
<1>9. CASE Close(s)
  BY <1>9, <1>e DEF Close, TypeOK
<1>10. CASE Discard(s) \/ Crash(s)
  <2>1. Forget(s) /\ crashes' \in Nat
    BY <1>10 DEF Discard, Crash, TypeOK
  <2> QED BY <1>e, <2>1 DEF Forget, Goto, TypeOK
<1> QED
  BY <1>s, <1>2, <1>3, <1>4, <1>5, <1>6, <1>7, <1>8, <1>9, <1>10

-----------------------------------------------------------------------------
(* Steps that leave the disk alone and at most close a file.               *)
Local ==
    /\ UNCHANGED disk
    /\ \A u \in Sink : file'[u] = file[u] \/ file'[u] = Nil

LEMMA LocalSteps ==
    ASSUME TypeOK, NEW s \in Sink,
           \/ \E b \in LineBytes : Emit(s, b)
           \/ Release(s) \/ Close(s) \/ Discard(s) \/ Crash(s)
    PROVE  Local
BY DEF Local, TypeOK, Emit, Release, Close, Discard, Crash, Forget, sinkVars

LEMMA RotationSteps ==
    ASSUME TypeOK, Position, Ordered(disk), Behind(disk, file),
           NEW s \in Sink, Cascade(s) \/ MoveCurrent(s)
    PROVE  Kept
<1> USE FileSinkAssumption
<1>t. FilesTyped /\ 0 \in Slot
  BY DEF TypeOK, FilesTyped, Slot
<1>1. CASE Cascade(s)
  <2>1. at[s] \in Archive
    BY <1>1 DEF Cascade, Position
  <2>2. CASE at[s] = Keep
    BY <1>1, <1>t, <2>1, <2>2, RemoveKeeps DEF Cascade, Slot
  <2>3. CASE at[s] # Keep
    <3>1. at[s] \in Slot /\ at[s] + 1 \in Slot
      BY <2>1, <2>3 DEF Slot, Archive
    <3> QED BY <1>1, <1>t, <2>3, <3>1, RenameKeeps DEF Cascade
  <2> QED BY <2>2, <2>3
<1>2. CASE MoveCurrent(s)
  <2>1. CASE Keep > 0
    <3>1. 0 + 1 \in Slot /\ Rename(0, 0 + 1)
      BY <1>2, <2>1 DEF MoveCurrent, Slot, Archive
    <3> QED BY <1>t, <3>1, RenameKeeps
  <2>2. CASE ~(Keep > 0)
    BY <1>2, <1>t, <2>2, RemoveKeeps DEF MoveCurrent
  <2> QED BY <2>1, <2>2
<1> QED BY <1>1, <1>2

(* What a write leaves on disk, in the slot of the sink's file.            *)
Appends(s, new) ==
    IF file[s] = Unlinked THEN UNCHANGED disk
    ELSE /\ file[s] \in Slot /\ new \in File
         /\ disk' = [disk EXCEPT ![file[s]] = new]

LEMMA WriteSteps ==
    ASSUME TypeOK, Position, NEW s \in Sink, Write(s)
    PROVE  /\ UNCHANGED <<file, at, lines>> /\ pc' = [pc EXCEPT ![s] = "idle"]
           /\ line[s] \in [number : Nat, bytes : Nat]
           /\ line' = [line EXCEPT ![s] = NoLine]
           /\ file[s] # Unlinked => file[s] \in Slot /\ disk[file[s]] \in File
           /\ \/ /\ Appends(s, WithLine(disk[file[s]], s, line[s]))
                 /\ size' = [size EXCEPT ![s] = @ + line[s].bytes]
              \/ /\ \E n \in Nat : Appends(s, WithFragment(disk[file[s]], n))
                 /\ UNCHANGED size
<1>1. line[s] \in [number : Nat, bytes : Nat] /\ line[s].bytes \in Nat
  BY DEF TypeOK
<1>2. file[s] # Unlinked => file[s] \in Slot /\ disk[file[s]] \in File
  BY DEF Write, Position, TypeOK
<1>3. CASE /\ disk' = IF file[s] = Unlinked THEN disk
                      ELSE [disk EXCEPT ![file[s]] = WithLine(@, s, line[s])]
           /\ size' = [size EXCEPT ![s] = @ + line[s].bytes]
  <2>1. Appends(s, WithLine(disk[file[s]], s, line[s]))
    BY <1>1, <1>2, <1>3, AppendedIsFile DEF Appends
  <2> QED BY <1>1, <1>2, <1>3, <2>1 DEF Write, Goto
<1>4. ASSUME NEW n \in 0..(line[s].bytes - 1), UNCHANGED size,
             disk' = IF file[s] = Unlinked THEN disk
                     ELSE [disk EXCEPT ![file[s]] = WithFragment(@, n)]
      PROVE  /\ \E k \in Nat : Appends(s, WithFragment(disk[file[s]], k))
             /\ UNCHANGED size
  <2>1. n \in Nat
    BY <1>1
  <2> QED BY <1>1, <1>2, <1>4, <2>1, AppendedIsFile DEF Appends
<1> QED BY <1>1, <1>2, <1>3, <1>4 DEF Write, Goto

-----------------------------------------------------------------------------
LEMMA PositionStep ==
    ASSUME TypeOK, Position, Ordered(disk), Behind(disk, file), [Next]_vars
    PROVE  Position'
<1> USE FileSinkAssumption DEF Busy
<1>t. FilesTyped
  BY DEF TypeOK, FilesTyped
<1>n. Nil \notin Slot
  BY DEF Nil, Slot, Archive
<1>1. CASE UNCHANGED vars
  BY <1>1 DEF Position, vars, sinkVars
<1>s. SUFFICES ASSUME NEW s \in Sink,
                      \/ NewFileSink(s) \/ \E b \in LineBytes : Emit(s, b)
                      \/ Release(s) \/ Cascade(s) \/ MoveCurrent(s) \/ Reopen(s) \/ Write(s)
                      \/ Close(s) \/ Discard(s) \/ Crash(s)
               PROVE  Position'
  BY <1>1 DEF Next
<1>2. CASE NewFileSink(s)
  <2>1. /\ file'[s] = 0 /\ 0 # Nil /\ disk'[0] # Missing
        /\ \A u \in Sink \ {s} : file'[u] = file[u]
        /\ \A k \in Slot : disk[k] # Missing => disk'[k] = disk[k]
    BY <1>2, <1>t, OpenKeeps DEF NewFileSink, Nil
  <2> QED BY <1>2, <2>1 DEF NewFileSink, Goto, Position, TypeOK
<1>3. ASSUME NEW b \in LineBytes, Emit(s, b) PROVE Position'
  <2>1. lines' = lines + 1 /\ lines \in Nat /\ UNCHANGED <<disk, file, at>>
    BY <1>3 DEF Emit, TypeOK, sinkVars
  <2>2. CASE closed[s] \/ file[s] = Nil
    BY <1>3, <2>1, <2>2 DEF Emit, Position, TypeOK
  <2>3. CASE ~(closed[s] \/ file[s] = Nil)
    <3>1. line' = [line EXCEPT ![s] = [number |-> lines + 1, bytes |-> b]]
      BY <1>3, <2>3 DEF Emit
    <3>2. pc' = [pc EXCEPT ![s] = "release"] \/ pc' = [pc EXCEPT ![s] = "write"]
      BY <1>3, <2>3 DEF Emit, Goto
    <3> QED BY <2>1, <2>3, <3>1, <3>2 DEF Position, TypeOK
  <2> QED BY <2>2, <2>3
<1>4. CASE Release(s)
  BY <1>4, <1>n DEF Release, Goto, Position, TypeOK, Archive
<1>5. CASE Cascade(s)
  <2>1. Follows
    BY <1>5, RotationSteps DEF Kept
  <2>2. at[s] # 1 => at[s] - 1 \in Archive
    BY <1>5 DEF Cascade, Position, Archive
  <2> QED BY <1>5, <2>1, <2>2 DEF Cascade, Goto, Position, TypeOK, Follows
<1>6. CASE MoveCurrent(s)
  <2>1. Follows
    BY <1>6, RotationSteps DEF Kept
  <2> QED BY <1>6, <2>1 DEF MoveCurrent, Goto, Position, TypeOK, Follows
<1>7. CASE Reopen(s)
  <2>1. CASE Open(s) /\ size' = [size EXCEPT ![s] = 0] /\ Goto(s, "write") /\ UNCHANGED line
    <3>1. /\ file'[s] = 0 /\ 0 # Nil /\ disk'[0] # Missing
          /\ \A u \in Sink \ {s} : file'[u] = file[u]
          /\ \A k \in Slot : disk[k] # Missing => disk'[k] = disk[k]
      BY <1>t, <2>1, OpenKeeps DEF Nil
    <3> QED BY <1>7, <2>1, <3>1 DEF Reopen, Goto, Position, TypeOK
  <2>2. CASE Goto(s, "idle") /\ line' = [line EXCEPT ![s] = NoLine]
             /\ UNCHANGED <<disk, file, size>>
    <3>1. pc' = [pc EXCEPT ![s] = "idle"] /\ UNCHANGED <<at, lines>>
      BY <1>7, <2>2 DEF Reopen, Goto
    <3>2. /\ pc'[s] = "idle" /\ file'[s] = file[s]
          /\ \A u \in Sink \ {s} : pc'[u] = pc[u] /\ line'[u] = line[u] /\ file'[u] = file[u]
      BY <2>2, <3>1 DEF TypeOK
    <3> QED BY <2>2, <3>1, <3>2 DEF Position
  <2> QED BY <1>7, <2>1, <2>2 DEF Reopen
<1>8. CASE Write(s)
  <2>1. \A k \in Slot : disk[k] # Missing => disk'[k] # Missing
    BY <1>8, WriteSteps DEF Appends, TypeOK
  <2>2. /\ UNCHANGED <<file, at, lines>> /\ pc' = [pc EXCEPT ![s] = "idle"]
        /\ line' = [line EXCEPT ![s] = NoLine]
    BY <1>8, WriteSteps
  <2> QED BY <2>1, <2>2 DEF Position, TypeOK
<1>9. CASE Close(s)
  BY <1>9, <1>n DEF Close, Position, TypeOK
<1>10. CASE Discard(s) \/ Crash(s)
  BY <1>10, <1>n DEF Discard, Crash, Forget, Goto, Position, TypeOK
<1> QED
  BY <1>s, <1>2, <1>3, <1>4, <1>5, <1>6, <1>7, <1>8, <1>9, <1>10

-----------------------------------------------------------------------------
(* The lines a step leaves on disk are older than those under way.         *)
LEMMA NewestKept ==
    ASSUME TypeOK, Newest, NothingNew, lines' \in Nat, lines' >= lines,
           \A u \in Sink : Busy(u)' =>
               line'[u].number = lines + 1 \/ (Busy(u) /\ line'[u].number = line[u].number)
    PROVE  Newest'
<1> SUFFICES ASSUME NEW i \in Slot, NEW m \in Held(disk'[i])
             PROVE  m.number <= lines' /\ (Busy(m.by)' => m.number < line'[m.by].number)
  BY DEF Newest
<1>1. PICK j \in Slot : m \in Held(disk[j])
  BY DEF NothingNew
<1>2. m.by \in Sink /\ m.number \in Nat
  BY <1>1, HeldAreLines DEF TypeOK, Line
<1>3. m.number <= lines /\ (Busy(m.by) => m.number < line[m.by].number)
  BY <1>1 DEF Newest
<1> QED BY <1>2, <1>3 DEF TypeOK

LEMMA WriteKeeps ==
    ASSUME TypeOK, Position, Newest, Ordered(disk), Behind(disk, file),
           NEW s \in Sink, Write(s)
    PROVE  Ordered(disk') /\ Behind(disk', file') /\ Newest'
<1> DEFINE i == file[s]
           l == [by |-> s, number |-> line[s].number]
<1>1. /\ UNCHANGED <<file, lines>>
      /\ lines \in Nat /\ ~Busy(s)' /\ \A u \in Sink : u # s => Busy(u)' = Busy(u) /\ line'[u] = line[u]
  BY WriteSteps DEF Busy, TypeOK
<1>2. l.number \in 1..lines /\ l.number \in Nat
  BY DEF Write, Position, Busy, TypeOK
<1>3. \A k \in Slot : \A m \in Held(disk[k]) : m.by = s => m.number < l.number
  BY DEF Newest, Write, Busy
<1>4. CASE UNCHANGED disk
  BY <1>1, <1>4, NewestKept, NoChangeKeeps DEF Kept, Busy, Ordered, Behind, NothingNew
<1>5. ASSUME NEW new \in File, i \in Slot, disk[i] \in File,
             disk' = [disk EXCEPT ![i] = new],
             InOrder(new), \A m \in Held(new) : m \in Held(disk[i]) \/ m = l
      PROVE  Ordered(disk') /\ Behind(disk', file') /\ Newest'
  <2>1. \A k \in Slot : disk'[k] = IF k = i THEN new ELSE disk[k]
    BY <1>5 DEF TypeOK
  <2>2. \A k \in Slot : k < i => \A m \in Held(disk[k]) : m.by # s
    BY <1>5 DEF Behind
  <2>3. Ordered(disk')
    <3>1. \A k \in Slot : InOrder(disk'[k])
      BY <1>5, <2>1 DEF Ordered
    <3>2. ASSUME NEW j \in Slot, NEW k \in Slot, j < k,
                 NEW m \in Held(disk'[j]), NEW n \in Held(disk'[k])
          PROVE  Earlier(n, m)
      <4>1. j \in Int /\ k \in Int /\ i \in Int
        BY <1>5, FileSinkAssumption DEF Slot, Archive
      <4>2. CASE m \in Held(disk[j]) /\ n \in Held(disk[k])
        BY <3>2, <4>2 DEF Ordered
      <4>3. CASE k = i /\ n = l
        BY <1>5, <2>1, <2>2, <3>2, <4>1, <4>3 DEF Earlier
      <4>4. CASE j = i /\ m = l
        <5>1. n \in Held(disk[k])
          BY <2>1, <3>2, <4>1, <4>4
        <5> QED BY <1>3, <4>4, <5>1 DEF Earlier
      <4> QED BY <1>5, <2>1, <3>2, <4>1, <4>2, <4>3, <4>4
    <3> QED BY <3>1, <3>2 DEF Ordered
  <2>4. Behind(disk', file')
    <3> SUFFICES ASSUME NEW u \in Sink, file[u] \in Slot, NEW k \in Slot, k < file[u],
                        NEW m \in Held(disk'[k])
                 PROVE  m.by # u
      BY <1>1 DEF Behind
    <3>1. CASE m \in Held(disk[k])
      BY <3>1 DEF Behind
    <3>2. CASE k = i /\ m = l
      <4>1. k \in Int
        BY FileSinkAssumption DEF Slot, Archive
      <4>2. u # s
        BY <3>2, <4>1
      <4> QED BY <3>2, <4>2
    <3> QED BY <1>5, <2>1, <3>1, <3>2
  <2>5. Newest'
    <3> SUFFICES ASSUME NEW k \in Slot, NEW m \in Held(disk'[k])
                 PROVE  m.number <= lines' /\ (Busy(m.by)' => m.number < line'[m.by].number)
      BY DEF Newest
    <3>1. CASE m \in Held(disk[k])
      <4>1. m.by \in Sink
        BY <3>1, HeldAreLines DEF TypeOK, Line
      <4> QED BY <1>1, <3>1, <4>1 DEF Newest
    <3>2. CASE m = l
      BY <1>1, <1>2, <3>2
    <3> QED BY <1>5, <2>1, <3>1, <3>2
  <2> QED BY <2>3, <2>4, <2>5
<1>6. CASE Appends(s, WithLine(disk[i], s, line[s])) /\ i # Unlinked
  <2>1. i \in Slot /\ disk[i] \in File /\ WithLine(disk[i], s, line[s]) \in File
    BY <1>6, WriteSteps DEF Appends
  <2>2. /\ InOrder(WithLine(disk[i], s, line[s]))
        /\ \A m \in Held(WithLine(disk[i], s, line[s])) : m \in Held(disk[i]) \/ m = l
    BY <1>3, <2>1, WriteSteps, AppendKeepsOrder, FileSinkAssumption DEF Ordered
  <2> QED BY <1>5, <1>6, <2>1, <2>2 DEF Appends
<1>7. ASSUME NEW n \in Nat, Appends(s, WithFragment(disk[i], n)), i # Unlinked
      PROVE  Ordered(disk') /\ Behind(disk', file') /\ Newest'
  <2>1. i \in Slot /\ disk[i] \in File /\ WithFragment(disk[i], n) \in File
    BY <1>7, WriteSteps DEF Appends
  <2>2. WithFragment(disk[i], n).lines = disk[i].lines
    BY <2>1, WriteSteps, AppendedIsFile
  <2>3. /\ InOrder(WithFragment(disk[i], n))
        /\ \A m \in Held(WithFragment(disk[i], n)) : m \in Held(disk[i])
    BY <2>1, <2>2, FileSinkAssumption DEF Ordered, InOrder, Held
  <2> QED BY <1>5, <1>7, <2>1, <2>3 DEF Appends
<1> QED BY <1>4, <1>6, <1>7, WriteSteps DEF Appends

(* The order of the archives: steps that leave the disk alone, that move   *)
(* files, that open one, and that write.                                   *)
LEMMA OrderStep ==
    ASSUME TypeOK, Position, Newest, Ordered(disk), Behind(disk, file), [Next]_vars
    PROVE  Ordered(disk') /\ Behind(disk', file') /\ Newest'
<1>t. FilesTyped /\ lines \in Nat
  BY DEF TypeOK, FilesTyped
<1>n. Nil \notin Slot
  BY FileSinkAssumption DEF Nil, Slot, Archive
<1>1. CASE UNCHANGED vars
  BY <1>1 DEF vars, sinkVars, Ordered, Behind, Newest, Busy
<1>s. SUFFICES ASSUME NEW s \in Sink,
                      \/ NewFileSink(s) \/ \E b \in LineBytes : Emit(s, b)
                      \/ Release(s) \/ Cascade(s) \/ MoveCurrent(s) \/ Reopen(s) \/ Write(s)
                      \/ Close(s) \/ Discard(s) \/ Crash(s)
               PROVE  Ordered(disk') /\ Behind(disk', file') /\ Newest'
  BY <1>1 DEF Next
<1>2. ASSUME Local PROVE Ordered(disk') /\ Behind(disk', file') /\ NothingNew
  BY <1>2, <1>n DEF Local, Ordered, Behind, NothingNew
<1>3. ASSUME NEW b \in LineBytes, Emit(s, b)
      PROVE  Ordered(disk') /\ Behind(disk', file') /\ Newest'
  <2>1. lines' = lines + 1 /\ \A u \in Sink \ {s} : pc'[u] = pc[u] /\ line'[u] = line[u]
    BY <1>3 DEF Emit, Goto, TypeOK
  <2>2. Busy(s)' => line'[s].number = lines + 1
    BY <1>3 DEF Emit, Goto, TypeOK, Busy
  <2>3. Ordered(disk') /\ Behind(disk', file') /\ NothingNew
    BY <1>2, <1>3, LocalSteps
  <2> QED BY <1>t, <2>1, <2>2, <2>3, NewestKept DEF Busy
<1>4. CASE Release(s) \/ Close(s) \/ Discard(s) \/ Crash(s)
  <2>1. Ordered(disk') /\ Behind(disk', file') /\ NothingNew
    BY <1>2, <1>4, LocalSteps
  <2>2. lines' = lines /\ \A u \in Sink : Busy(u)' => Busy(u) /\ line'[u] = line[u]
    BY <1>4 DEF Release, Close, Discard, Crash, Forget, Goto, TypeOK, Busy
  <2> QED BY <1>t, <2>1, <2>2, NewestKept
<1>5. CASE Cascade(s) \/ MoveCurrent(s)
  <2>1. Kept
    BY <1>5, RotationSteps
  <2>2. lines' = lines /\ \A u \in Sink : Busy(u)' => Busy(u) /\ line'[u] = line[u]
    BY <1>5 DEF Cascade, MoveCurrent, Goto, TypeOK, Busy
  <2> QED BY <1>t, <2>1, <2>2, NewestKept DEF Kept
<1>6. CASE NewFileSink(s) \/ Reopen(s)
  <2>1. Ordered(disk') /\ Behind(disk', file') /\ NothingNew
    <3>1. CASE Open(s)
      BY <1>t, <3>1, OpenKeeps
    <3>2. CASE UNCHANGED <<disk, file>>
      BY <3>2, NoChangeKeeps DEF Kept
    <3> QED BY <1>6, <3>1, <3>2 DEF NewFileSink, Reopen
  <2>2. lines' = lines /\ \A u \in Sink : Busy(u)' => Busy(u) /\ line'[u] = line[u]
    BY <1>6 DEF NewFileSink, Reopen, Goto, TypeOK, Busy
  <2> QED BY <1>t, <2>1, <2>2, NewestKept
<1> QED BY <1>s, <1>3, <1>4, <1>5, <1>6, WriteKeeps

-----------------------------------------------------------------------------
(* The size is set from an opened file or to zero, and grows by what the   *)
(* file grows by, or by less.  Moving a file does not change it.           *)
LEMMA SizeStep ==
    ASSUME TypeOK, Position, Ordered(disk), Behind(disk, file), SizeNeverOver, [Next]_vars
    PROVE  SizeNeverOver'
<1>t. FilesTyped /\ size \in [Sink -> Nat]
  BY DEF TypeOK, FilesTyped
<1>n. Nil \notin Slot /\ 0 \in Slot
  BY FileSinkAssumption DEF Nil, Slot, Archive
<1>1. CASE UNCHANGED vars
  BY <1>1 DEF vars, sinkVars, SizeNeverOver
<1>s. SUFFICES ASSUME NEW s \in Sink,
                      \/ NewFileSink(s) \/ \E b \in LineBytes : Emit(s, b)
                      \/ Release(s) \/ Cascade(s) \/ MoveCurrent(s) \/ Reopen(s) \/ Write(s)
                      \/ Close(s) \/ Discard(s) \/ Crash(s)
               PROVE  SizeNeverOver'
  BY <1>1 DEF Next
<1>2. CASE \/ \E b \in LineBytes : Emit(s, b)
          \/ Release(s) \/ Close(s) \/ Discard(s) \/ Crash(s)
  <2>1. Local
    BY <1>2, LocalSteps
  <2>2. \A u \in Sink : file'[u] # Nil =>
           size'[u] = size[u] /\ (pc'[u] \in {"idle", "write"} => pc[u] \in {"idle", "write"})
    BY <1>2 DEF Emit, Release, Close, Discard, Crash, Forget, Goto, TypeOK, sinkVars
  <2> QED BY <1>n, <2>1, <2>2 DEF Local, SizeNeverOver
<1>3. CASE Cascade(s) \/ MoveCurrent(s)
  <2>1. Follows
    BY <1>3, RotationSteps DEF Kept
  <2>2. file[s] = Nil /\ size' = size /\ \A u \in Sink \ {s} : pc'[u] = pc[u]
    BY <1>3 DEF Cascade, MoveCurrent, Position, Goto, TypeOK
  <2> QED BY <1>n, <2>1, <2>2 DEF Follows, SizeNeverOver
<1>4. ASSUME Open(s), size'[s] = 0 \/ size'[s] = disk'[0].bytes,
             \A u \in Sink \ {s} : size'[u] = size[u] /\ pc'[u] = pc[u]
      PROVE  SizeNeverOver'
  <2>1. /\ file'[s] = 0 /\ disk'[0] \in File
        /\ \A u \in Sink \ {s} : file'[u] = file[u]
        /\ \A k \in Slot : disk[k] # Missing => disk'[k] = disk[k]
    BY <1>t, <1>4, OpenKeeps
  <2>2. disk'[0].bytes \in Nat
    BY <2>1 DEF File
  <2>3. size'[s] <= disk'[file'[s]].bytes
    BY <1>4, <2>1, <2>2
  <2>4. \A u \in Sink \ {s} : file[u] \in Slot => disk'[file[u]] = disk[file[u]]
    BY <2>1 DEF Position
  <2> QED BY <1>4, <2>1, <2>3, <2>4 DEF SizeNeverOver
<1>5. CASE NewFileSink(s)
  BY <1>4, <1>5, <1>t DEF NewFileSink, Goto, TypeOK
<1>6. CASE Reopen(s)
  <2>1. CASE Open(s) /\ size' = [size EXCEPT ![s] = 0] /\ Goto(s, "write") /\ UNCHANGED line
    BY <1>4, <1>t, <2>1 DEF Goto, TypeOK
  <2>2. CASE Goto(s, "idle") /\ line' = [line EXCEPT ![s] = NoLine] /\ UNCHANGED <<disk, file, size>>
    <3>1. file[s] \notin Slot /\ \A u \in Sink \ {s} : pc'[u] = pc[u]
      BY <1>6, <1>n, <2>2 DEF Reopen, Goto, Position, TypeOK
    <3> QED BY <2>2, <3>1 DEF SizeNeverOver
  <2> QED BY <1>6, <2>1, <2>2 DEF Reopen
<1>7. CASE Write(s)
  <2> DEFINE i == file[s]
  <2>1. /\ UNCHANGED file /\ pc[s] = "write" /\ \A u \in Sink \ {s} : pc'[u] = pc[u]
        /\ line[s] \in [number : Nat, bytes : Nat]
        /\ i # Unlinked => i \in Slot /\ disk[i] \in File /\ disk[i].bytes \in Nat
    <3>1. /\ pc[s] = "write" /\ UNCHANGED file /\ pc' = [pc EXCEPT ![s] = "idle"]
          /\ line[s] \in [number : Nat, bytes : Nat]
          /\ i # Unlinked => i \in Slot /\ disk[i] \in File
      BY <1>7, WriteSteps DEF Write
    <3>2. \A f \in File : f.bytes \in Nat
      BY DEF File
    <3>3. \A u \in Sink \ {s} : pc'[u] = pc[u]
      BY <3>1 DEF TypeOK
    <3> QED BY <3>1, <3>2, <3>3
  <2>2. ASSUME NEW new \in File, NEW n \in Nat, i \in Slot, disk' = [disk EXCEPT ![i] = new],
               new.bytes = disk[i].bytes + n, i # Unlinked,
               size'[s] <= size[s] + n, size'[s] \in Nat,
               \A u \in Sink \ {s} : size'[u] = size[u]
        PROVE  SizeNeverOver'
    <3>1. \A k \in Slot : disk'[k] = IF k = i THEN new ELSE disk[k]
      BY <1>t, <2>2 DEF FilesTyped
    <3>2. size[s] <= disk[i].bytes /\ size[s] \in Nat
      BY <1>t, <2>1, <2>2 DEF SizeNeverOver
    <3>3. size'[s] <= disk'[i].bytes
      BY <2>1, <2>2, <3>1, <3>2
    <3>4. ASSUME NEW u \in Sink \ {s}, file[u] \in Slot, pc[u] \in {"idle", "write"}
          PROVE  size'[u] <= disk'[file[u]].bytes
      <4>1. size[u] <= disk[file[u]].bytes /\ size[u] \in Nat
        BY <1>t, <3>4 DEF SizeNeverOver
      <4> QED BY <2>1, <2>2, <3>1, <3>4, <4>1
    <3> QED BY <2>1, <3>3, <3>4 DEF SizeNeverOver
  <2>3. CASE i = Unlinked
    <3>1. disk' = disk /\ Unlinked \notin Slot /\ \A u \in Sink \ {s} : size'[u] = size[u]
      BY <1>7, <1>t, <2>3, WriteSteps, FileSinkAssumption DEF Appends, Unlinked, Slot, Archive
    <3> QED BY <2>1, <2>3, <3>1 DEF SizeNeverOver
  <2>4. CASE /\ i # Unlinked /\ Appends(s, WithLine(disk[i], s, line[s]))
             /\ size' = [size EXCEPT ![s] = @ + line[s].bytes]
    <3>1. /\ WithLine(disk[i], s, line[s]).bytes = disk[i].bytes + line[s].bytes
          /\ line[s].bytes \in Nat
      BY <2>1, <2>4, AppendedIsFile
    <3>2. /\ size'[s] = size[s] + line[s].bytes /\ size[s] \in Nat
          /\ \A u \in Sink \ {s} : size'[u] = size[u]
      BY <1>t, <2>4
    <3> QED BY <2>2, <2>4, <3>1, <3>2 DEF Appends
  <2>5. ASSUME i # Unlinked, NEW n \in Nat, Appends(s, WithFragment(disk[i], n)), UNCHANGED size
        PROVE  SizeNeverOver'
    <3>1. WithFragment(disk[i], n).bytes = disk[i].bytes + n
      BY <2>1, <2>5, AppendedIsFile
    <3>2. size[s] \in Nat /\ size[s] <= size[s] + n
      BY <1>t
    <3> QED BY <2>2, <2>5, <3>1, <3>2 DEF Appends
  <2> QED BY <1>7, <2>3, <2>4, <2>5, WriteSteps
<1> QED BY <1>s, <1>2, <1>3, <1>5, <1>6, <1>7

(* The invariant is inductive.                                             *)
THEOREM InvStep == Inv /\ [Next]_vars => Inv'
<1> SUFFICES ASSUME Inv, [Next]_vars PROVE Inv'
  OBVIOUS
<1>1. TypeOK' /\ Position' /\ SizeNeverOver'
  BY TypeStep, PositionStep, SizeStep DEF Inv
<1>2. Ordered(disk') /\ Behind(disk', file') /\ Newest'
  BY OrderStep DEF Inv
<1> QED BY <1>1, <1>2 DEF Inv, Ordered, Behind

(* The invariant holds in every reachable state.                           *)
THEOREM Invariance == Spec => []Inv
BY InitInv, InvStep, PTL DEF Spec

(* The fields of the sinks and the files on disk keep their types.         *)
THEOREM TypeCorrect == Spec => []TypeOK
<1>1. Inv => TypeOK
  BY DEF Inv
<1> QED BY <1>1, Invariance, PTL

(* The archives keep the lines of each sink in the order it emitted them,  *)
(* and none twice, for any number of sinks on the path, every limit,       *)
(* number of archives and line length, whichever system calls fail and     *)
(* wherever a process dies (rotateLocked, file_sink.go:150-178).           *)
THEOREM ArchiveOrderCorrect == Spec => []ArchiveOrder
<1>1. Inv => ArchiveOrder
  BY OrderedDisk DEF Inv
<1> QED BY <1>1, Invariance, PTL

(* The size a sink goes by never exceeds the length of the file it appends *)
(* to, even when another sink has moved that file: no rotation is early    *)
(* (file_sink.go:65-76, 108-118, 176).                                     *)
THEOREM SizeNeverOverCorrect == Spec => []SizeNeverOver
<1>1. Inv => SizeNeverOver
  BY DEF Inv
<1> QED BY <1>1, Invariance, PTL

-----------------------------------------------------------------------------
(***************************************************************************)
(* A sink alone on its path whose renames and writes work, for any limit,  *)
(* any number of archives, any lengths of lines, and wherever the process  *)
(* dies.  Opening a file may fail, and so may removing one as long as      *)
(* archives are kept: the next rename then replaces it.                    *)
(***************************************************************************)
Alone == \A s, t \in Sink : s = t

RotationWorks ==
    /\ MayFail \cap {"rename", "write"} = {}
    /\ "remove" \in MayFail => Keep > 0

(* A file ends in a whole line, is empty iff it has no bytes, and is       *)
(* bounded as FileBounded says.                                            *)
Sound(f) ==
    /\ f.torn = FALSE
    /\ f.bytes = 0 => f.lines = <<>>
    /\ MaxBytes > 0 => f.bytes <= MaxBytes \/ Len(f.lines) = 1

SoundFiles == \A i \in Slot : disk[i] # Missing => Sound(disk[i])

(* The sink has the current file open and counts its bytes; a rotation     *)
(* leaves no current file behind.                                          *)
Exact ==
    \A s \in Sink :
        /\ file[s] # Nil /\ pc[s] \in {"idle", "release", "write"} =>
              file[s] = 0 /\ size[s] = disk[0].bytes
        /\ pc[s] = "reopen" => disk[0] = Missing

(* A line that is about to be written fits, or is the first of its file.   *)
Fits ==
    \A s \in Sink :
        /\ Busy(s) => line[s].bytes > 0
        /\ pc[s] = "write" /\ MaxBytes > 0 =>
              size[s] + line[s].bytes <= MaxBytes \/ size[s] = 0

(* The cascade moves each archive to a slot that is free, but the oldest.  *)
Vacated ==
    \A s \in Sink :
        /\ pc[s] = "cascade" /\ at[s] + 1 < Keep => disk[at[s] + 1] = Missing
        /\ pc[s] = "move" /\ Keep > 1 => disk[1] = Missing

(* What was written is older than what is being written.                   *)
Known ==
    \A m \in written : /\ m.number <= lines
                       /\ Busy(m.by) => m.number < line[m.by].number

OnDisk(d) == UNION {Held(d[i]) : i \in Slot}

Lost(w, d) == \A m \in w \ OnDisk(d), n \in OnDisk(d) : Earlier(m, n)

LoneInv ==
    Inv /\ SoundFiles /\ Exact /\ Fits /\ Vacated /\ Known /\ Lost(written, disk)

LEMMA RetainedOnDisk == Retained = OnDisk(disk)
<1>1. ASSUME NEW i \in Slot PROVE LinesIn(i) = Held(disk[i])
  <2>1. CASE disk[i] = Missing
    BY <2>1 DEF Held, LinesIn, Stored
  <2>2. CASE disk[i] # Missing
    BY <2>2 DEF Held, LinesIn, Stored
  <2> QED BY <2>1, <2>2
<1> QED BY <1>1 DEF Retained, OnDisk

LEMMA Constants ==
    /\ 0 \in Slot /\ Nil \notin Slot /\ Unlinked \notin Slot /\ Nil # Unlinked
    /\ Slot \subseteq Int /\ \A i \in Slot : i >= 0 /\ (i = 0 \/ i <= Keep)
    /\ Keep > 0 => Keep \in Slot /\ 1 \in Slot
    /\ Keep \in Int
    /\ ~(Keep > 0) => Slot = {0}
BY FileSinkAssumption DEF Slot, Archive, Nil, Unlinked

LEMMA SoundEmpty == Sound(Empty) /\ Empty.bytes = 0 /\ Held(Empty) = {}
BY FileSinkAssumption, HeldOfNothing DEF Sound, Empty

(* A step that neither writes nor loses a line.                            *)
LEMMA LostKept ==
    ASSUME Lost(written, disk), written' = written, OnDisk(disk') = OnDisk(disk)
    PROVE  Lost(written', disk')
BY DEF Lost

THEOREM LoneInit == Init => LoneInv
<1> SUFFICES ASSUME Init PROVE LoneInv
  OBVIOUS
<1>1. Inv
  BY InitInv
<1>2. \A s \in Sink : pc[s] = "down" /\ file[s] = Nil
  BY DEF Init
<1>3. \A i \in Slot : disk[i] = Missing
  BY DEF Init
<1>4. written = {}
  BY DEF Init
<1>5. SoundFiles /\ Exact /\ Fits /\ Vacated /\ Known
  BY <1>2, <1>3, <1>4 DEF SoundFiles, Exact, Fits, Vacated, Known, Busy
<1>6. Lost(written, disk)
  BY <1>4 DEF Lost
<1> QED BY <1>1, <1>5, <1>6 DEF LoneInv

-----------------------------------------------------------------------------
(* Renaming a file to the next slot, which is free or holds the oldest     *)
(* archive, loses nothing but the oldest.                                  *)
LEMMA RenameLoses ==
    ASSUME LoneInv, RotationWorks, NEW i \in Slot, i + 1 \in Slot,
           Rename(i, i + 1), disk[i + 1] = Missing \/ i + 1 = Keep,
           written' = written
    PROVE  /\ SoundFiles' /\ Lost(written', disk') /\ disk'[i] = Missing
           /\ \A k \in Slot : k > i + 1 => disk'[k] = disk[k]
<1>t. disk \in [Slot -> {Missing} \cup File] /\ Slot \subseteq Int /\ i # i + 1
  BY Constants DEF LoneInv, Inv, TypeOK
<1>1. \A k \in Slot : disk'[k] = IF k = i THEN Missing
                                 ELSE IF k = i + 1 THEN IF disk[i] = Missing THEN disk[k] ELSE disk[i]
                                 ELSE disk[k]
  BY <1>t DEF Rename, RotationWorks
<1>2. SoundFiles'
  BY <1>1 DEF LoneInv, SoundFiles, Sound
<1>3. CASE disk[i] = Missing \/ disk[i + 1] = Missing
  <2>1. OnDisk(disk') = OnDisk(disk)
    <3>1. ASSUME NEW m \in OnDisk(disk) PROVE m \in OnDisk(disk')
      <4>1. PICK k \in Slot : m \in Held(disk[k])
        BY DEF OnDisk
      <4>2. disk[k] # Missing
        BY <4>1, HeldOfNothing
      <4>3. CASE k = i
        <5>1. disk'[i + 1] = disk[i]
          BY <1>1, <1>t, <4>2, <4>3
        <5> QED BY <4>1, <4>3, <5>1 DEF OnDisk
      <4>4. CASE k # i
        <5>1. disk'[k] = disk[k]
          BY <1>1, <1>3, <4>2, <4>4
        <5> QED BY <4>1, <5>1 DEF OnDisk
      <4> QED BY <4>3, <4>4
    <3>2. ASSUME NEW m \in OnDisk(disk') PROVE m \in OnDisk(disk)
      <4>1. PICK k \in Slot : m \in Held(disk'[k])
        BY DEF OnDisk
      <4>2. disk'[k] = disk[k] \/ disk'[k] = disk[i] \/ disk'[k] = Missing
        BY <1>1
      <4> QED BY <4>1, <4>2, HeldOfNothing DEF OnDisk
    <3> QED BY <3>1, <3>2
  <2> QED BY <1>1, <1>2, <2>1, <1>t, LostKept DEF LoneInv
<1>4. CASE disk[i] # Missing /\ i + 1 = Keep
  <2>1. ASSUME NEW m \in written \ OnDisk(disk'), NEW n \in OnDisk(disk')
        PROVE  Earlier(m, n)
    <3>1. PICK k \in Slot : n \in Held(disk'[k]) /\ k # i
      <4>1. PICK k \in Slot : n \in Held(disk'[k])
        BY DEF OnDisk
      <4> QED BY <1>1, <4>1, HeldOfNothing
    <3>2. PICK j \in Slot : n \in Held(disk[j]) /\ j < Keep
      <4>1. CASE k = i + 1
        <5>1. disk'[k] = disk[i] /\ i < Keep
          BY <1>1, <1>4, <1>t, <4>1
        <5> QED BY <3>1, <5>1
      <4>2. CASE k # i + 1
        <5>1. disk'[k] = disk[k] /\ k < Keep
          BY <1>1, <1>4, <1>t, <3>1, <4>2, Constants
        <5> QED BY <3>1, <5>1
      <4> QED BY <4>1, <4>2
    <3>3. n \in OnDisk(disk)
      BY <3>2 DEF OnDisk
    <3>4. CASE m \notin OnDisk(disk)
      BY <3>3, <3>4 DEF LoneInv, Lost
    <3>5. CASE m \in OnDisk(disk)
      <4>1. PICK q \in Slot : m \in Held(disk[q])
        BY <3>5 DEF OnDisk
      <4>2. q = i + 1
        <5>1. q = i => disk'[i + 1] = disk[q]
          BY <1>1, <1>4, <1>t
        <5>2. q # i /\ q # i + 1 => disk'[q] = disk[q]
          BY <1>1
        <5> QED BY <4>1, <5>1, <5>2 DEF OnDisk
      <4> QED BY <1>4, <3>2, <4>1, <4>2 DEF LoneInv, Inv, Ordered
    <3> QED BY <3>4, <3>5
  <2>2. Lost(written', disk')
    BY <2>1 DEF Lost
  <2> QED BY <1>1, <1>2, <1>t, <2>2
<1> QED BY <1>3, <1>4

(* Removing the file in the last slot loses nothing but the oldest.        *)
LEMMA RemoveLoses ==
    ASSUME LoneInv, NEW i \in Slot, \A k \in Slot : k <= i, Remove(i), written' = written
    PROVE  /\ SoundFiles' /\ Lost(written', disk')
           /\ \A k \in Slot : k # i => disk'[k] = disk[k]
           /\ disk'[i] = Missing \/ "remove" \in MayFail
<1>t. disk \in [Slot -> {Missing} \cup File] /\ Slot \subseteq Int
  BY Constants DEF LoneInv, Inv, TypeOK
<1>1. CASE UNCHANGED <<disk, file>> /\ "remove" \in MayFail
  BY <1>1 DEF LoneInv, SoundFiles, Lost, OnDisk
<1>2. CASE disk' = [disk EXCEPT ![i] = Missing]
  <2>1. \A k \in Slot : disk'[k] = IF k = i THEN Missing ELSE disk[k]
    BY <1>2, <1>t
  <2>2. ASSUME NEW m \in written \ OnDisk(disk'), NEW n \in OnDisk(disk')
        PROVE  Earlier(m, n)
    <3>1. PICK k \in Slot : n \in Held(disk'[k])
      BY DEF OnDisk
    <3>2. n \in Held(disk[k]) /\ k < i
      BY <1>t, <2>1, <3>1, HeldOfNothing
    <3>3. CASE m \notin OnDisk(disk)
      BY <3>2, <3>3 DEF LoneInv, Lost, OnDisk
    <3>4. CASE m \in OnDisk(disk)
      <4>1. PICK q \in Slot : m \in Held(disk[q])
        BY <3>4 DEF OnDisk
      <4>2. q = i
        BY <2>1, <4>1 DEF OnDisk
      <4> QED BY <3>2, <4>1, <4>2 DEF LoneInv, Inv, Ordered
    <3> QED BY <3>3, <3>4
  <2>3. SoundFiles'
    BY <2>1 DEF LoneInv, SoundFiles, Sound
  <2>4. Lost(written', disk')
    BY <2>2 DEF Lost
  <2> QED BY <2>1, <2>3, <2>4
<1> QED BY <1>1, <1>2 DEF Remove

(* Opening the path loses nothing.                                         *)
LEMMA OpenLoses ==
    ASSUME LoneInv, NEW s \in Sink, Open(s), written' = written
    PROVE  /\ SoundFiles' /\ Lost(written', disk') /\ file'[s] = 0
           /\ disk'[0] = IF disk[0] = Missing THEN Empty ELSE disk[0]
           /\ \A k \in Slot : k # 0 => disk'[k] = disk[k]
<1>t. /\ disk \in [Slot -> {Missing} \cup File] /\ 0 \in Slot
      /\ file \in [Sink -> Slot \cup {Nil, Unlinked}]
  BY Constants DEF LoneInv, Inv, TypeOK
<1>1. \A k \in Slot : disk'[k] = IF k = 0 /\ disk[0] = Missing THEN Empty ELSE disk[k]
  BY <1>t DEF Open
<1>2. SoundFiles'
  BY <1>1, SoundEmpty DEF LoneInv, SoundFiles, Sound
<1>3. \A k \in Slot : Held(disk'[k]) = Held(disk[k])
  BY <1>1, SoundEmpty, HeldOfNothing
<1>4. OnDisk(disk') = OnDisk(disk)
  BY <1>3 DEF OnDisk
<1>5. file'[s] = 0
  BY <1>t DEF Open
<1> QED BY <1>1, <1>2, <1>4, <1>5, <1>t, LostKept DEF LoneInv

(* A line that fits, or is the first of its file, is kept and is newer     *)
(* than all that was lost.                                                 *)
LEMMA WriteLoses ==
    ASSUME LoneInv, RotationWorks, NEW s \in Sink, Write(s)
    PROVE  /\ SoundFiles' /\ Lost(written', disk')
           /\ file'[s] = 0 /\ size'[s] = disk'[0].bytes
           /\ \A m \in written' : m.number <= lines'
<1> DEFINE l == [by |-> s, number |-> line[s].number]
           new == WithLine(disk[0], s, line[s])
<1>t. /\ disk \in [Slot -> {Missing} \cup File] /\ 0 \in Slot /\ lines \in Nat
      /\ size \in [Sink -> Nat] /\ line[s] \in [number : Nat, bytes : Nat]
      /\ pc[s] = "write" /\ Busy(s)
  BY Constants DEF LoneInv, Inv, TypeOK, Write, Busy
<1>1. file[s] = 0 /\ size[s] = disk[0].bytes /\ disk[0] \in File
  BY <1>t DEF LoneInv, Inv, Exact, Position
<1>2. /\ disk' = [disk EXCEPT ![0] = new] /\ size' = [size EXCEPT ![s] = @ + line[s].bytes]
      /\ written' = written \cup {l} /\ UNCHANGED <<file, lines>>
  BY <1>1, <1>t, Constants DEF Write, RotationWorks, Unlinked
<1>3. disk[0].torn = FALSE /\ (disk[0].bytes = 0 => disk[0].lines = <<>>) /\ disk[0] # Missing
  BY <1>1, <1>t, FileSinkAssumption DEF LoneInv, SoundFiles, Sound
<1>4. /\ new.lines = Append(disk[0].lines, l) /\ new.bytes = disk[0].bytes + line[s].bytes
      /\ new.torn = FALSE
  BY <1>3 DEF WithLine
<1>5. disk[0].lines \in Seq(Line) /\ disk[0].bytes \in Nat /\ l \in Line
  BY <1>1, <1>t DEF File, Line
<1>6. \A k \in Slot : disk'[k] = IF k = 0 THEN new ELSE disk[k]
  BY <1>2, <1>t
<1>7. Sound(new)
  <2>1. line[s].bytes > 0 /\ (MaxBytes > 0 => size[s] + line[s].bytes <= MaxBytes \/ size[s] = 0)
    BY <1>t DEF LoneInv, Fits
  <2>2. size[s] = 0 => Len(new.lines) = 1
    BY <1>1, <1>3, <1>4, <1>5
  <2> QED BY <1>1, <1>4, <1>5, <1>t, <2>1, <2>2 DEF Sound
<1>8. SoundFiles'
  BY <1>6, <1>7 DEF LoneInv, SoundFiles, Sound
<1>9. Held(new) = Held(disk[0]) \cup {l}
  <2>1. new # Missing
    BY <1>1, <1>t, AppendedIsFile, FileSinkAssumption
  <2>2. /\ DOMAIN new.lines = 1..(Len(disk[0].lines) + 1)
        /\ DOMAIN disk[0].lines = 1..Len(disk[0].lines) /\ Len(disk[0].lines) \in Nat
        /\ \A k \in DOMAIN new.lines :
              new.lines[k] = IF k \in DOMAIN disk[0].lines THEN disk[0].lines[k] ELSE l
    BY <1>4, <1>5
  <2> HIDE DEF new, l
  <2>3. ASSUME NEW m \in Held(disk[0]) PROVE m \in Held(new)
    BY <2>1, <2>2, <1>3 DEF Held
  <2>4. l \in Held(new)
    <3>1. new.lines[Len(disk[0].lines) + 1] = l /\ Len(disk[0].lines) + 1 \in DOMAIN new.lines
      BY <2>2
    <3> QED BY <2>1, <3>1 DEF Held
  <2>5. ASSUME NEW m \in Held(new) PROVE m \in Held(disk[0]) \cup {l}
    BY <2>1, <2>2, <1>3 DEF Held
  <2> QED BY <2>3, <2>4, <2>5
<1>10. OnDisk(disk') = OnDisk(disk) \cup {l}
  <2> HIDE DEF new, l
  <2>1. \A k \in Slot : Held(disk'[k]) = IF k = 0 THEN Held(disk[0]) \cup {l} ELSE Held(disk[k])
    BY <1>6, <1>9
  <2> QED BY <2>1, <1>t DEF OnDisk
<1>11. \A m \in written : Earlier(m, l)
  BY <1>t DEF LoneInv, Known, Earlier
<1>12. Lost(written', disk')
  BY <1>2, <1>10, <1>11 DEF LoneInv, Lost
<1>13. \A m \in written' : m.number <= lines'
  <2>1. l.number <= lines
    BY <1>t DEF LoneInv, Inv, Position
  <2> QED BY <1>2, <2>1 DEF LoneInv, Known
<1> QED BY <1>1, <1>2, <1>4, <1>6, <1>8, <1>12, <1>13, <1>t

-----------------------------------------------------------------------------
(* What a step leaves to show beside the invariant of any sinks.           *)
Rest == SoundFiles /\ Exact /\ Fits /\ Vacated /\ Known /\ Lost(written, disk)

(* A sink that stays busy goes on with its line.                           *)
LEMMA KnownKept ==
    ASSUME LoneInv, Alone, NEW s \in Sink, UNCHANGED <<written, lines>>,
           Busy(s)' => Busy(s) /\ line'[s] = line[s]
    PROVE  Known'
<1> SUFFICES ASSUME NEW m \in written
             PROVE  m.number <= lines /\ (Busy(m.by)' => m.number < line'[m.by].number)
  BY DEF Known
<1>1. m.by = s
  BY DEF LoneInv, Inv, TypeOK, Line, Alone
<1>2. m.number <= lines /\ (Busy(m.by) => m.number < line[m.by].number)
  BY DEF LoneInv, Known
<1> QED BY <1>1, <1>2, Zenon

(* Steps that change neither files nor what was written.                   *)
LEMMA LoneLocal ==
    ASSUME LoneInv, Alone, NEW s \in Sink,
           \/ \E b \in LineBytes : Emit(s, b)
           \/ Release(s) \/ Close(s) \/ Discard(s) \/ Crash(s)
    PROVE  Rest'
<1>t. /\ pc \in [Sink -> Phase] /\ file \in [Sink -> Slot \cup {Nil, Unlinked}]
      /\ size \in [Sink -> Nat] /\ line \in [Sink -> [number : Nat, bytes : Nat]]
      /\ at \in [Sink -> {0} \cup Archive] /\ lines \in Nat
      /\ LineBytes \subseteq Nat \ {0}
  BY FileSinkAssumption DEF LoneInv, Inv, TypeOK
<1>a. \A u \in Sink : u = s
  BY DEF Alone
<1>1. UNCHANGED <<disk, written>>
  BY DEF Emit, Release, Close, Discard, Crash, Forget
<1>2. SoundFiles' /\ Lost(written', disk')
  BY <1>1 DEF LoneInv, SoundFiles, Lost, OnDisk
<1>w. \A m \in written : m.number \in Nat /\ m.by = s
  BY <1>a DEF LoneInv, Inv, TypeOK, Line
<1>3. ASSUME NEW b \in LineBytes, Emit(s, b)
      PROVE  Exact' /\ Fits' /\ Vacated' /\ Known'
  <2>1. /\ UNCHANGED <<file, size, at, disk, written>> /\ lines' = lines + 1 /\ pc[s] = "idle"
    BY <1>3 DEF Emit, sinkVars
  <2>2. CASE closed[s] \/ file[s] = Nil
    <3>1. UNCHANGED <<line, pc>>
      BY <1>3, <2>2 DEF Emit
    <3> QED BY <1>a, <1>t, <1>w, <2>1, <3>1 DEF LoneInv, Exact, Fits, Vacated, Known, Busy
  <2>3. CASE ~(closed[s] \/ file[s] = Nil)
    <3>1. /\ line'[s] = [number |-> lines + 1, bytes |-> b]
          /\ pc'[s] = IF MustRotate(s, b) THEN "release" ELSE "write"
      BY <1>3, <2>3, <1>t DEF Emit, Goto
    <3>2. b \in Nat /\ b > 0 /\ size[s] \in Nat
      BY <1>t
    <3>3. Exact' /\ Vacated'
      BY <1>a, <2>1, <2>3, <3>1 DEF LoneInv, Exact, Vacated
    <3>4. Fits'
      BY <1>a, <2>1, <3>1, <3>2, FileSinkAssumption DEF Fits, Busy, MustRotate
    <3>5. Known'
      BY <1>a, <1>t, <1>w, <2>1, <3>1 DEF LoneInv, Known
    <3> QED BY <3>3, <3>4, <3>5
  <2> QED BY <2>2, <2>3
<1>4. CASE Release(s)
  <2>1. /\ UNCHANGED <<size, line, lines, written, disk>> /\ file'[s] = Nil
        /\ pc[s] = "release" /\ pc'[s] = IF Keep > 0 THEN "cascade" ELSE "move"
        /\ at'[s] = IF Keep > 0 THEN Keep ELSE 0
    BY <1>4, <1>t DEF Release, Goto
  <2>2. Exact' /\ Fits'
    BY <1>a, <2>1 DEF LoneInv, Exact, Fits, Busy
  <2>3. Vacated'
    BY <1>a, <2>1, FileSinkAssumption DEF Vacated
  <2>4. Known'
    BY <2>1, KnownKept DEF Busy
  <2> QED BY <1>2, <2>2, <2>3, <2>4 DEF Rest
<1>5. CASE Close(s)
  <2>1. UNCHANGED <<pc, size, at, line, lines, written, disk>> /\ file'[s] = Nil
    BY <1>5, <1>t DEF Close
  <2>2. pc[s] = "idle" /\ ~Busy(s)'
    BY <1>5, <2>1 DEF Close, Busy
  <2>3. Exact' /\ Fits' /\ Vacated'
    BY <1>a, <2>1, <2>2 DEF Exact, Fits, Vacated
  <2> QED BY <1>2, <2>1, <2>2, <2>3, KnownKept DEF Rest
<1>6. CASE Discard(s) \/ Crash(s)
  <2>1. UNCHANGED <<lines, written, disk>> /\ pc'[s] = "down" /\ file'[s] = Nil
    BY <1>6, <1>t DEF Discard, Crash, Forget, Goto
  <2>2. ~Busy(s)'
    BY <2>1 DEF Busy
  <2>3. Exact' /\ Fits' /\ Vacated'
    BY <1>a, <2>1, <2>2 DEF Exact, Fits, Vacated
  <2> QED BY <1>2, <2>1, <2>2, <2>3, KnownKept DEF Rest
<1> QED BY <1>2, <1>3, <1>4, <1>5, <1>6 DEF Rest

(* The rotation frees the slots from the oldest to the current file.       *)
LEMMA LoneRotates ==
    ASSUME LoneInv, Alone, RotationWorks, NEW s \in Sink, Cascade(s) \/ MoveCurrent(s)
    PROVE  Rest'
<1>t. /\ pc \in [Sink -> Phase] /\ file \in [Sink -> Slot \cup {Nil, Unlinked}]
      /\ at \in [Sink -> {0} \cup Archive] /\ Keep \in Int /\ Slot \subseteq Int
      /\ UNCHANGED <<written, line, lines, size>>
  BY Constants DEF LoneInv, Inv, TypeOK, Cascade, MoveCurrent
<1>a. \A u \in Sink : u = s
  BY DEF Alone
<1>1. /\ Busy(s) /\ Busy(s)' /\ pc'[s] # "write" /\ file'[s] = Nil
  <2>1. file[s] = Nil /\ Nil \notin Slot
    BY Constants DEF LoneInv, Inv, Position, Cascade, MoveCurrent
  <2>2. Follows
    BY RotationSteps DEF LoneInv, Inv, Kept
  <2> QED BY <1>t, <2>1, <2>2 DEF Follows, Cascade, MoveCurrent, Goto, Busy
<1>2. Fits' /\ Known'
  <2>1. Fits'
    BY <1>a, <1>t, <1>1 DEF LoneInv, Fits
  <2> QED BY <1>t, <1>1, <2>1, KnownKept
<1>3. CASE Cascade(s)
  <2>1. /\ at[s] \in 1..Keep /\ at[s] \in Slot /\ Keep > 0 /\ Keep \in Slot
        /\ at'[s] = at[s] - 1 /\ pc'[s] = IF at[s] = 1 THEN "move" ELSE "cascade"
    BY <1>3, <1>t, Constants DEF Cascade, Goto, LoneInv, Inv, Position, Archive, Slot
  <2>2. Exact'
    BY <1>a, <1>1, <2>1 DEF Exact
  <2>3. CASE at[s] = Keep
    <3>1. /\ SoundFiles' /\ Lost(written', disk')
      BY <1>3, <1>t, <2>1, <2>3, Constants, RemoveLoses DEF Cascade
    <3>2. Vacated'
      BY <1>a, <2>1, <2>3, <1>t DEF Vacated
    <3> QED BY <1>2, <2>2, <3>1, <3>2 DEF Rest
  <2>4. CASE at[s] # Keep
    <3>1. at[s] + 1 \in Slot /\ Rename(at[s], at[s] + 1)
      BY <1>3, <1>t, <2>1, <2>4 DEF Cascade, Slot, Archive
    <3>2. disk[at[s] + 1] = Missing \/ at[s] + 1 = Keep
      BY <1>3, <1>t, <2>1, <2>4 DEF LoneInv, Vacated, Cascade
    <3>3. SoundFiles' /\ Lost(written', disk') /\ disk'[at[s]] = Missing
      BY <1>t, <2>1, <3>1, <3>2, RenameLoses
    <3>4. Vacated'
      BY <1>a, <1>t, <2>1, <3>3 DEF Vacated
    <3> QED BY <1>2, <2>2, <3>3, <3>4 DEF Rest
  <2> QED BY <2>3, <2>4
<1>4. CASE MoveCurrent(s)
  <2>1. pc[s] = "move" /\ pc'[s] = "reopen"
    BY <1>4, <1>t DEF MoveCurrent, Goto
  <2>2. Vacated'
    BY <1>a, <2>1 DEF Vacated
  <2>3. SoundFiles' /\ Lost(written', disk') /\ disk'[0] = Missing
    <3>1. CASE Keep > 0
      <4>1. 0 \in Slot /\ 0 + 1 \in Slot /\ Rename(0, 0 + 1)
        BY <1>4, <3>1, Constants DEF MoveCurrent
      <4>2. disk[0 + 1] = Missing \/ 0 + 1 = Keep
        BY <1>t, <2>1, <3>1 DEF LoneInv, Vacated
      <4> QED BY <1>t, <4>1, <4>2, RenameLoses
    <3>2. CASE ~(Keep > 0)
      <4>1. 0 \in Slot /\ Remove(0) /\ \A k \in Slot : k <= 0
        BY <1>4, <3>2, Constants DEF MoveCurrent
      <4> QED BY <1>t, <3>2, <4>1, RemoveLoses DEF RotationWorks
    <3> QED BY <3>1, <3>2
  <2>4. Exact'
    BY <1>a, <1>1, <2>1, <2>3 DEF Exact
  <2> QED BY <1>2, <2>2, <2>3, <2>4 DEF Rest
<1> QED BY <1>3, <1>4

(* Opening the path: the length of what is found, or an empty file.        *)
LEMMA LoneOpens ==
    ASSUME LoneInv, Alone, NEW s \in Sink, NewFileSink(s) \/ Reopen(s)
    PROVE  Rest'
<1>t. /\ pc \in [Sink -> Phase] /\ size \in [Sink -> Nat]
      /\ UNCHANGED <<written, at, lines>> /\ Missing \notin File
      /\ line \in [Sink -> [number : Nat, bytes : Nat]]
  BY FileSinkAssumption DEF LoneInv, Inv, TypeOK, NewFileSink, Reopen
<1>a. \A u \in Sink : u = s
  BY DEF Alone
<1>1. CASE NewFileSink(s)
  <2>1. /\ SoundFiles' /\ Lost(written', disk') /\ file'[s] = 0
    BY <1>1, <1>t, OpenLoses DEF NewFileSink
  <2>2. pc'[s] = "idle" /\ size'[s] = disk'[0].bytes /\ ~Busy(s)'
    BY <1>1, <1>t DEF NewFileSink, Goto, Busy
  <2>3. Exact' /\ Fits' /\ Vacated'
    BY <1>a, <2>1, <2>2 DEF Exact, Fits, Vacated
  <2> QED BY <1>t, <2>1, <2>2, <2>3, KnownKept DEF Rest
<1>2. CASE Reopen(s) /\ Open(s) /\ size' = [size EXCEPT ![s] = 0] /\ Goto(s, "write") /\ UNCHANGED line
  <2>1. /\ SoundFiles' /\ Lost(written', disk') /\ file'[s] = 0
        /\ disk'[0] = IF disk[0] = Missing THEN Empty ELSE disk[0]
    BY <1>2, <1>t, OpenLoses
  <2>2. disk[0] = Missing /\ Busy(s)
    BY <1>2 DEF LoneInv, Exact, Reopen, Busy
  <2>3. pc'[s] = "write" /\ size'[s] = 0 /\ disk'[0].bytes = 0 /\ line' = line
    BY <1>2, <1>t, <2>1, <2>2, SoundEmpty DEF Goto
  <2>4. Exact' /\ Vacated'
    BY <1>a, <2>1, <2>3 DEF Exact, Vacated
  <2>5. Fits'
    BY <1>a, <2>2, <2>3 DEF LoneInv, Fits
  <2> QED BY <1>t, <2>1, <2>2, <2>3, <2>4, <2>5, KnownKept DEF Rest
<1>3. CASE Reopen(s) /\ Goto(s, "idle") /\ UNCHANGED <<disk, file, size>>
  <2>1. pc'[s] = "idle" /\ ~Busy(s)' /\ file'[s] = Nil
    BY <1>3, <1>t DEF Goto, Busy, Reopen, LoneInv, Inv, Position
  <2>2. Exact' /\ Fits' /\ Vacated'
    BY <1>a, <2>1 DEF Exact, Fits, Vacated
  <2>3. SoundFiles' /\ Lost(written', disk')
    BY <1>t, <1>3 DEF LoneInv, SoundFiles, Lost, OnDisk
  <2> QED BY <1>t, <2>1, <2>2, <2>3, KnownKept DEF Rest
<1> QED BY <1>1, <1>2, <1>3 DEF Reopen

(* The invariant is inductive for a lone sink whose rotations work.        *)
THEOREM LoneStep == Alone /\ RotationWorks /\ LoneInv /\ [Next]_vars => LoneInv'
<1> SUFFICES ASSUME Alone, RotationWorks, LoneInv, [Next]_vars PROVE LoneInv'
  OBVIOUS
<1>1. Inv'
  BY InvStep DEF LoneInv
<1>2. CASE UNCHANGED vars
  BY <1>2, <1>1 DEF vars, sinkVars, LoneInv, SoundFiles, Exact, Fits, Vacated, Known, Lost, OnDisk, Busy
<1>3. ASSUME NEW s \in Sink, Write(s) PROVE Rest'
  <2>1. /\ SoundFiles' /\ Lost(written', disk') /\ file'[s] = 0 /\ size'[s] = disk'[0].bytes
        /\ \A m \in written' : m.number <= lines'
    BY <1>3, WriteLoses
  <2>2. pc'[s] = "idle" /\ \A u \in Sink : u = s
    BY <1>3 DEF Write, Goto, LoneInv, Inv, TypeOK, Alone
  <2>3. \A m \in written' : m.by \in Sink
    BY <1>1 DEF Inv, TypeOK, Line
  <2> QED BY <2>1, <2>2, <2>3 DEF Exact, Fits, Vacated, Known, Rest, Busy
<1> QED BY <1>1, <1>2, <1>3, LoneLocal, LoneRotates, LoneOpens DEF Next, LoneInv, Rest

(* The invariant holds in every reachable state.                           *)
THEOREM LoneInvariance == Alone /\ RotationWorks => (Spec => []LoneInv)
<1> SUFFICES ASSUME Alone, RotationWorks PROVE Spec => []LoneInv
  OBVIOUS
<1>1. LoneInv /\ [Next]_vars => LoneInv'
  BY LoneStep
<1> QED BY <1>1, LoneInit, PTL DEF Spec

(* The size a lone sink goes by is the length of its file, at any limit,   *)
(* number of archives and lengths of lines, also when the process died in  *)
(* the middle of a rotation, an opening failed, or the oldest archive      *)
(* could not be removed (file_sink.go:65-76, 118, 176).                    *)
THEOREM SizeExactCorrect == Alone /\ RotationWorks => (Spec => []SizeExact)
<1>1. LoneInv => SizeExact
  BY DEF LoneInv, Exact, SizeExact
<1> QED BY <1>1, LoneInvariance, PTL

(* Under the same conditions a file exceeds the limit only by being a      *)
(* single line that does: the rotation comes in time                       *)
(* (file_sink.go:108-109).                                                 *)
THEOREM FileBoundedCorrect == Alone /\ RotationWorks => (Spec => []FileBounded)
<1>1. LoneInv => FileBounded
  BY DEF LoneInv, SoundFiles, Sound, FileBounded
<1> QED BY <1>1, LoneInvariance, PTL

(* Under the same conditions whatever was written in full and is gone is   *)
(* older than everything the files still hold: the cascade never replaces  *)
(* an archive but the oldest (file_sink.go:32-33, 150-178).                *)
THEOREM OnlyOldestLostCorrect == Alone /\ RotationWorks => (Spec => []OnlyOldestLost)
<1>1. LoneInv => OnlyOldestLost
  BY RetainedOnDisk DEF LoneInv, Lost, OnlyOldestLost
<1> QED BY <1>1, LoneInvariance, PTL
=============================================================================
