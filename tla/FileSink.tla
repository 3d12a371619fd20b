------------------------------- MODULE FileSink -------------------------------
(***************************************************************************)
(* FileSinks on one path and the files they keep (file_sink.go): appending *)
(* lines, rotating when the next line would exceed the limit, closing, and *)
(* being constructed again by the same process or after a crash.           *)
(*                                                                         *)
(* A sink's mutex is held for the whole of an Emit, so the calls of one    *)
(* sink are taken one by one.  Sinks share the files but no lock: what     *)
(* others do, or the death of the process, may come between any two        *)
(* system calls.  Each system call is an action.                           *)
(*                                                                         *)
(* Slot 0 is the file at path, slot N the archive "<path>.N".  A file is   *)
(* the sequence of the readable lines in it, its length, and whether it    *)
(* ends in the fragment of a line whose write failed.  A handle is known   *)
(* by the slot its file is in now; a file whose name is gone takes writes  *)
(* that nobody will read.                                                  *)
(***************************************************************************)
EXTENDS Integers, Sequences

CONSTANTS
    Sink,        \* the FileSinks on the path
    MaxBytes,    \* the rotation limit; <= 0 switches rotation off
    Keep,        \* how many archives are kept
    LineBytes,   \* the lengths of lines
    MayFail,     \* the system calls that may fail
    Missing,     \* a slot without a file
    MaxLines,    \* bound: calls of Emit
    MaxCrashes   \* bound: deaths of a process

Line == [by : Sink, number : Nat]
File == [lines : Seq(Line), bytes : Nat, torn : BOOLEAN]

ASSUME FileSinkAssumption ==
    /\ Missing \notin File
    /\ MaxBytes \in Int /\ Keep \in Int
    /\ LineBytes \subseteq Nat \ {0}
    /\ MayFail \subseteq {"remove", "rename", "open", "write"}
    /\ MaxLines \in Nat /\ MaxCrashes \in Nat

Archive == 1..Keep
Slot == {0} \cup Archive

Nil == -1       \* s.file = nil
Unlinked == -2  \* an open file without a name

VARIABLES
    disk,        \* the file in each slot, or Missing
    pc,          \* what the holder of each sink's mutex does next
    file,        \* s.file: the slot of the open file, Nil or Unlinked
    size,        \* s.size
    closed,      \* s.closed
    line,        \* the line each sink is emitting
    at,          \* the loop variable of each cascade
    lines,       \* how many lines were given to Emit
    written,     \* history: the lines that were written in full
    crashes

sinkVars == <<file, size, closed>>
vars == <<disk, pc, sinkVars, line, at, lines, written, crashes>>

Empty == [lines |-> <<>>, bytes |-> 0, torn |-> FALSE]
NoLine == [number |-> 0, bytes |-> 0]
Phase == {"down", "idle", "release", "cascade", "move", "reopen", "write"}

TypeOK ==
    /\ disk \in [Slot -> {Missing} \cup File]
    /\ pc \in [Sink -> Phase]
    /\ file \in [Sink -> Slot \cup {Nil, Unlinked}]
    /\ size \in [Sink -> Nat] /\ closed \in [Sink -> BOOLEAN]
    /\ line \in [Sink -> [number : Nat, bytes : Nat]]
    /\ at \in [Sink -> {0} \cup Archive]
    /\ lines \in Nat /\ written \subseteq Line /\ crashes \in Nat

Init ==
    /\ disk = [i \in Slot |-> Missing]
    /\ pc = [s \in Sink |-> "down"]
    /\ file = [s \in Sink |-> Nil] /\ size = [s \in Sink |-> 0]
    /\ closed = [s \in Sink |-> FALSE]
    /\ line = [s \in Sink |-> NoLine] /\ at = [s \in Sink |-> 0]
    /\ lines = 0 /\ written = {} /\ crashes = 0

Goto(s, phase) == pc' = [pc EXCEPT ![s] = phase]

-----------------------------------------------------------------------------
OpenTruncating(s) ==
    /\ disk' = [disk EXCEPT ![0] = Empty]
    /\ file' = [file EXCEPT ![s] = 0]

(* os.OpenFile with O_CREATE and O_APPEND.                                 *)
Open(s) ==
    /\ disk' = [disk EXCEPT ![0] = IF @ = Missing THEN Empty ELSE @]
    /\ file' = [file EXCEPT ![s] = 0]

RenameCopying(i, j) ==
    \/ /\ disk[i] # Missing
       /\ disk' = [disk EXCEPT ![j] = disk[i]]
       /\ UNCHANGED file
    \/ /\ disk[i] = Missing \/ "rename" \in MayFail
       /\ UNCHANGED <<disk, file>>

(* os.Rename replaces the target, os.Remove; open files stay open.  Both   *)
(* fail on a missing file, and the sink ignores their errors.              *)
Rename(i, j) ==
    \/ /\ disk[i] # Missing
       /\ disk' = [disk EXCEPT ![j] = disk[i], ![i] = Missing]
       /\ file' = [u \in Sink |-> IF file[u] = i THEN j
                                  ELSE IF file[u] = j THEN Unlinked ELSE file[u]]
    \/ /\ disk[i] = Missing \/ "rename" \in MayFail
       /\ UNCHANGED <<disk, file>>

Remove(i) ==
    \/ /\ disk' = [disk EXCEPT ![i] = Missing]
       /\ file' = [u \in Sink |-> IF file[u] = i THEN Unlinked ELSE file[u]]
    \/ /\ "remove" \in MayFail
       /\ UNCHANGED <<disk, file>>

(* NewFileSink.  On failure there is no sink and nothing changes.  What is *)
(* appended between the opening and the Stat might as well come before.    *)
NewFileSink(s) ==
    /\ pc[s] = "down"
    /\ Open(s)
    /\ size' = [size EXCEPT ![s] = disk'[0].bytes]
    /\ Goto(s, "idle")
    /\ UNCHANGED <<closed, line, at, lines, written, crashes>>

MustRotateLate(s, b) == MaxBytes > 0 /\ size[s] > MaxBytes /\ size[s] > 0

(* The size test of Emit.                                                  *)
MustRotate(s, b) == MaxBytes > 0 /\ size[s] + b > MaxBytes /\ size[s] > 0

(* Emit takes the mutex; a closed or broken sink drops the line.           *)
Emit(s, b) ==
    /\ pc[s] = "idle" /\ lines < MaxLines
    /\ lines' = lines + 1
    /\ IF closed[s] \/ file[s] = Nil
         THEN UNCHANGED <<line, pc>>
         ELSE /\ line' = [line EXCEPT ![s] = [number |-> lines + 1, bytes |-> b]]
              /\ Goto(s, IF MustRotate(s, b) THEN "release" ELSE "write")
    /\ UNCHANGED <<disk, sinkVars, at, written, crashes>>

-----------------------------------------------------------------------------
(* rotateLocked: close the file, cascade the archives from the oldest,     *)
(* move the current file out of the way, open a fresh one.                 *)
ReleaseOffByOne(s) ==
    /\ pc[s] = "release"
    /\ file' = [file EXCEPT ![s] = Nil]
    /\ at' = [at EXCEPT ![s] = IF Keep > 0 THEN Keep + 1 ELSE 0]
    /\ Goto(s, IF Keep > 0 THEN "cascade" ELSE "move")
    /\ UNCHANGED <<disk, size, closed, line, lines, written, crashes>>

Release(s) ==
    /\ pc[s] = "release"
    /\ file' = [file EXCEPT ![s] = Nil]
    /\ at' = [at EXCEPT ![s] = IF Keep > 0 THEN Keep ELSE 0]
    /\ Goto(s, IF Keep > 0 THEN "cascade" ELSE "move")
    /\ UNCHANGED <<disk, size, closed, line, lines, written, crashes>>

CascadeStuck(s) ==
    /\ pc[s] = "cascade"
    /\ IF at[s] = Keep THEN Remove(at[s]) ELSE Rename(at[s], at[s] + 1)
    /\ Goto(s, IF at[s] = 1 THEN "move" ELSE "cascade")
    /\ UNCHANGED <<size, closed, line, at, lines, written, crashes>>

Cascade(s) ==
    /\ pc[s] = "cascade"
    /\ IF at[s] = Keep THEN Remove(at[s]) ELSE Rename(at[s], at[s] + 1)
    /\ at' = [at EXCEPT ![s] = @ - 1]
    /\ Goto(s, IF at[s] = 1 THEN "move" ELSE "cascade")
    /\ UNCHANGED <<size, closed, line, lines, written, crashes>>

MoveCurrent(s) ==
    /\ pc[s] = "move"
    /\ IF Keep > 0 THEN Rename(0, 1) ELSE Remove(0)
    /\ Goto(s, "reopen")
    /\ UNCHANGED <<size, closed, line, at, lines, written, crashes>>

ReopenKeepingSize(s) ==
    /\ pc[s] = "reopen"
    /\ \/ Open(s) /\ Goto(s, "write") /\ UNCHANGED <<size, line>>
       \/ /\ "open" \in MayFail
          /\ Goto(s, "idle") /\ line' = [line EXCEPT ![s] = NoLine]
          /\ UNCHANGED <<disk, file, size>>
    /\ UNCHANGED <<closed, at, lines, written, crashes>>

(* The size starts from zero, whatever file was opened.  When the open     *)
(* fails the line is dropped and the sink is left without a file.          *)
Reopen(s) ==
    /\ pc[s] = "reopen"
    /\ \/ Open(s) /\ size' = [size EXCEPT ![s] = 0] /\ Goto(s, "write") /\ UNCHANGED line
       \/ /\ "open" \in MayFail
          /\ Goto(s, "idle") /\ line' = [line EXCEPT ![s] = NoLine]
          /\ UNCHANGED <<disk, file, size>>
    /\ UNCHANGED <<closed, at, lines, written, crashes>>

(* A line written after a fragment ends the same line of text, which is    *)
(* then no record.                                                         *)
WithLine(f, s, l) ==
    [lines |-> IF f.torn THEN f.lines
                         ELSE Append(f.lines, [by |-> s, number |-> l.number]),
     bytes |-> f.bytes + l.bytes, torn |-> FALSE]

WithFragment(f, n) ==
    [lines |-> f.lines, bytes |-> f.bytes + n,
     torn |-> IF n > 0 THEN TRUE ELSE f.torn]

WriteCountingAll(s) ==
    /\ pc[s] = "write"
    /\ \E n \in 0..line[s].bytes :
          /\ "write" \in MayFail \/ n = line[s].bytes
          /\ disk' = IF file[s] = Unlinked THEN disk
                     ELSE [disk EXCEPT ![file[s]] =
                              IF n = line[s].bytes THEN WithLine(@, s, line[s])
                                                   ELSE WithFragment(@, n)]
    /\ size' = [size EXCEPT ![s] = @ + line[s].bytes]
    /\ written' = written \cup {[by |-> s, number |-> line[s].number]}
    /\ Goto(s, "idle")
    /\ line' = [line EXCEPT ![s] = NoLine]
    /\ UNCHANGED <<file, closed, at, lines, crashes>>

(* A failing write may leave part of the line, which is not counted.       *)
Write(s) ==
    /\ pc[s] = "write"
    /\ \/ /\ disk' = IF file[s] = Unlinked THEN disk
                     ELSE [disk EXCEPT ![file[s]] = WithLine(@, s, line[s])]
          /\ size' = [size EXCEPT ![s] = @ + line[s].bytes]
          /\ written' = written \cup {[by |-> s, number |-> line[s].number]}
       \/ /\ "write" \in MayFail
          /\ \E n \in 0..(line[s].bytes - 1) :
                disk' = IF file[s] = Unlinked THEN disk
                        ELSE [disk EXCEPT ![file[s]] = WithFragment(@, n)]
          /\ UNCHANGED <<size, written>>
    /\ Goto(s, "idle")
    /\ line' = [line EXCEPT ![s] = NoLine]
    /\ UNCHANGED <<file, closed, at, lines, crashes>>

-----------------------------------------------------------------------------
Close(s) ==
    /\ pc[s] = "idle" /\ ~closed[s]
    /\ closed' = [closed EXCEPT ![s] = TRUE] /\ file' = [file EXCEPT ![s] = Nil]
    /\ UNCHANGED <<disk, pc, size, line, at, lines, written, crashes>>

(* The process forgets the sink, or dies at any point.                     *)
Forget(s) ==
    /\ file' = [file EXCEPT ![s] = Nil] /\ size' = [size EXCEPT ![s] = 0]
    /\ closed' = [closed EXCEPT ![s] = FALSE]
    /\ Goto(s, "down")
    /\ line' = [line EXCEPT ![s] = NoLine] /\ at' = [at EXCEPT ![s] = 0]
    /\ UNCHANGED <<disk, lines, written>>

Discard(s) == pc[s] = "idle" /\ closed[s] /\ Forget(s) /\ UNCHANGED crashes

Crash(s) ==
    /\ pc[s] # "down" /\ crashes < MaxCrashes
    /\ crashes' = crashes + 1
    /\ Forget(s)

Next ==
    \E s \in Sink :
       \/ NewFileSink(s) \/ \E b \in LineBytes : Emit(s, b)
       \/ Release(s) \/ Cascade(s) \/ MoveCurrent(s) \/ Reopen(s) \/ Write(s)
       \/ Close(s) \/ Discard(s) \/ Crash(s)

Spec == Init /\ [][Next]_vars

(* The holder of a mutex is runnable and system calls return.              *)
FairSpec ==
    /\ Spec
    /\ \A s \in Sink :
          WF_vars(Release(s) \/ Cascade(s) \/ MoveCurrent(s) \/ Reopen(s) \/ Write(s))

-----------------------------------------------------------------------------
Stored(i) == IF disk[i] = Missing THEN <<>> ELSE disk[i].lines
LinesIn(i) == {Stored(i)[k] : k \in DOMAIN Stored(i)}
Retained == UNION {LinesIn(i) : i \in Slot}
Earlier(l, m) == l.by = m.by => l.number < m.number

(* Reading the archives from the oldest to the current file gives the      *)
(* lines of each sink in the order it emitted them, each once, whatever    *)
(* system call failed, wherever a process died, and however the rotations  *)
(* of other sinks on the path came in between (file_sink.go:150-178).      *)
ArchiveOrder ==
    /\ \A i \in Slot : \A j, k \in DOMAIN Stored(i) :
          j < k => Earlier(Stored(i)[j], Stored(i)[k])
    /\ \A i, j \in Slot : i < j =>
          \A m \in LinesIn(i), n \in LinesIn(j) : Earlier(n, m)

(* The size a lone sink goes by is the length of the file it appends to,   *)
(* also after a restart in the middle of a rotation (file_sink.go:65-76,   *)
(* 118, 176).                                                              *)
SizeExact ==
    \A s \in Sink : file[s] # Nil /\ pc[s] \in {"idle", "write"} =>
        file[s] = 0 /\ size[s] = disk[0].bytes

(* Errors and other sinks only make a sink underestimate the file it       *)
(* appends to, wherever it was moved: it never rotates early               *)
(* (file_sink.go:109, 118).                                                *)
SizeNeverOver ==
    \A s \in Sink : file[s] \in Slot /\ pc[s] \in {"idle", "write"} =>
        size[s] <= disk[file[s]].bytes

(* A file of a lone sink exceeds the limit only by being a single line     *)
(* that does (file_sink.go:108-109).                                       *)
FileBounded ==
    MaxBytes > 0 => \A i \in Slot :
        disk[i] # Missing => disk[i].bytes <= MaxBytes \/ Len(disk[i].lines) = 1

(* Rotation drops the oldest archive and nothing else (file_sink.go:32-33):*)
(* what a lone sink wrote and is gone is older than everything that is     *)
(* left.                                                                   *)
OnlyOldestLost ==
    \A m \in written \ Retained, n \in Retained : Earlier(m, n)

(* An Emit that began comes back, or the process dies: the rotation ends,  *)
(* whatever other sinks do to its files (file_sink.go:107-118).            *)
EmitReturns ==
    \A s \in Sink : pc[s] \notin {"idle", "down"} ~> pc[s] \in {"idle", "down"}
=============================================================================
