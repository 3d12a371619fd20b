# A verification development for dagstack logger-go

TLA+ models of the Go logger in this repository, the TLC configurations that
check them on small instances, and TLAPS proofs of what matters most for every
value of the constants. The models are translated from the code; documents and
comments serve as the statement of intent, and where they disagree with the
code a run shows it (see *Where documents and code disagree*).

Run a configuration with `tlc -workers 2 -config <run>.cfg <module>`, check
the proofs with `tlapm <module>.tla`. `PROJECT.json` lists every run with its
module, the source lines behind every definition, the hazards and the mutants.

## 1. The system

The package is one flat Go package: a process-wide registry of named loggers,
settings inherited up the dot-name tree, and sinks that take the records.
There are no background goroutines: everything runs on the callers'
goroutines, and the hard part is what those do to each other.

| Component | State | Operations | What makes it correct |
|---|---|---|---|
| Registry (`logger.go`) | `registry` under an RWMutex; per logger its name, parent, version, scope | `Get`, `GetVersioned`, `Reset` | one instance per name; every parent registered with its child; version and scope agree; generations of a Reset do not mix |
| Settings (`logger.go`) | per logger and under its mutex: sinks, min severity, resource, suffixes, each own or inherited | `Set*`, `Effective*`, `WithSinks`, `AppendSinks`, `WithoutSinks`, `Child` | a walk up the chain yields a value the setting really had |
| Scoped sinks (`logger.go`) | what each open `ScopeSinks` has saved | enter, deferred restore | emits inside go to the scope; after it everything is as before |
| Configure (`configuration.go`) | a local struct of options, applied group by group | `Configure` and its options | an emit sees the groups in a definite order; nothing is applied when an option is invalid |
| Emit (`logger.go`) | locals of the caller | `Trace` ... `Log`, `*Ctx`, `Exception` | gate, masking, delivery to each sink of a snapshot, a panicking one included |
| Flush, Close (`logger.go`) | locals of the caller | `Flush`, `Close` | every sink of the snapshot is reached; the result is what happened |
| InMemorySink | ring of records, `closed` | `Emit`, `Close`, `Records`, `Clear` | exactly the newest records, in order |
| FileSink | file handle, `size`, `closed`; the files on disk, shared with other sinks of the path | `NewFileSink`, `Emit` with rotation, `Flush`, `Close` | lines in order over the archives; alone on its path also: files bounded, only the oldest lost |
| ConsoleSink | `closed`, the cached terminal check | `Emit`, `Flush`, `Close` | style fits the stream; silence after Close |
| Redaction (`redaction.go`) | none of its own (a suffix list in a logger) | build, validate, match, mask | no secret key shows its value, at any depth; nothing else changes |
| Severity (`severity.go`), levels (`configuration.go`) | tables | number to text, level to number | the gate, asked for by name or number, and the text of a record agree |
| Records, trace ids and context (`records.go`, `trace_ids.go`, `context.go`) | none | build a record; encode and decode identifiers | a record carries what the call gave; an identifier has its length or is refused |
| Canonical JSON and wire format (`canonical_json.go`, `wire.go`) | none | `ToDagstackJSONL`, `CanonicalJSONMarshal` | one line for one record, whatever the order of map iteration; types survive; only what cannot be encoded costs the record |
| Subscription (`subscription.go`) | a flag | `Unsubscribe` | see *Not modelled* |

They interact by calls and shared memory only. `Configure` calls `Get` and the
setters of the root; an emit calls the four `Effective*` walks, then the sinks;
`Flush` and `Close` resolve the sinks and call them; sinks share nothing but
the files and streams they write to. Data flows one way: options and the
arguments of a call make a record, each sink makes a line of it.

Behaviours that are hard to test: double-checked locking with an unprotected
read; walks that lock one logger at a time; a multi-group update without a
lock of its own; snapshots of sink lists that others replace and close; scopes
that overlap; rotation cut short by the death of the process or by a system
call whose error is ignored, or interleaved with that of another sink on the
same path; a lazily filled cache without a lock; records dropped without a sign
because one value in them does not encode; lines that depend on the random
order of map iteration.

## 2. Modules

| Module | Models | Notes |
|---|---|---|
| `LoggerRegistry` | `getOrCreate`, `getUnlocked`, `Reset` | an action per critical section or unprotected access |
| `NamedSingletons` | – | abstract: an indivisible interning table |
| `Logger` | settings, walks, emit, detached children, `ScopeSinks`, `Configure` | an action per critical section of a logger's mutex |
| `LoggerObserver` | – | `Logger` with a history of effective values |
| `ScopedSinks` | – | abstract: of the overrides open on a logger the last one opened shows, in whatever order they end |
| `Delivery` | emit, `Flush`, `Close`, `SetSinks` of one logger over in-memory sinks | an action per call of a sink |
| `FileSink` | `file_sink.go`, any number of sinks on one path, and the files | an action per system call |
| `ConsoleSink` | `console_sink.go` | an action per unprotected access, store propagation, critical section |
| `Values` | `Attrs` of `records.go` | what an attribute may hold, typed, to a depth; the leaves of a value |
| `Redaction` | `redaction.go` | operators on values, no state |
| `CanonicalJSON` | `canonical_json.go` | operators on values, no state |
| `Record` | the way of a record: `configuration.go`, the data of `logger.go`'s emit, `severity.go`, `context.go`, `wire.go`, `trace_ids.go`, the pretty line of `console_sink.go` | composes the two above; an action per call |
| `Reader` | – | what a reader makes of a line, and the properties about it |
| `MC*` | – | instances for TLC |
| `*Proofs` | – | theorems about the module in the name; `ValueProofs` holds lemmas about `Values`, `Redaction`, `CanonicalJSON` and the reader, `RecordProofs` the theorems about `Record` and `Reader` |

How state and actions correspond to the code:

* **LoggerRegistry.** `registry`, `nameOf`, `parent`, `version`,
  `scopeVersion`, `mu`, `ownSinks` are the map and the fields of loggers
  (addresses of `Node`, never reused); `writer` is the holder of the write
  lock, `pc`, `want`, `wantVersion`, `handle` the locals of a call. `Lookup`
  is the read-locked section, `Lock`/`Recheck` the second check,
  `CreateAncestor` one return of `getUnlocked`'s recursion, `CreateRequested`
  the rest. The comparison of `l.version` takes no lock; racing with the
  assignment it may go either way (`BeingWritten`), because a string that is
  neither the old nor the new one may be read. `Return` runs the deferred
  unlock.
* **Logger.** `own[l]` holds the four settings with `Inherit` for "not
  explicit"; `pc[g]` is the setting being resolved and `call[g].at` the logger
  the walk is at. Order of walks and of Configure's groups are the code's.
  A suffix list is the set of keys it masks. The clean-up of `ScopeSinks` is
  `EndScope`, also for a callback that panics.
* **Delivery.** `call[g].list` is the snapshot; `EmitTo`, `FlushNext` and
  `CloseNext` call its next sink; `call[g].first` is the place of the sink whose error
  `Close` returns, 0 for nil. `accepted` and `cleared` are history.
* **FileSink.** `disk` maps slot 0 (the path) and the archives to files; a
  file is its readable lines, its length and whether it ends in a fragment.
  `file[s]` is the slot where the file that sink `s` has open is now: renames,
  its own or another sink's, move it along, and a file whose name is taken by
  another becomes `Unlinked`. The mutex of a sink is held for a whole `Emit`;
  between two of its system calls come those of the other sinks and `Crash`.
  `os.OpenFile` and the `Stat` after it are one step: what others append in
  between might as well have come before.
* **ConsoleSink.** Stores to `isTTY` and `ttyKnown` wait in `stored[g]` and
  reach the others in any order (Go promises none without synchronisation);
  a goroutine's stores are visible to all before its use of the mutex is.
* **Record.** A value is a leaf of one of the types the encoder distinguishes,
  with one (`other`) for all it does not know, or a map or list of values; a
  map is the set of its entries. `Value` is the set of values that nest at most
  `MaxDepth + 3` deep, since a line wraps the attributes of a call in up to
  three maps, and the recursions of the code are functions on it. What a key or
  suffix is made of (lower case, suffixes, UTF-16 units, bytes) and the digits
  `strconv` gives are constants, a suffix list is the set of its members. An
  order of map iteration is a sequence of all keys, of which a map takes its
  own; sorting inserts them one by one, as a stable sort does, so that a
  comparison that is no total order shows in the line. A line is kept as the
  tree that was written, with the order of keys and whether a number has a
  point; `Reader` parses it. `Configure` takes options and applies all or
  nothing; A text of an identifier is empty, of hexadecimal digits, or
  neither. `given`, `record` and `lines` follow one call of `Emit`, `Exception`
  or of a sink (`Hand`) at a time, since the way of a record leaves no trace for
  the next. `asked` and `config` keep what the application said, so that the
  properties compare the record with the request rather than with what the code
  derived from it.

## 3. Runs

Passing:

| Run | Shows | Bounds, and why they are enough |
|---|---|---|
| `registry` | type, tree, generations, internal logger, handles, version and scope, bindings; refinement of `NamedSingletons`; every call returns | 2 goroutines, a chain of 3 names, 5 addresses: a full tree, a Reset in the middle of calls, and a missing ancestor created again with its child; one version against none |
| `logger_configure` | order in which a Configure becomes visible; isolation of panics; every emit and Configure returns | one bootstrap with every group, redaction disabled and the warning let through, and a call that changes one level; all loggers, severities below, at and beyond the range |
| `logger_scopes` | emits go to the innermost scope; refinement of `ScopedSinks` | one goroutine nests 2 scopes on any logger, another makes a detached child and changes a level |
| `logger_walks` | a walk resolves a value the setting had meanwhile | 2 goroutines set, one walks; chain of length 3 with a detached child |
| `delivery_records` | ring contents and order | rings of 1 (from 0) and 2, more records than room, `SetSinks`, `Clear` |
| `delivery_close` | snapshots against Close and Flush, the error Close returns | two closers, two sinks that may fail, a list with a sink twice, an empty list |
| `file_rotation` | size exact, files bounded, oldest lost | one sink, 8 lines of lengths 1, 2, 4 with limit 3, three archives overflow, 2 crashes, failing opens and removals |
| `file_failures` | order of archives, no overestimate, every Emit ends | two sinks, 4 lines over two archives that each fill with one, so that rotations meet at every step; every system call may fail, 1 crash |
| `console_styles` | style settles, silence after Close | 2 goroutines, 2 emits each, every mode, terminal and pipe |
| `record_lines` | masking, levels, one line for one record, drops, reading back | valid and invalid options alone, in pairs and one Configure after another; severities 0 to 25; a leaf of each type at the top, in a map and in lists, values to `MaxDepth` 2; integers of a byte; keys with one a prefix of another and two that UTF-16 and bytes order differently; two opposite orders of iteration; identifiers of right and wrong lengths |

Some properties need the bounds of their run: with two sinks on a path,
`OnlyOldestLost`, `FileBounded` and `SizeExact` do not hold, and nothing
promises them. One cascade that interleaves with another moves a fresh file
over archive 1, and a sink goes on writing to a file that was renamed under it,
or that has lost its name. `file_failures` shows what remains.

`logger_walks` lets each setting be changed on one logger only: with two loggers
of one chain changed concurrently, a walk may combine two moments. That is what
the code does and nothing promises more. `ConfigureOrdered` likewise is about
one Configure and one emit; settings of several loggers that are changed one by
one may be seen in any combination.

Bounds are constants and named in the modules: `Node` (addresses), `Detached`,
`MaxScopes`, `MaxEmits`, `MaxLines`, `MaxCrashes`, `MaxDepth`; in `Record` the guards
`given = Nil /\ record = Nil` bound a behaviour to one record after each change. No symmetry
is used: in `registry`, where it would apply, a liveness property is checked. What
one version leaves open (two versions racing, three goroutines) is covered by
`VersionCorrect`, which is proved for any number of both. `CHECK_DEADLOCK FALSE`
appears only in `console_styles`, where goroutines run out of emits; the other models always have a call left (a
close, a walk, a restart).

Fairness: `FairSpec` of the registry asks strong fairness for taking a lock
(Go's mutexes switch to handing over to a waiter that starved, and a waiting
writer holds back new readers) and weak fairness for steps of a goroutine that
can run; `Logger` and `FileSink` ask weak fairness of the steps inside a call,
as their critical sections never wait for an event. No fairness makes a
goroutine call, a `ScopeSinks` callback return, or the process die or live.

### Where documents and code disagree

Two runs end in a counterexample to what a comment says; each checks that one
statement.

| Run | Statement | What happens |
|---|---|---|
| `logger_disable_all` | `redaction.go:46-48`: disabling all redaction is announced by a WARN | the same Configure can raise the level above WARN first, and the announcement is dropped at the gate |
| `file_rename` | `file_sink.go:32-33`: archives shift, the one at index keep is removed | the error of a failed rename is ignored, and the next rename replaces an archive that is not the oldest: lines are lost that are newer than some kept. `file_rotation` shows the same property with renames that work, `file_failures` what remains true without |

`file_rename` has the bounds of `file_rotation`, with failing renames as the only
fault.

Other disagreements follow from the models but have no run of their own; the
passing runs state what the code does instead.

* `console_sink.go:17` says that auto selects pretty on a TTY, and `sink.go:5`
  that sinks are safe for concurrent use. `isTTY` and `ttyKnown` are stored and
  loaded without a lock: a second first emit that sees `ttyKnown` before
  `isTTY` writes JSON to a terminal. `StyleSettles` is what remains true.
* `configuration.go:127` says that the root is updated atomically. `Apply` is
  one critical section per option, and an emit in between passes the old level
  and goes to the new sinks. `ConfigureOrdered` is what remains true.
* `logger.go:620-621` says that an out-of-range severity is treated as INFO
  and visible, with a marker in the body. `PassGate` compares the raw number
  first: `Log(0)` is dropped where INFO passes, and 25 passes where INFO is
  dropped. The body is left as it is. `RecordedAtLevel` is about numbers in range.
* `logger.go:488-490` says that `ScopeSinks` restores the previous sinks. When
  the scopes of two goroutines overlap on one logger, the one that ends last
  puts the sinks of the other, already ended scope back for good.
  `ScopedSinksSpec` is therefore checked with scopes that nest.
* `logger.go:62-65` says that `GetVersioned` updates the scope in place when the
  version differs. `CheckVersion` compares without the lock; what it reads while
  another goroutine stores a version may be torn and equal the one asked for, and
  the update is then skipped. `VersionScopeAgree` is what remains true.
* `logger.go:599-600` says that errors of `Close` are aggregated into the
  returned slice. `CloseNext` keeps the first; the errors after it are lost.
  `CloseReachesAll` says which one is returned, and that the other sinks are
  closed all the same.
* `file_sink.go:108` says that the sink rotates when the write would go over the
  limit. When the file could not be moved aside, `Reopen` opens the old one and
  counts it from zero, and it grows past the limit. `FileBounded` is therefore
  checked with renames that work; `SizeNeverOver` is what remains true.
* `sink.go:21-24` says that errors during `Emit` are surfaced via metrics or the
  diagnostic channel. The package has no metrics and no sink calls the
  internal logger: `FileSink` and `ConsoleSink` return without a sign when a
  line does not encode, a rotation, a reopen or a write fails, or the sink is
  closed, and `emit` discards what a panicking sink threw. In the models such a
  step (`FormatFails`, `Emit` on a broken sink, `Write` when it fails) leaves
  nothing behind that another component could see.
* `file_sink.go:30-31` says that a file is rotated after the write that goes
  over the limit. `MustRotate` is tested before a write and never of an empty
  file; `FileBounded` states the resulting bound.
* `records.go:45-46` and `83-84` say that a sink sets `ObservedTimeUnixNano` on
  ingestion when it is zero. No sink does; `LogRecord` leaves it 0 and
  `ToDagstackJSONLDict` omits it, unless an application has set it itself.
* `canonical_json.go:27-28` says that the output is byte-identical across
  bindings. Format `'g'` of `strconv.FormatFloat` goes over to an exponent
  at a million (`1e+06`), where other languages print `1000000.0`;
  `LineShowsRecord` states that the value survives.
* `records.go:8-9` says that values are checked to be serializable at the wire.
  The check costs the whole record, in JSON sinks only, without a sign;
  `DroppedOnlyIfUnencodable` says when.
* `file_sink.go:10` promises JSON lines. A `Write` that fails half way leaves a
  fragment without a newline, and the next line is glued to it.

## 4. Proofs

| Module | Theorems |
|---|---|
| `LoggerRegistryProofs` | `TypeCorrect`, `TreeCorrect`, `GenerationsCorrect`, `InternalCorrect`, `VersionCorrect`, `HandleCorrect`, `BindingsCorrect`, `Refinement` |
| `LoggerProofs` | `TypeCorrect`, `SinkFailureIsolatedCorrect`, `ScopeCapturesCorrect`, `ScopedSinksCorrect` |
| `LoggerObserverProofs` | `ResolvedWasEffectiveCorrect`, `ConfigureOrderedCorrect` |
| `DeliveryProofs` | `TypeCorrect`, `RetainsNewestCorrect`, `PerCallerOrderCorrect`, `ClosedTakesNothingCorrect`, `EmitReachesOpenCorrect`, `CloseReachesAllCorrect`, `FlushReportedCorrect` |
| `FileSinkProofs` | `TypeCorrect`, `ArchiveOrderCorrect`, `SizeNeverOverCorrect`, `SizeExactCorrect`, `FileBoundedCorrect`, `OnlyOldestLostCorrect` |
| `ConsoleSinkProofs` | `TypeCorrect`, `StyleSettlesCorrect`, `NothingAfterCloseCorrect` |
| `RecordProofs` | `MasksConfiguredCorrect`, `RecordedAtLevelCorrect`, `DroppedOnlyIfUnencodableCorrect`, `LinesCanonicalCorrect`, `LineShowsRecordCorrect` |

Every safety property of every passing run is stated by a theorem. They hold for all values of the constants that satisfy the module's named
assumptions; those say what sort of value a constant is and, in `Logger`, that
the registered loggers form a finite tree (`TreeAssumption`: a logger is linked
to its parent when it is made, `logger.go:104-115`). The assumptions of
`Record` say of the code's surroundings what the properties rest on:
`CanonicalJSONAssumption` that different finite floats, different integers and
different keys are spelled differently (`strconv` prints the shortest text that
reads back, keys are valid UTF-8) and that zero is printed `0`;
`OrderAssumption` that ranging over a map visits every key once and that Go
compares strings by a strict total order; `RedactionAssumption` and
`RecordAssumption` that the inputs are of the types Go gives them; and
`NilAssumption` that nil is none of the values it stands beside. `MaxDepth` is
any number, so what is proved holds of values nested to any depth. A theorem that needs more
says so on the left of its implication:

| Hypothesis | Says | Why it is needed |
|---|---|---|
| `Alone` | one sink has the path | two cascades may meet, see section 3 |
| `RotationWorks` | renames and writes work, and removals do if no archive is kept; opens may fail, a process may die anywhere | the code ignores an error of `Rename` and overwrites; a fragment is not counted |
| `OneScoper`, `SinksUnset` | one goroutine opens scopes, and sinks are not set or configured | the deferred restore of one scope undoes what another or a setter did, see section 3 |
| `OneOwner`, `NoScopes` | each setting is changed on one logger only, and not by scopes | a walk over two changed loggers may mix two moments, see section 3 |
| `OneBootstrap` | whatever configures sinks, resource or suffixes sets the same ones, to values the root does not begin with; levels are free | with two different configurations a value does not tell whose it is |

The runs that check these properties (`file_rotation`, `logger_scopes`,
`logger_walks`, `logger_configure`) meet the hypothesis of the theorem.

Each module proves that an invariant holds initially and is kept by every step,
with one case per action, and derives the properties from it.

* *Registry.* `ParentLinked` is not inductive: whether a new logger's parent is
  registered depends on who holds the write lock, and what a call returns on
  what it found. The invariant adds that only the holder is past `Lock` on the
  slow path, that a name is free when it is about to be created, that handles
  are allocated and carry the wanted name, that registered loggers are
  allocated, and who holds a logger's mutex. The torn read of `version` needs
  no part of it: either outcome of `CheckVersion` keeps version and scope in
  step. `Refinement` maps `table`, `used` and `answer` to `registry`,
  `allocated` and `handle`; a call is decided where it leaves the locked part.
* *Logger, the tree.* `Source` is a recursive function, of which the prover
  knows nothing until it is shown to exist. `LoggerProofs` does so by a
  bound on the depth (`UpExists`: a solution for the loggers above depth k
  extends to those at depth k, so there is no least depth without one), and
  shows that detached children keep the tree a tree. What later proofs use is
  `ValueOf`, the value a walk that is alone would find, and two lemmas: it is
  the same along loggers without a setting of their own (`ValueAlong`), and two
  trees agree on it if they agree on the way up (`ValueSame`).
* *Logger, scopes.* `Nested` says that the sinks of a logger are those of the
  last scope on it, and that each scope remembers those of the one below;
  `Captured`, that the walk of the goroutine that opens scopes has passed only
  loggers that inherit. One goroutine's `EndScope` pops the last scope, so both
  survive. `ScopedSinks` is implemented with `base`, the sinks outside scopes,
  mapped to what the outermost scope on a logger remembers, `open` to the open
  scopes and `shown` to the own sinks of each logger, registered or not;
  begin and end leave `base` alone because only a logger's first scope defines
  it (`RefineBegin`, `RefineEnd`), and every other step is a stutter or a
  change outside scopes (`RefineOther`).
* *Logger, walks.* What a walk has seen cannot be told from where it is: the
  loggers it passed may have got settings since. `Walked` says that either the
  loggers passed still inherit, so that the value at the walk's place is the
  value at its start, or all loggers whose setting may change lie below the
  walk, and the value above is among those observed. With one owner per
  setting nothing in between is possible.
* *Logger, Configure.* A Configure writes sinks, resource and suffixes in this
  order; an emit reads them in the opposite one. `InStages` says that what is
  applied at the root is closed under "written before", for all Configures
  under way together; `Reading`, of each emit that follows the root, that a new
  value in its hands is applied for good and that what it read after one is new
  if it is written before it. Both need that setters and levels leave the three
  settings alone and that whether an emit follows the root does not change
  under it (`FollowsKept`).
* *FileSink.* For any number of sinks on one path. `ArchiveOrder` is per sink,
  and each file must be known to hold, of the lines of one sink, a block that
  is older than what newer slots hold (`Ordered`), with the line being written
  newer than all on disk (`Newest`). That an append keeps this order depends on
  where the handle points: `Behind` says that all files in newer slots than the
  one a sink has open are free of its lines, which renames of any sink keep,
  since handles move with their files and no file passes another. `Position`
  ties `at` and `pc` in a cascade. `SizeNeverOver` follows the handle likewise.
  The proof covers every failing call and a crash anywhere.
* *FileSink alone.* With one sink no file is open but slot 0, and what is gone
  is what was in the oldest slot when it was removed or replaced. The invariant
  adds that what is written and not retained is older than all that is
  retained, and which slots are free at each stage of a cascade: a rename goes
  to the slot emptied just before, or to the oldest one, whose removal failed.
  After a crash the next cascade starts over from the oldest slot.
* *Delivery.* A ring is the tail of what its sink accepted since the last
  `Clear`; the invariant pairs that with the order of `accepted` per goroutine
  and the number of the record under way. Lemmas on moving a sequence down by
  one slot carry `RetainsNewest`. `CallInv` says of a call under way which part
  of its snapshot is done and what happened there, the first failure included.
* *ConsoleSink.* The only values ever stored are those of the answer, so a
  store that arrives late changes nothing; an emit that began when the cache
  was filled finds it filled.
* *Values.* Masking, encoding, writing, parsing and taking leaves are recursive
  functions, of which the prover knows nothing until each is shown to have a
  solution. `ValueProofs` does so layer by layer: a solution for values nested
  at most n deep gives one for n + 1, and any two agree where both are defined
  (`MaskExists`, `LeavesExist`, `WriteExists` ...). `ValueInduction`, from the
  well-foundedness of the depth, then carries to all values what holds of
  leaves and passes from parts to wholes: a value encodes iff none of its
  leaves stands in the way (`EncodesLeaves`), a written value reads back leaf by
  leaf (`ReadLeaves`). The induction theorems of the library take an operator
  as a parameter, which the provers cannot instantiate; here a set takes its
  place. Of sorting, `InsertedAscends` and `SortedAscends` say that insertion
  by a strict total order gives the keys ascending and each once;
  `AscendingUnique`, that there is one such sequence, so that the order of
  iteration does not show. `UnitsLessLower` says that the code's comparison,
  with its case for prefixes, is the order of sequences padded with a unit
  below all others, and thereby a strict total order (`UnitsOrderStrict`).
* *Record.* `RecordInv` ties each step of the way to the request. `LevelsInv`:
  the level of a logger is the one that was last asked for, resolved, whatever
  invalid options came in between; `SuffixesInv`: the suffixes are those the
  last configuration stands for, nil for the baseline; `RecordedInv`: while
  there are arguments, the record is what the code makes of them under the
  settings, or none if the gate closed; `LinesInv`: each line is made of
  the record, under some order. `MasksConfigured` follows from `MaskedLeaves`:
  the leaves of a masked value are those of the value, cut off at the first
  secret key of the path. For the lines, an entry of a record's dictionary is
  fixed by its key (`FieldByKey`), and what is read under each key is the field
  or its absence (`DictRead`); that an identifier of a wrong length fails only
  its own record is `DictFails` with `DictEncodes`.

Only model-checked is what is stated under fairness (`GetReturns`,
`CallsReturn`, `EmitReturns`): the prover does not reason about `ENABLED`.

## 5. Not modelled

* **Subscription.** The version at hand hands out inactive subscriptions only
  (`logger.go:535-540`): `Unsubscribe` sets a flag that nothing reads.
* **Spelling**: escapes in strings (the standard library's), colours, quoting
  and timestamps of pretty lines, sink ids. Keys are taken to be valid UTF-8;
  two invalid ones may encode to the same units.
* **A write to maps that were passed in**: resource, attributes and body
  are taken to be left alone. Masking copies attributes; the body is not copied.
* **`OnReconfigure`, `Name`, `Version`, `Records`** read a value or wrap one.
* Tests, examples and `doc.go`: read as statements of intent.

## 6. Plan

Done: registry, settings and Configure, delivery, file sinks alone and
together, console sink, the way of a record from options to lines; proofs of
every safety property of the passing runs.

What would come next:

* `SetSinks` inside a scope and scopes that overlap, once it is agreed what they
  are to do: an abstract specification that describes both.
* A composition of `Delivery` with `FileSink`, for `Flush` after a rotation that
  failed.
* `ResolvedWasEffective` with scopes, and `ScopeCaptures` for goroutines that
  open scopes on loggers apart from each other.
