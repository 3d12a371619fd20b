-------------------------------- MODULE Record --------------------------------
(***************************************************************************)
(* The way of a record: from the arguments of an emit, through the level,  *)
(* the masking and the resource that Configure has set (configuration.go,  *)
(* logger.go), to the lines that sinks make of it (wire.go, trace_ids.go,  *)
(* canonical_json.go, console_sink.go).  Logger has the interleavings of   *)
(* Configure and emit; here each is one step, and the data counts.         *)
(***************************************************************************)
EXTENDS Redaction, CanonicalJSON

CONSTANTS
    Options,       \* the options an application gives to Configure
    Emits,         \* the arguments of its emits
    Exceptions,    \* and of its calls of Exception
    Direct,        \* records it hands to a sink itself
    Orders,        \* the orders in which maps are ranged over
    Upper,         \* strings.ToUpper of a level name
    BytesLess,     \* the pairs of keys in the order of their bytes
    ExceptionAttrs,\* the exception.* attributes of an error
    Now

Logger == {"", "svc"}    \* the root, and a logger that emits and inherits
Scope == [Name |-> "svc", Version |-> "", Attributes |-> {}]

Failed == [error |-> TRUE]    \* instead of a line

(* The arguments of Configure, of an emit, and what a record holds.        *)
Level == [number : Int] \cup [name : DOMAIN Upper] \cup [other : String]
Config == [ExtraSuffixes : SUBSET Suffix, ReplaceDefaults : BOOLEAN]

Resource == [Attributes : Attrs]

Option ==
    [kind : {"level"}, level : Level]
    \cup [kind : {"levels"}, levels : [Logger -> Level \cup {Nil}]]
    \cup [kind : {"redaction"}, config : Config]
    \cup [kind : {"resource"}, resource : Resource \cup {Nil}]
    \cup [kind : {"traceContext"}, enabled : BOOLEAN]

Context == [valid : BOOLEAN, trace : String, span : String, flags : 0..255]

Arguments ==
    [severity : Int, bound : Attrs, attrs : Attrs, body : Nested[MaxDepth],
     ctx : Context \cup {Nil}]

InstrumentationScope == [Name : String, Version : String, Attributes : Attrs]
Identifier == [bytes : String, length : Nat]

LogRecords ==
    [TimeUnixNano : Ints, ObservedTimeUnixNano : Ints, SeverityNumber : Ints,
     SeverityText : String, Body : Nested[MaxDepth], Attributes : Attrs,
     InstrumentationScope : InstrumentationScope \cup {Nil}, Resource : Resource \cup {Nil},
     TraceID : Identifier \cup {Nil}, SpanID : Identifier \cup {Nil},
     TraceFlags : 0..255]

WireKeys ==
    {"time_unix_nano", "observed_time_unix_nano", "severity_number", "severity_text",
     "body", "attributes", "instrumentation_scope", "name", "version", "resource",
     "trace_id", "span_id", "trace_flags"}

ASSUME RecordAssumption ==
    /\ \A o \in Options : o \in Option
    /\ \A e \in Emits \cup Exceptions : e \in Arguments
    /\ \A r \in Direct : r \in LogRecords
    /\ ExceptionAttrs \in Attrs /\ "exception.message" \in KeysOf(ExceptionAttrs)
    /\ Upper \in [DOMAIN Upper -> String]
    /\ WireKeys \subseteq Key /\ Now \in Ints /\ 0..255 \subseteq Ints
    /\ {"svc", "", "TRACE", "DEBUG", "INFO", "WARN", "ERROR", "FATAL"} \subseteq String

(* Go ranges over a map in any order, and orders strings by their bytes.   *)
ASSUME OrderAssumption ==
    /\ \A o \in Orders : o \in Seq(Key) /\ IsInjective(o) /\ Range(o) = Key
    /\ \A j, k, l \in Key :
         <<j, k>> \in BytesLess /\ <<k, l>> \in BytesLess => <<j, l>> \in BytesLess
    /\ \A j, k \in Key :
         /\ ~(<<j, k>> \in BytesLess /\ <<k, j>> \in BytesLess)
         /\ j = k \/ <<j, k>> \in BytesLess \/ <<k, j>> \in BytesLess

(* Nil is none of the values it stands beside.                             *)
ASSUME NilAssumption ==
    /\ Nil \notin 1..24 /\ Nil \notin Level /\ Nil \notin Value
    /\ Nil \notin Option /\ Nil \notin Arguments /\ Nil \notin LogRecords
    /\ Nil \notin Resource /\ Nil \notin InstrumentationScope
    /\ Nil \notin Context /\ Nil \notin Identifier

VARIABLES
    level,      \* own minimum severity of each logger, or Nil
    suffixes,   \* of the root: a list, or Nil
    resource,   \* of the root, or Nil
    asked,      \* history: the level last asked for each logger, or Nil
    config,     \* history: the last RedactionConfig that took effect
    given,      \* the arguments of the emit since then, or Nil
    record,     \* the record the sinks receive, or Nil
    lines       \* what sinks made of it

settings == <<level, suffixes, resource, asked, config>>
vars == <<settings, given, record, lines>>

Baseline == [ExtraSuffixes |-> {}, ReplaceDefaults |-> FALSE]

Init ==
    /\ level = [n \in Logger |-> Nil] /\ suffixes = Nil /\ resource = Nil
    /\ asked = [n \in Logger |-> Nil] /\ config = Baseline
    /\ given = Nil /\ record = Nil /\ lines = {}

-----------------------------------------------------------------------------
IsValidSeverityNumber(n) == n \in 1..24

CanonicalSeverityTexts == <<"TRACE", "DEBUG", "INFO", "WARN", "ERROR", "FATAL">>
Buckets == <<4, 8, 12, 16, 20, 24>>

SeverityTextForOffByOne(n) ==
    CanonicalSeverityTexts[CHOOSE i \in DOMAIN Buckets :
        (n < Buckets[i] \/ n = 24) /\ \A j \in 1..(i - 1) : n >= Buckets[j]]

SeverityTextFor(n) ==
    CanonicalSeverityTexts[CHOOSE i \in DOMAIN Buckets :
        n <= Buckets[i] /\ \A j \in 1..(i - 1) : n > Buckets[j]]

severityNameToNumber ==
    [TRACE |-> 1, DEBUG |-> 5, INFO |-> 9, WARN |-> 13, WARNING |-> 13,
     ERROR |-> 17, FATAL |-> 21, CRITICAL |-> 21]

(* A level is [number |-> n], [name |-> s] or of another type; Nil stands  *)
(* for the error.                                                          *)
resolveLevel(l) ==
    CASE "number" \in DOMAIN l /\ IsValidSeverityNumber(l.number) -> l.number
      [] "name" \in DOMAIN l /\ Upper[l.name] \in DOMAIN severityNameToNumber ->
            severityNameToNumber[Upper[l.name]]
      [] OTHER -> Nil

(* The options that panic when they are built or run.                      *)
Invalid(o) ==
    CASE o.kind = "level"        -> resolveLevel(o.level) = Nil
      [] o.kind = "levels"       -> \E n \in Logger : o.levels[n] # Nil /\ resolveLevel(o.levels[n]) = Nil
      [] o.kind = "redaction"    -> ~ValidateRedactionConfig(o.config)
      [] o.kind = "traceContext" -> o.enabled
      [] o.kind = "resource"     -> FALSE

(* Each option overwrites what one of its kind before it has set.          *)
LastOf(kind, options) ==
    LET those == {i \in DOMAIN options : options[i].kind = kind}
    IN  IF those = {} THEN Nil ELSE options[Max(those)]

(* The per-logger levels are applied after the root's.                     *)
LevelFor(n, options) ==
    LET each == LastOf("levels", options)
        root == LastOf("level", options)
    IN  IF each # Nil /\ each.levels[n] # Nil THEN each.levels[n]
        ELSE IF n = "" /\ root # Nil THEN root.level ELSE Nil

(* An option that panics leaves everything as it was.  The warning about   *)
(* disabled redaction is an emit of Logger.  The bound: no Configure while *)
(* a record is looked at, whose way it could not change.                   *)
Configure(options) ==
    /\ given = Nil /\ record = Nil
    /\ IF \E o \in Range(options) : Invalid(o)
         THEN UNCHANGED settings
         ELSE LET chosen == [n \in Logger |-> LevelFor(n, options)]
                  res    == LastOf("resource", options)
                  mask   == LastOf("redaction", options)
              IN  /\ level' = [n \in Logger |-> IF chosen[n] = Nil THEN level[n]
                                                ELSE resolveLevel(chosen[n])]
                  /\ asked' = [n \in Logger |-> IF chosen[n] = Nil THEN asked[n]
                                                ELSE chosen[n]]
                  /\ resource' = IF res = Nil THEN resource ELSE res.resource
                  /\ config' = IF mask = Nil THEN config ELSE mask.config
                  /\ suffixes' = IF mask = Nil THEN suffixes
                                 ELSE BuildEffectiveSuffixes(mask.config)
    /\ UNCHANGED <<given, record, lines>>

(* SetRedactionSuffixes(nil)                                               *)
ClearSuffixes ==
    /\ suffixes' = Nil /\ config' = Baseline
    /\ given' = Nil /\ record' = Nil /\ lines' = {}
    /\ UNCHANGED <<level, resource, asked>>

-----------------------------------------------------------------------------
EffectiveFallingBack ==
    IF suffixes \in {Nil, {}} THEN DefaultSecretSuffixes ELSE suffixes

(* An explicit list masks as it is, also when it is empty.                 *)
EffectiveSecretSuffixes == IF suffixes = Nil THEN DefaultSecretSuffixes ELSE suffixes

EffectiveMinSeverity ==
    IF level["svc"] # Nil THEN level["svc"] ELSE IF level[""] # Nil THEN level[""] ELSE 1

(* A context has a span, or it has none that is valid.                     *)
ActiveTraceContext(ctx) ==
    IF ctx = Nil \/ ~ctx.valid THEN [TraceID |-> Nil, SpanID |-> Nil, TraceFlags |-> 0]
    ELSE [TraceID    |-> [bytes |-> ctx.trace, length |-> 16],
          SpanID     |-> [bytes |-> ctx.span, length |-> 8],
          TraceFlags |-> ctx.flags]

(* Attributes of the call come before those bound by Child.                *)
Merged(e) == Over(e.attrs, e.bound)

LogRecord(e) ==
    LET valid == IsValidSeverityNumber(e.severity)
        trace == ActiveTraceContext(e.ctx)
    IN  [TimeUnixNano |-> Now, ObservedTimeUnixNano |-> 0,
         SeverityNumber |-> IF valid THEN e.severity ELSE 9,
         SeverityText |-> IF valid THEN SeverityTextFor(e.severity) ELSE "INFO",
         Body |-> e.body,
         Attributes |-> RedactAttributes(Merged(e), EffectiveSecretSuffixes),
         InstrumentationScope |-> Scope, Resource |-> resource,
         TraceID |-> trace.TraceID, SpanID |-> trace.SpanID, TraceFlags |-> trace.TraceFlags]

(* The gate sees the number as it is.  The bound: one record after each    *)
(* change, as the way of a record leaves no trace.                         *)
Emit(e) ==
    /\ given = Nil /\ record = Nil
    /\ given' = e
    /\ record' = IF e.severity < EffectiveMinSeverity THEN Nil ELSE LogRecord(e)
    /\ UNCHANGED <<settings, lines>>

(* Exception, of the nil error or of one with the exception.* attributes   *)
(* given: the attributes of the call come before those of the error, and a *)
(* body that is nil is replaced by the message.                            *)
Exception(e, err) ==
    IF err = Nil THEN UNCHANGED vars
    ELSE Emit([severity |-> 17, bound |-> e.bound, ctx |-> e.ctx,
               attrs |-> Over(e.attrs, err),
               body |-> IF e.body = [null |-> TRUE] THEN At(err, "exception.message")
                        ELSE e.body])

(* A sink may be handed a record that no logger made.                      *)
Hand(r) ==
    /\ given = Nil /\ record = Nil
    /\ record' = r
    /\ UNCHANGED <<settings, given, lines>>

-----------------------------------------------------------------------------
EncodeTraceID(id) == IF id.length = 16 THEN [hex |-> id.bytes, digits |-> 32] ELSE Failed

EncodeSpanIDAsTrace(id) == IF id.length = 16 THEN [hex |-> id.bytes, digits |-> 16] ELSE Failed

EncodeSpanID(id) == IF id.length = 8 THEN [hex |-> id.bytes, digits |-> 16] ELSE Failed

(* The text of an id: absent or empty it stands for none; [hex, digits] is *)
(* a text of hexadecimal digits only, any other has invalid characters.    *)
NoID(h) == h = Nil \/ ("text" \in DOMAIN h /\ h.text = "")

HexOf(h, length) == "hex" \in DOMAIN h /\ h.digits = 2 * length

DecodeTraceID(h) ==
    IF NoID(h) THEN Nil
    ELSE IF HexOf(h, 16) THEN [bytes |-> h.hex, length |-> 16] ELSE Failed

DecodeSpanID(h) ==
    IF NoID(h) THEN Nil
    ELSE IF HexOf(h, 8) THEN [bytes |-> h.hex, length |-> 8] ELSE Failed

(* The entry of a field that may be left out.                              *)
Entry(key, present, value) == IF present THEN {<<key, value>>} ELSE {}

serializeScope(s) ==
    [map |-> {<<"name", [text |-> s.Name]>>}
             \cup Entry("version", s.Version # "", [text |-> s.Version])
             \cup Entry("attributes", s.Attributes # {}, [map |-> s.Attributes])]

serializeResource(r) == [map |-> {<<"attributes", [map |-> r.Attributes]>>}]

(* Fields that are empty, zero or nil are left out.                        *)
ToDagstackJSONLDict(r) ==
    {<<"time_unix_nano", [int |-> r.TimeUnixNano]>>,
     <<"severity_number", [int |-> r.SeverityNumber]>>,
     <<"severity_text", [text |-> r.SeverityText]>>,
     <<"body", r.Body>>}
    \cup Entry("observed_time_unix_nano", r.ObservedTimeUnixNano # 0,
               [int |-> r.ObservedTimeUnixNano])
    \cup Entry("attributes", r.Attributes # {}, [map |-> r.Attributes])
    \cup Entry("instrumentation_scope", r.InstrumentationScope # Nil,
               serializeScope(r.InstrumentationScope))
    \cup Entry("resource", r.Resource # Nil /\ r.Resource.Attributes # {},
               serializeResource(r.Resource))
    \cup Entry("trace_id", r.TraceID # Nil, EncodeTraceID(r.TraceID))
    \cup Entry("span_id", r.SpanID # Nil, EncodeSpanID(r.SpanID))
    \cup Entry("trace_flags", r.TraceFlags # 0, [int |-> r.TraceFlags])

ToDagstackJSONL(r, order) ==
    LET dict == ToDagstackJSONLDict(r)
    IN  IF \E p \in dict : p[2] = Failed THEN Failed
        ELSE CanonicalJSONMarshal([map |-> dict], order, Failed)

(* The pretty line of a console never fails: what is not text is encoded,  *)
(* and what cannot be encoded is printed some way.                         *)
formatBody(v, order) ==
    IF "text" \in DOMAIN v THEN v
    ELSE CanonicalJSONMarshal(v, order, [printed |-> v])

formatAttrs(attrs, order) ==
    LET keys == Sorted(KeysOf(attrs), order, BytesLess)
    IN  [i \in DOMAIN keys |-> <<keys[i], At(attrs, keys[i])>>]

formatPretty(r, order) ==
    [text |-> r.SeverityText,
     name |-> IF r.InstrumentationScope = Nil \/ r.InstrumentationScope.Name = ""
                THEN "root" ELSE r.InstrumentationScope.Name,
     body |-> formatBody(r.Body, order),
     attributes |-> formatAttrs(r.Attributes, order)]

(* A sink makes its line of the record; in JSON, one that fails to encode  *)
(* is dropped without a sign.                                              *)
Format(style, order) ==
    /\ record # Nil
    /\ lines' = lines \cup
         {[style |-> style,
           line  |-> IF style = "json" THEN ToDagstackJSONL(record, order)
                                       ELSE formatPretty(record, order)]}
    /\ UNCHANGED <<settings, given, record>>

Next ==
    \/ \E o \in Options : Configure(<<o>>)
    \/ \E o, p \in Options : Configure(<<o, p>>)
    \/ ClearSuffixes
    \/ \E e \in Emits : Emit(e)
    \/ \E e \in Exceptions, err \in {ExceptionAttrs, Nil} : Exception(e, err)
    \/ \E r \in Direct : Hand(r)
    \/ \E style \in {"json", "pretty"}, order \in Orders : Format(style, order)

Spec == Init /\ [][Next]_vars

-----------------------------------------------------------------------------
(* What of a leaf a record may show.                                       *)
Secret(key) ==
    \E s \in config.ExtraSuffixes
              \cup (IF config.ReplaceDefaults THEN {} ELSE DefaultSecretSuffixes) :
        <<LoweredKey[key], s>> \in EndsWith

Shown(leaf) ==
    LET path   == leaf[1]
        secret == {i \in DOMAIN path : "key" \in DOMAIN path[i] /\ Secret(path[i].key)}
    IN  IF secret = {} THEN leaf
        ELSE <<SubSeq(path, 1, CHOOSE i \in secret : \A j \in secret : i <= j), Placeholder>>

(* The leaves of a record's attributes: of an emit, what may be shown of   *)
(* its arguments.                                                          *)
ShownAttributes ==
    IF given = Nil THEN Leaves([map |-> record.Attributes])
    ELSE {Shown(l) : l \in Leaves([map |-> Merged(given)])}

(* A record shows a value exactly when no key on the path to it is secret  *)
(* under the configuration in effect, through maps and lists at any depth; *)
(* a secret key shows the placeholder, and nothing else appears            *)
(* (redaction.go:52-63, 145-151).                                          *)
MasksConfigured ==
    given # Nil /\ record # Nil => Leaves([map |-> record.Attributes]) = ShownAttributes

(* A level asked for by name lets exactly the texts from that name on      *)
(* through, one asked for by number exactly the numbers from it on, own    *)
(* level before the root's; a record carries the number it was emitted     *)
(* with (configuration.go:33-44, 188-227, severity.go:56-74, logger.go:615)*)
Alias == [WARNING |-> "WARN", CRITICAL |-> "FATAL"]

RecordedAtLevel ==
    given # Nil /\ IsValidSeverityNumber(given.severity) =>
        LET l      == IF asked["svc"] # Nil THEN asked["svc"] ELSE asked[""]
            Rank(t) == CHOOSE i \in 1..6 : CanonicalSeverityTexts[i] = t
            text   == CanonicalSeverityTexts[(given.severity + 3) \div 4]
            name   == IF Upper[l.name] \in DOMAIN Alias THEN Alias[Upper[l.name]]
                      ELSE Upper[l.name]
        IN  /\ record # Nil <=> CASE l = Nil -> TRUE
                                  [] l # Nil /\ "number" \in DOMAIN l -> given.severity >= l.number
                                  [] OTHER -> Rank(text) >= Rank(name)
            /\ record # Nil => record.SeverityNumber = given.severity /\ record.SeverityText = text

(* JSON sinks drop a record exactly when something it shows is a NaN, an   *)
(* infinity or of an unknown type, or an id has the wrong length; a value  *)
(* behind a secret key costs no record (canonical_json.go:88-100,          *)
(* wire.go:45-57, trace_ids.go:16-39).                                     *)
Parts(r) ==
    {r.Body}
    \cup (IF r.InstrumentationScope = Nil THEN {} ELSE {[map |-> r.InstrumentationScope.Attributes]})
    \cup (IF r.Resource = Nil THEN {} ELSE {[map |-> r.Resource.Attributes]})

Unencodable(leaf) == "other" \in DOMAIN leaf \/ ("float" \in DOMAIN leaf /\ leaf.float \in NotFinite)

DroppedOnlyIfUnencodable ==
    \A l \in lines : l.style = "json" =>
        (l.line = Failed <=>
            \/ \E leaf \in ShownAttributes \cup UNION {Leaves(v) : v \in Parts(record)} :
                  Unencodable(leaf[2])
            \/ record.TraceID # Nil /\ record.TraceID.length # 16
            \/ record.SpanID # Nil /\ record.SpanID.length # 8)
=============================================================================
