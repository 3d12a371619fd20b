-------------------------------- MODULE Reader --------------------------------
(***************************************************************************)
(* Record, and who reads the lines that sinks make: the trees of           *)
(* CanonicalJSON, back to values.                                          *)
(***************************************************************************)
EXTENDS Record

TreeLeaf ==
    [null : {TRUE}] \cup [bool : BOOLEAN] \cup [text : String]
    \cup [number : String, fractional : BOOLEAN]
    \cup [hex : String, digits : Nat]

(* The trees that nest at most n deep.                                     *)
Grown[n \in Nat] ==
    IF n = 0 THEN TreeLeaf
    ELSE TreeLeaf \cup [object : Seq(Key \X Grown[n - 1])] \cup [array : Seq(Grown[n - 1])]

Tree == Grown[MaxDepth + 3]

(* What a reader makes of a tree.                                          *)
Parsed(tree) ==
    LET parsed[t \in Tree] ==
          CASE "object" \in DOMAIN t ->
                  [map |-> {<<t.object[i][1], parsed[t.object[i][2]]>> : i \in DOMAIN t.object}]
            [] "array" \in DOMAIN t -> [list |-> [i \in DOMAIN t.array |-> parsed[t.array[i]]]]
            [] "number" \in DOMAIN t ->
                  IF t.fractional
                    THEN [float |-> CHOOSE f \in DOMAIN FormatFloat : FormatFloat[f].digits = t.number]
                    ELSE [int |-> CHOOSE n \in Ints : FormatInt[n] = t.number]
            [] OTHER -> t
    IN  parsed[tree]

(* Whether the keys of every object stand in UTF-16 order, each once: as   *)
(* if a key that ends went on with a unit below all others.                *)
Precedes(a, b) ==
    LET Nth(s, k) == IF k \in DOMAIN s THEN s[k] ELSE -1
    IN  \E k \in DOMAIN b : /\ Nth(a, k) < b[k]
                            /\ \A j \in 1..(k - 1) : Nth(a, j) = b[j]

Canonical(tree) ==
    LET canonical[t \in Tree] ==
          CASE "object" \in DOMAIN t ->
                  /\ \A i \in DOMAIN t.object : canonical[t.object[i][2]]
                  /\ \A i, j \in DOMAIN t.object :
                        i < j => Precedes(Units[t.object[i][1]], Units[t.object[j][1]])
            [] "array" \in DOMAIN t -> \A i \in DOMAIN t.array : canonical[t.array[i]]
            [] OTHER -> TRUE
    IN  canonical[tree]

-----------------------------------------------------------------------------
(* However maps are ranged over, all sinks of a style write the same line, *)
(* and the keys of every object in JSON ascend in UTF-16 order             *)
(* (canonical_json.go:11-28, 166-187, console_sink.go:243-257).            *)
LinesCanonical ==
    /\ \A l, m \in lines : l.style = m.style => l = m
    /\ \A l \in lines : l.style = "json" /\ l.line # Failed => Canonical(l.line.tree)

(* What a value is read as, and what is absent.                            *)
Unsigned(leaf) ==
    IF "float" \in DOMAIN leaf /\ leaf.float \in Zeros
      THEN [float |-> CHOOSE f \in Zeros : FormatFloat[f].digits = "0"] ELSE leaf

Same(v, w) == Leaves(v) = {<<leaf[1], Unsigned(leaf[2])>> : leaf \in Leaves(w)}

Field(m, key, absent) == IF key \in KeysOf(m) THEN At(m, key) ELSE absent

(* Who reads a line finds the record: every value with its type, a whole   *)
(* float not taken for an integer, negative zero as zero, what is absent   *)
(* as empty, and the identifiers by their decoders (wire.go:8-62,          *)
(* canonical_json.go:17-24, 124-146, trace_ids.go:38-68).                  *)
LineShowsRecord ==
    \A l \in lines : l.style = "json" /\ l.line # Failed =>
        LET read  == Parsed(l.line.tree).map
            none  == [map |-> {}]
            scope == Field(read, "instrumentation_scope", Nil)
        IN  /\ At(read, "time_unix_nano").int = record.TimeUnixNano
            /\ Field(read, "observed_time_unix_nano", [int |-> 0]).int
                 = record.ObservedTimeUnixNano
            /\ At(read, "severity_number").int = record.SeverityNumber
            /\ At(read, "severity_text").text = record.SeverityText
            /\ Same(At(read, "body"), record.Body)
            /\ Same(Field(read, "attributes", none), [map |-> record.Attributes])
            /\ Same(Field(Field(read, "resource", none).map, "attributes", none),
                    IF record.Resource = Nil THEN none ELSE [map |-> record.Resource.Attributes])
            /\ scope = Nil <=> record.InstrumentationScope = Nil
            /\ scope # Nil =>
                 /\ At(scope.map, "name").text = record.InstrumentationScope.Name
                 /\ Field(scope.map, "version", [text |-> ""]).text
                      = record.InstrumentationScope.Version
                 /\ Same(Field(scope.map, "attributes", none),
                         [map |-> record.InstrumentationScope.Attributes])
            /\ DecodeTraceID(Field(read, "trace_id", Nil)) = record.TraceID
            /\ DecodeSpanID(Field(read, "span_id", Nil)) = record.SpanID
            /\ Field(read, "trace_flags", [int |-> 0]).int = record.TraceFlags
=============================================================================
