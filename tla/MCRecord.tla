------------------------------- MODULE MCRecord -------------------------------
(* A few keys: one in two spellings, one that is a prefix of another, one  *)
(* beyond the Basic Multilingual Plane ("emoji") and one at its end        *)
(* ("wide"), which UTF-16 and bytes order differently.                     *)
EXTENDS Reader, FiniteSets

(* In the order of their bytes, with as many units as tell them apart.     *)
Keys == <<"API_KEY", "api_key", "attributes", "body", "exception.message",
          "exception.type", "instrumentation_scope", "name", "observed_time_unix_nano",
          "resource", "severity_number", "severity_text", "span_id", "tenant",
          "time_unix_nano", "trace_flags", "trace_id", "user", "user_id", "version",
          "wide", "emoji">>
KeyUnits == << <<65, 80>>, <<97, 112>>, <<97, 116>>, <<98>>, <<101, 109>>,
              <<101, 116>>, <<105>>, <<110>>, <<111>>,
              <<114>>, <<115, 101, 110>>, <<115, 101, 116>>, <<115, 112>>, <<116, 101>>,
              <<116, 105>>, <<116, 114, 102>>, <<116, 114, 105>>, <<117, 115>>, <<117, 115, 95>>,
              <<118>>, <<65313>>, <<55357, 56832>> >>
MCUnits == [k \in Range(Keys) |-> KeyUnits[CHOOSE i \in DOMAIN Keys : Keys[i] = k]]
MCBytesLess ==
    {<<Keys[p[1]], Keys[p[2]]>> : p \in {q \in (DOMAIN Keys) \X (DOMAIN Keys) : q[1] < q[2]}}
MCOrders == {Keys, Reverse(Keys)}

MCKey == Range(Keys)
MCString == STRING
MCLoweredKey == [k \in MCKey |-> IF k = "API_KEY" THEN "api_key" ELSE k]
MCSuffix == {"_key", "_token", "tenant", "TENANT", ""}
MCLoweredSuffix == [s \in MCSuffix |-> IF s = "TENANT" THEN "tenant" ELSE s]
MCMalformed == {""}
MCEndsWith == {<<"api_key", "_key">>, <<"tenant", "tenant">>} \cup (MCKey \X {""})
MCDefault == {"_key", "_token"}

Formatted(digits, fractional) == [digits |-> digits, fractional |-> fractional]
MCFormatFloat ==
    [zero |-> Formatted("0", FALSE), minusZero |-> Formatted("-0", FALSE),
     one |-> Formatted("1", FALSE), half |-> Formatted("0.5", TRUE),
     large |-> Formatted("1e+06", TRUE)]

MCInts == 0..255
MCFormatInt == [n \in MCInts |-> ToString(n)]

MCExtras == {{}, {"tenant"}, {"TENANT"}, {"tenant", ""}}
MCLevels == {[name |-> "warning"], [number |-> 10], [name |-> "verbose"],
             [number |-> 25], [other |-> "1.5"]}
MCUpper == [warning |-> "WARNING", verbose |-> "VERBOSE", Critical |-> "CRITICAL"]

(* The entries of a map.                                                   *)
Of(f) == {<<k, f[k]>> : k \in DOMAIN f}

Text == [text |-> "v"]
NaN == [float |-> "NaN"]
Duration == [other |-> "duration"]
PerLogger ==
    {<<Nil, Nil>>, <<Nil, [name |-> "Critical"]>>, <<[number |-> 5], [number |-> 0]>>}
MCOptions ==
    [kind : {"redaction"}, config : [ExtraSuffixes : MCExtras, ReplaceDefaults : BOOLEAN]]
    \cup [kind : {"level"}, level : MCLevels]
    \cup [kind : {"levels"}, levels : {("" :> l[1]) @@ ("svc" :> l[2]) : l \in PerLogger}]
    \cup [kind : {"resource"},
          resource : {Nil} \cup [Attributes : {{}, Of("user" :> Text), Of("api_key" :> NaN)}]]
    \cup [kind : {"traceContext"}, enabled : BOOLEAN]

Maps(keys, values) == {Of(f) : f \in UNION {[ks -> values] : ks \in SUBSET keys}}
Boxed(values) ==
    values \cup {[map |-> m] : m \in Maps({"user", "API_KEY"}, values)}
           \cup {[list |-> l] : l \in {<<>>} \cup [1..1 -> values] \cup [1..2 -> values]}
Scalars == {Text, [int |-> 1], [bool |-> TRUE], [null |-> TRUE], Duration}
           \cup {[float |-> f] : f \in {"NaN", "zero", "minusZero", "one", "half", "large"}}

(* Attributes that nest, or hold a leaf of each type or keys of each order.*)
MCAttrs ==
    Maps({"user", "tenant"}, Boxed({Text}))
    \cup {Of("user" :> [list |-> <<v, Duration>>]) : v \in Boxed({Duration})}
    \cup Maps({"user"}, Scalars) \cup Maps({"api_key"}, Boxed({Duration}))
    \cup Maps({"user", "user_id", "emoji", "wide"}, {Text})

Call == [severity |-> 13, bound |-> {}, attrs |-> {}, body |-> Text, ctx |-> Nil]
Span == [valid |-> TRUE, trace |-> "t", span |-> "s", flags |-> 0]
MCEmits ==
    {[Call EXCEPT !.attrs = a] : a \in MCAttrs}
    \cup {[Call EXCEPT !.severity = n] : n \in 0..25}
    \cup {[Call EXCEPT !.body = v] : v \in Boxed(Scalars)}
    \cup {[Call EXCEPT !.ctx = c] : c \in {Span, [Span EXCEPT !.flags = 1],
                                           [Span EXCEPT !.valid = FALSE]}}
    \cup {[Call EXCEPT !.bound = b, !.attrs = a] :
             a, b \in Maps({"user", "api_key"}, {Text}) \cup {Of("user" :> Duration)}}
MCExceptionAttrs == Of(("exception.message" :> [text |-> "m"]) @@ ("exception.type" :> [text |-> "t"]))
MCExceptions ==
    {[Call EXCEPT !.body = v, !.attrs = a] :
        v \in {Text, [null |-> TRUE]}, a \in {{}, Of("exception.message" :> [int |-> 1])}}

(* Records made by an application, with ids of right and wrong lengths.    *)
Made == [TimeUnixNano |-> 7, ObservedTimeUnixNano |-> 9, SeverityNumber |-> 9,
         SeverityText |-> "INFO", Body |-> Text, Attributes |-> {},
         InstrumentationScope |-> Nil, Resource |-> Nil,
         TraceID |-> Nil, SpanID |-> Nil, TraceFlags |-> 0]
MCDirect ==
    {[Made EXCEPT !.TraceID = t, !.SpanID = s] :
        t \in {Nil} \cup [bytes : {"t"}, length : {0, 8, 16}],
        s \in {Nil} \cup [bytes : {"s"}, length : {0, 8, 16}]}
    \cup {[Made EXCEPT !.InstrumentationScope =
             [Name |-> n, Version |-> v, Attributes |-> a]] :
             n \in {"", "lib"}, v \in {"", "1.0"}, a \in {{}, Of("user" :> Text), Of("user" :> NaN)}}
=============================================================================
