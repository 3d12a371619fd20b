---------------------------- MODULE CanonicalJSON ----------------------------
(***************************************************************************)
(* CanonicalJSONMarshal (canonical_json.go).                               *)
(*                                                                         *)
(* What is written is kept as the tree a reader would find: [object |->    *)
(* the pairs of key and tree in the order written], [array |-> trees],     *)
(* [number |-> digits, fractional |-> whether there is a point or an       *)
(* exponent], and the other leaves, which JSON spells without a choice.    *)
(*                                                                         *)
(* Go ranges over a map in any order.  An order is a sequence of all keys, *)
(* of which a map takes its own.                                           *)
(***************************************************************************)
EXTENDS Values, SequencesExt

CONSTANTS
    Units,        \* the UTF-16 code units of a key, which is valid UTF-8
    NotFinite,    \* NaN and the infinities
    FormatFloat,  \* strconv.FormatFloat: the digits of a float, and whether
                  \* they have a point or an exponent
    Zeros,        \* zero and negative zero
    FormatInt     \* strconv.FormatInt

ASSUME CanonicalJSONAssumption ==
    /\ \A k \in Key : Units[k] \in Seq(Nat)
    /\ \A j, k \in Key : Units[j] = Units[k] => j = k
    /\ NotFinite \subseteq Float /\ Zeros \subseteq Float \ NotFinite
    /\ FormatFloat \in [Float \ NotFinite -> [digits : String, fractional : BOOLEAN]]
    /\ \A f, g \in Float \ NotFinite : FormatFloat[f].digits = FormatFloat[g].digits => f = g
    /\ \E f \in Zeros : FormatFloat[f].digits = "0"
    /\ FormatInt \in [Ints -> String] /\ IsInjective(FormatInt)

-----------------------------------------------------------------------------
(* Sorting the keys of a map as they are ranged over.  Each goes to the    *)
(* right of the last that it is not less than (sort.SliceStable).          *)
Inserted(key, sorted, less) ==
    InsertAt(sorted, 1 + Max({0} \cup {i \in DOMAIN sorted : <<key, sorted[i]>> \notin less}), key)

Sorted(keys, order, less) ==
    LET upTo[n \in Nat] ==
          IF n = 0 THEN <<>>
          ELSE IF order[n] \in keys THEN Inserted(order[n], upTo[n - 1], less)
          ELSE upTo[n - 1]
    IN  upTo[Len(order)]

UnitsLessUnlessPrefix(a, b) ==
    \E k \in DOMAIN a \cap DOMAIN b :
        a[k] < b[k] /\ \A j \in 1..(k - 1) : a[j] = b[j]

(* The first difference decides, then the length.                          *)
UnitsLess(a, b) ==
    \/ \E k \in DOMAIN a \cap DOMAIN b :
          a[k] < b[k] /\ \A j \in 1..(k - 1) : a[j] = b[j]
    \/ IsStrictPrefix(a, b)

UnitsOrder == {p \in Key \X Key : UnitsLess(Units[p[1]], Units[p[2]])}

sortKeysUTF16(keys, order) == Sorted(keys, order, UnitsOrder)

writeCanonicalFloatAsFormatted(f) ==
    IF f \in Zeros THEN [number |-> "0", fractional |-> TRUE]
    ELSE [number |-> FormatFloat[f].digits, fractional |-> FormatFloat[f].fractional]

(* Negative zero loses its sign; a float without a point gets one.         *)
writeCanonicalFloat(f) ==
    [number |-> IF f \in Zeros THEN "0" ELSE FormatFloat[f].digits, fractional |-> TRUE]

(* An error anywhere in a value is an error of the whole.                  *)
Encodable(value) ==
    LET ok[v \in Value] ==
          CASE "map" \in DOMAIN v   -> \A p \in v.map : ok[p[2]]
            [] "list" \in DOMAIN v  -> \A i \in DOMAIN v.list : ok[v.list[i]]
            [] "float" \in DOMAIN v -> v.float \notin NotFinite
            [] OTHER -> "other" \notin DOMAIN v
    IN  ok[value]

writeCanonicalArray(a, write) == [array |-> [i \in DOMAIN a |-> write[a[i]]]]

writeCanonicalObject(m, order, write) ==
    LET keys == sortKeysUTF16(KeysOf(m), order)
    IN  [object |-> [i \in DOMAIN keys |-> <<keys[i], write[At(m, keys[i])]>>]]

writeCanonical(value, order) ==
    LET write[v \in Value] ==
          CASE "map" \in DOMAIN v   -> writeCanonicalObject(v.map, order, write)
            [] "list" \in DOMAIN v  -> writeCanonicalArray(v.list, write)
            [] "int" \in DOMAIN v   -> [number |-> FormatInt[v.int], fractional |-> FALSE]
            [] "float" \in DOMAIN v -> writeCanonicalFloat(v.float)
            [] OTHER -> v
    IN  write[value]

CanonicalJSONMarshal(v, order, error) ==
    IF Encodable(v) THEN [tree |-> writeCanonical(v, order)] ELSE error
=============================================================================
