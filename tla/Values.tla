-------------------------------- MODULE Values --------------------------------
(***************************************************************************)
(* What an attribute or a body may hold (records.go: any).  A map is the   *)
(* set of its entries, pairs of a key and a value, no two of one key; a    *)
(* slice is a sequence; everything else is a leaf, a record whose field    *)
(* names the type.  A typed map or slice is a leaf of an "other" type.     *)
(***************************************************************************)
EXTENDS Integers, Sequences

CONSTANTS
    Key,
    String,      \* the strings a value or an identifier may be
    Ints,        \* the integers: those of 64 bits
    Float,       \* the floats, NaN and the infinities among them
    MaxDepth     \* how deep the attributes of a call nest, at most

ASSUME ValuesAssumption == MaxDepth \in Nat /\ Ints \subseteq Int

Leaf ==
    [null : {TRUE}] \cup [bool : BOOLEAN] \cup [text : String] \cup [int : Ints]
    \cup [float : Float] \cup [other : String]
    \cup [hex : String, digits : Nat]       \* the text of an identifier

MapOf(V) == {m \in SUBSET (Key \X V) : \A p, q \in m : p[1] = q[1] => p = q}

(* The values that nest at most n deep.                                    *)
Nested[n \in Nat] ==
    IF n = 0 THEN Leaf
    ELSE Leaf \cup [map : MapOf(Nested[n - 1])] \cup [list : Seq(Nested[n - 1])]

(* A line wraps the attributes of a resource in three maps.                *)
Value == Nested[MaxDepth + 3]
Attrs == MapOf(Nested[MaxDepth])

KeysOf(m) == {p[1] : p \in m}

At(m, key) == (CHOOSE p \in m : p[1] = key)[2]

(* One map over another.                                                   *)
Over(m, w) == m \cup {p \in w : p[1] \notin KeysOf(m)}

(* The leaves and empty containers of a value, with the path to each: what *)
(* properties compare, instead of recursing like the code.                 *)
Leaves(value) ==
    LET leaves[v \in Value] ==
          CASE "map" \in DOMAIN v /\ v.map # {} ->
                  UNION {{<<<<[key |-> p[1]]>> \o l[1], l[2]>> : l \in leaves[p[2]]} :
                         p \in v.map}
            [] "list" \in DOMAIN v /\ v.list # <<>> ->
                  UNION {{<<<<[index |-> i]>> \o l[1], l[2]>> : l \in leaves[v.list[i]]} :
                         i \in DOMAIN v.list}
            [] OTHER -> {<<<<>>, v>>}
    IN  leaves[value]
=============================================================================
